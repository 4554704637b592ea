---------------------------- MODULE SharingProofs ----------------------------
(***************************************************************************)
(* Proofs about modules Sharing and FolderMoves.                           *)
(*                                                                         *)
(* Of Sharing, for any number of accounts, contents and writes, any quotas *)
(* and any changes of room: who departs receives nothing, and the copies   *)
(* of those who are level show the same file and have the same record of   *)
(* it.                                                                     *)
(*                                                                         *)
(* A request writes what it read a step earlier.  What keeps that right is *)
(* that the populations it read only change in ways its locks allow: the   *)
(* targets of a write stay live, and nobody becomes level beside it.       *)
(*                                                                         *)
(* The versions of different copies differ: a join records the head anew,  *)
(* with a moment of its own.  What they have in common is the writes they  *)
(* are of, and the record is about those.                                  *)
(*                                                                         *)
(* Of FolderMoves, for any names, folders, shares, rows and bounds: the    *)
(* rows of the vault stay one tree, in which a share has one scope, and    *)
(* what is on the disk is in folders that are.  A pass names what it asks  *)
(* for by node ids, paths and scopes of its own picture, which others have *)
(* long overtaken; what makes up for that is that an id is of a file, or   *)
(* of a folder, for good, and that the server looks at everything else.    *)
(***************************************************************************)
EXTENDS Sharing, FolderMoves, SequenceTheorems, FiniteSetTheorems, WellFoundedInduction, TLAPS

-----------------------------------------------------------------------------
(* The invariants.                                                         *)

\* A file in the folder keeps a version, for others to join with, and so does
\* what is read of one for a catch-up.
PastIsKept ==
  \A u \in Users :
    /\ copy[u] # None /\ (u = Initiator \/ Inside(u)) => copy[u].history # <<>>
    /\ Doing(u, {"thaw"}) /\ tx[u].source # None => tx[u].source.history # <<>>

\* What the operations carry from their first step to their second.
RequestsFit ==
  \A u \in Users :
    /\ Doing(u, WriteOps \ {"delete"}) => tx[u].content \in Contents
    /\ Doing(u, {"create"}) => tx[u].name \in Users \cup {"KS"}
    /\ Doing(u, {"join"}) => /\ u # Initiator
                             /\ tx[u].source # None => copy[Initiator] # None
    /\ Doing(u, {"thaw"}) => tx[u].room \in Rooms[u]

Typed == TypeOK /\ PastIsKept /\ RequestsFit

Unshared == share \in {"none", "preparing"}

\* Nobody is in a share that is not active yet but its initiator, who is in it
\* as long as it is active.
Places ==
  /\ member[Initiator] # "invited"
  /\ share \in {"preparing", "active"} => member[Initiator] = "joined"
  /\ share = "none" => member[Initiator] = "none"
  /\ Unshared => \A u \in Users \ {Initiator} : member[u] = "none"

\* The departure of the initiator ends the share, and nobody withdraws them.
Departures ==
  \A u \in Users :
    /\ Doing(u, {"leave", "revoke"}) /\ tx[u].target = Initiator => tx[u].ends
    /\ Doing(u, {"withdraw"}) => tx[u].target # Initiator

\* A write goes to live members, and before the share is active to nobody.
TargetsStay ==
  \A u \in Users :
    /\ Doing(u, WriteOps) => tx[u].to \subseteq Live \ {u}
    /\ Unshared => /\ Doing(u, WriteOps) => u = Initiator /\ tx[u].to = {}
                   /\ ~Doing(u, {"join"})

MembersInv == Typed /\ Places /\ Departures /\ TargetsStay

\* What the copies do not survive does not happen, but for two departures.
Careful ==
  {"write in a join", "write in a thaw", "join from a frozen copy", "nobody to catch up from",
   "catch up from a copy that lacks it", "restore of what a copy lacks"} \cap Mishaps = {}

\* No write runs beside a join or a thaw.
WritesApart ==
  \A u, w \in Users : Doing(u, WriteOps) => ~Doing(w, {"join", "thaw"})

\* A write goes to everybody who is level, and what it restores they have.
WritesReach ==
  \A u \in Users :
    /\ Doing(u, WriteOps) => Level \ {u} \subseteq tx[u].to
    /\ Doing(u, {"restore"}) => \A v \in tx[u].to \cup {u} : copy[v] # None

\* Whoever is level sees x, or will when a join or a thaw commits.
AllSee(x) ==
  /\ \A v \in Level : Shown(copy[v]) = x
  /\ share = "active" => \A u \in Users :
       /\ Doing(u, {"join"}) => tx[u].source = x
       /\ Doing(u, {"thaw"}) /\ member[u] = "joined"
            => Shown(CaughtUp(copy[u], tx[u].source)) = x

OneView == \E x \in Contents \cup {None} : AllSee(x)

LevelInv == WritesApart /\ WritesReach /\ OneView

-----------------------------------------------------------------------------
(* Steps and requests.                                                     *)

\* Every step is of one account, and one of these.
LEMMA Steps ==
    ASSUME [Next]_vars
    PROVE  \/ \E u \in Users :
                \/ CreateShare(u) \/ Prepare(u) \/ CancelShare(u) \/ Activate(u)
                \/ Decline(u) \/ StartJoin(u) \/ StartDelete(u) \/ StartLeave(u) \/ Finalize(u)
                \/ \E r \in Rooms[u] : SetRoom(u, r) \/ StartThaw(u, r)
                \/ \E v \in Users : Invite(u, v) \/ StartRemove(u, v)
                \/ \E content \in Contents :
                     StartCreate(u, content) \/ StartPut(u, content) \/ StartRestore(u, content)
                \/ CommitJoin(u) \/ CommitWrite(u) \/ CommitWithdraw(u)
                \/ CommitDeparture(u) \/ CommitThaw(u) \/ RollBack(u)
           \/ UNCHANGED vars
BY DEF Next, EndRequest

\* What a request holds, by what it is.
LEMMA RequestKinds ==
    ASSUME NEW t \in Request
    PROVE  /\ t.op \in WriteOps => /\ t.content \in Contents \cup {None}
                                   /\ t.name \in Users \cup {"KS", None}
                                   /\ t.to \in SUBSET Users
           /\ t.op = "join" => t.source \in Contents \cup {None}
           /\ t.op = "thaw" => t.source \in Copy \cup {None}
           /\ t.op \in {"leave", "revoke"} => t.target \in Users /\ t.ends \in BOOLEAN
           /\ t.op = "withdraw" => t.target \in Users
BY DEF Request, WriteOps

\* The requests that begin are requests.
LEMMA RequestsMade ==
    ASSUME NEW u \in Users
    PROVE  /\ \A op \in WriteOps, content \in Contents \cup {None},
                 name \in Users \cup {"KS", None}, to \in SUBSET Users :
                [op |-> op, content |-> content, name |-> name, to |-> to] \in Request
           /\ \A source \in Contents \cup {None} : [op |-> "join", source |-> source] \in Request
           /\ \A source \in Copy \cup {None}, r \in Rooms[u] :
                [op |-> "thaw", source |-> source, room |-> r] \in Request
           /\ \A op \in {"leave", "revoke"}, v \in Users, ends \in BOOLEAN :
                [op |-> op, target |-> v, ends |-> ends] \in Request
           /\ \A v \in Users : [op |-> "withdraw", target |-> v] \in Request
<1>1. \A r \in Rooms[u] : r \in UNION Range(Rooms)
  BY RoomIsNatural DEF Range
<1> QED
  BY <1>1 DEF Request

\* A step that begins a request begins just that.
LEMMA Begun ==
    ASSUME tx \in [Users -> Request \cup {None}], NEW u \in Users, NEW r \in Request, Begin(u, r)
    PROVE  /\ tx' \in [Users -> Request \cup {None}]
           /\ tx[u] = None /\ tx'[u] = r /\ r # None
           /\ \A v \in Users \ {u} : tx'[v] = tx[v]
           /\ UNCHANGED <<share, member, copy, room, frozen, writes, gaps>>
BY NoneIsApart DEF Begin

\* And one that ends a request leaves nothing of it.
LEMMA Ended ==
    ASSUME tx \in [Users -> Request \cup {None}], NEW u \in Users,
           tx' = [tx EXCEPT ![u] = None]
    PROVE  /\ tx' \in [Users -> Request \cup {None}]
           /\ tx'[u] = None
           /\ \A v \in Users \ {u} : tx'[v] = tx[v]
OBVIOUS

-----------------------------------------------------------------------------
(* What a write, a join and a catch-up leave of a copy.                    *)

LEMMA WrittenType ==
    ASSUME TypeOK, NEW c \in Copy, NEW w, w.content \in Contents, NEW u \in Users,
           writes < MaxWrites
    PROVE  /\ Written(c, w, u) \in Copy
           /\ Written(c, w, u).live /\ Written(c, w, u).content = w.content
           /\ Written(c, w, u).history # <<>>
<1> DEFINE e == [at |-> <<writes + 1, None>>, content |-> w.content, by |-> u]
           past == c.history
<1>1. e \in Entry
  BY BoundsAreNaturals DEF TypeOK, Entry
<1> HIDE DEF e
<1>2. past \in Seq(Entry)
  BY DEF Copy
<1> HIDE DEF past
<1>3. Append(past, e) \in Seq(Entry) /\ Append(past, e) # <<>>
  BY <1>1, <1>2, AppendProperties
<1>4. Written(c, w, u) = [c EXCEPT !.content = w.content, !.live = TRUE,
                                   !.history = Append(past, e)]
  BY DEF Written, e, past
<1> QED
  BY <1>3, <1>4 DEF Copy

\* Nobody's file goes away by a write, and what had a past keeps one.
LEMMA DeliveredType ==
    ASSUME TypeOK, NEW c \in Copy \cup {None}, NEW u \in Users, NEW w,
           w.op \in WriteOps,
           w.op # "delete" => w.content \in Contents /\ writes < MaxWrites,
           w.op = "create" => w.name \in Users \cup {"KS"}
    PROVE  LET next == Delivered(c, w, u)
           IN /\ next \in Copy \cup {None}
              /\ c # None => next # None
              /\ next # None /\ (c # None => c.history # <<>>) => next.history # <<>>
<1>0. \A d \in Copy : d # None
  BY NoneIsApart
<1>1. CASE w.op = "create"
  <2>1. Created(w) \in Copy
    BY <1>1, EmptySeq DEF Created, Copy
  <2> QED
    BY <1>0, <1>1, <2>1, WrittenType DEF Delivered
<1>2. CASE w.op # "create" /\ c = None
  BY <1>2 DEF Delivered
<1>3. CASE w.op = "put" /\ c # None
  BY <1>0, <1>3, WrittenType DEF Delivered
<1>4. CASE w.op = "delete" /\ c # None
  <2>1. Delivered(c, w, u) = [c EXCEPT !.live = FALSE] /\ c \in Copy
    BY <1>4 DEF Delivered
  <2>2. [c EXCEPT !.live = FALSE] \in Copy
    BY <2>1 DEF Copy
  <2>3. [c EXCEPT !.live = FALSE].history = c.history
    BY <2>1 DEF Copy
  <2> QED
    BY <1>0, <1>4, <2>1, <2>2, <2>3
<1>5. CASE w.op = "restore" /\ c # None
  BY <1>0, <1>5, WrittenType DEF Delivered
<1> QED
  BY <1>1, <1>2, <1>3, <1>4, <1>5 DEF WriteOps

LEMMA JoinedType ==
    ASSUME TypeOK, NEW u \in Users, NEW source \in Contents,
           copy[Initiator] # None, copy[Initiator].history # <<>>
    PROVE  /\ JoinedCopy(u, source) \in Copy
           /\ JoinedCopy(u, source).live /\ JoinedCopy(u, source).content = source
           /\ JoinedCopy(u, source).history # <<>>
<1> DEFINE past == copy[Initiator].history
           head == [at |-> <<writes, u>>, content |-> source, by |-> Last(past).by]
<1>1. past \in Seq(Entry) /\ past # <<>>
  BY InitiatorIsAUser DEF TypeOK, Copy
<1> HIDE DEF past
<1>2. Len(past) \in Nat \ {0}
  BY <1>1, EmptySeq, LenProperties
<1>3. Front(past) \in Seq(Entry)
  BY <1>1, <1>2, SubSeqProperties DEF Front
<1>4. head \in Entry
  <2>1. Last(past) \in Entry
    BY <1>1, <1>2, ElementOfSeq DEF Last
  <2> QED
    BY <2>1 DEF Entry, TypeOK
<1> HIDE DEF head
<1>5. Front(past) \o <<head>> \in Seq(Entry) /\ Front(past) \o <<head>> # <<>>
  <2>1. <<head>> \in Seq(Entry) /\ <<head>> # <<>>
    BY <1>4
  <2> QED
    BY <1>3, <2>1, ConcatProperties, ConcatEqualIffEmpty
<1>6. JoinedCopy(u, source) = [content |-> source, live |-> TRUE, name |-> "KS",
                               history |-> Front(past) \o <<head>>]
  BY DEF JoinedCopy, past, head
<1> QED
  BY <1>5, <1>6 DEF Copy

\* Of the places in a sequence, where there are any, there is a last one.
LEMMA LastPlace ==
    ASSUME NEW n \in Nat, NEW S \in SUBSET (1..n), S # {}
    PROVE  \E i \in S : \A j \in S : j <= i
<1> DEFINE above(i) == {j \in S : i < j}
           F == {above(i) : i \in S}
<1>1. \A i \in S : i \in Nat /\ i <= n
  OBVIOUS
<1>2. ASSUME NEW T, T \subseteq S PROVE IsFiniteSet(T)
  <2>1. T \in SUBSET Nat /\ \A i \in T : i <= n
    BY <1>1, <1>2
  <2> QED
    BY <2>1, FS_BoundedSetOfNaturals
<1>3. F \subseteq FiniteSubsetsOf(S) /\ F # {}
  <2>1. \A i \in S : above(i) \subseteq S
    OBVIOUS
  <2> QED
    BY <1>2, <2>1 DEF FiniteSubsetsOf
<1>4. PICK T \in F : \A U \in F : ~(<<U, T>> \in StrictSubsetOrdering(S))
  BY <1>3, FS_StrictSubsetOrderingWellFounded, WFMin
<1>5. PICK i \in S : T = above(i)
  OBVIOUS
<1>6. ASSUME NEW j \in S, i < j PROVE FALSE
  <2>1. above(j) \subseteq above(i) /\ j \in above(i) /\ j \notin above(j)
    <3>1. \A k \in S : j < k => i < k
      BY <1>1, <1>6
    <3>2. ~(j < j)
      BY <1>1
    <3> HIDE DEF F
    <3> QED
      BY ONLY <1>6, <3>1, <3>2, j \in S
  <2>2. <<above(j), above(i)>> \in StrictSubsetOrdering(S)
    BY <2>1 DEF StrictSubsetOrdering
  <2> QED
    BY <2>2, <1>4, <1>5
<1> QED
  BY <1>1, <1>6

LEMMA OwedType ==
    ASSUME NEW mine \in Seq(Entry), NEW theirs \in Seq(Entry)
    PROVE  Owed(mine, theirs) \in Seq(Entry)
<1> DEFINE has(i) == \E e \in Range(mine) : e.at = theirs[i].at /\ e.content = theirs[i].content
           reached == {i \in DOMAIN theirs : has(i)}
           n == IF reached = {} THEN 0 ELSE CHOOSE i \in reached : \A j \in reached : j <= i
<1>1. Len(theirs) \in Nat /\ DOMAIN theirs = 1..Len(theirs)
  BY LenProperties
<1>2. n \in 0..Len(theirs)
  <2>1. CASE reached = {}
    BY <1>1, <2>1
  <2>2. CASE reached # {}
    <3>1. reached \in SUBSET (1..Len(theirs))
      BY <1>1
    <3> HIDE DEF reached
    <3>2. \E i \in reached : \A j \in reached : j <= i
      BY <1>1, <2>2, <3>1, LastPlace
    <3>3. n \in reached
      BY <2>2, <3>2
    <3>4. n \in 1..Len(theirs)
      BY <3>1, <3>3
    <3> HIDE DEF n
    <3> QED
      BY <1>1, <3>4
  <2> QED
    BY <2>1, <2>2
<1>3. Owed(mine, theirs) = SubSeq(theirs, 1 + n, Len(theirs))
  BY DEF Owed
<1> HIDE DEF n
<1> QED
  BY <1>1, <1>2, <1>3, SubSeqProperties

\* A catch-up takes nobody's file away, and shows what its source shows.
LEMMA CaughtUpType ==
    ASSUME NEW mine \in Copy \cup {None}, NEW source \in Copy \cup {None}
    PROVE  LET next == CaughtUp(mine, source)
           IN /\ next \in Copy \cup {None}
              /\ mine # None => next # None
              /\ mine # None /\ mine.history # <<>> => next.history # <<>>
              /\ source # None \/ mine = None => Shown(next) = Shown(source)
<1>0. \A d \in Copy : d # None
  BY NoneIsApart
<1>1. CASE source = None
  BY <1>1 DEF CaughtUp, Shown
<1>2. CASE source # None /\ mine = None
  BY <1>2 DEF CaughtUp, Shown
<1>3. CASE source # None /\ mine # None
  <2> DEFINE owed == Owed(mine.history, source.history)
             past == mine.history
             head == IF source.live THEN source.content ELSE mine.content
             next == [mine EXCEPT !.live = source.live, !.content = head,
                                  !.history = past \o owed]
  <2>1. past \in Seq(Entry) /\ owed \in Seq(Entry)
    BY <1>3, OwedType DEF Copy
  <2>2. CaughtUp(mine, source) = next
    BY <1>3 DEF CaughtUp
  <2> HIDE DEF owed
  <2>3. past \o owed \in Seq(Entry) /\ (past # <<>> => past \o owed # <<>>)
    BY <2>1, ConcatProperties, ConcatEqualIffEmpty
  <2>4. head \in Contents /\ source.live \in BOOLEAN
    BY <1>3 DEF Copy
  <2>5. /\ next \in Copy /\ next.live = source.live /\ next.content = head
        /\ next.history = past \o owed
    BY <1>3, <2>3, <2>4 DEF Copy
  <2> QED
    BY <1>0, <1>3, <2>2, <2>3, <2>5 DEF Shown
<1> QED
  BY <1>1, <1>2, <1>3

-----------------------------------------------------------------------------
(* Beginnings.                                                             *)

StartsWrite(u) ==
  /\ tx'[u].op \in WriteOps /\ InFolder(u) /\ tx'[u].to = Targets(u)
  /\ tx'[u].op # "delete" => tx'[u].content \in Contents
  /\ tx'[u].op = "create" => tx'[u].name \in Users \cup {"KS"}
  /\ Apart({"join"}, "write in a join") /\ Apart({"thaw"}, "write in a thaw")
  /\ tx'[u].op = "restore" =>
       /\ copy[u] # None
       /\ Risk(\E v \in Targets(u) : copy[v] = None, "restore of what a copy lacks")

StartsJoin(u) ==
  /\ tx'[u].op = "join" /\ share = "active" /\ member[u] = "invited"
  /\ tx'[u].source = Shown(copy[Initiator])
  /\ Apart(WriteOps, "write in a join")
  /\ Risk(frozen[Initiator], "join from a frozen copy")

StartsThaw(u) ==
  /\ tx'[u].op = "thaw" /\ tx'[u].room \in Rooms[u] /\ frozen[u]
  /\ Apart(WriteOps, "write in a thaw")
  /\ LET owed == member[u] = "joined" /\ share = "active"
     IN /\ Risk(owed /\ Sources(u) = {}, "nobody to catch up from")
        /\ owed /\ Sources(u) # {} =>
             \E s \in Sources(u) :
               /\ tx'[u].source = copy[s]
               /\ Risk(copy[s] = None /\ copy[u] # None,
                       "catch up from a copy that lacks it")
        /\ ~(owed /\ Sources(u) # {}) => tx'[u].source = None

StartsDeparture(u) ==
  /\ tx'[u].op \in {"leave", "revoke", "withdraw"}
  /\ tx'[u].op = "withdraw" => tx'[u].target # Initiator
  /\ tx'[u].op # "withdraw" /\ tx'[u].target = Initiator => tx'[u].ends

\* A request begins: the account had none, has this one now, and nothing else
\* has changed.
Starts(u) ==
  /\ tx[u] = None /\ tx'[u] \in Request /\ tx'[u] # None
  /\ \A v \in Users \ {u} : tx'[v] = tx[v]
  /\ UNCHANGED <<share, member, copy, room, frozen, writes, gaps>>
  /\ StartsWrite(u) \/ StartsJoin(u) \/ StartsThaw(u) \/ StartsDeparture(u)

LEMMA WriteStarts ==
    ASSUME TypeOK, NEW u \in Users, NEW op \in WriteOps, NEW content \in Contents \cup {None},
           NEW name \in Users \cup {"KS", None}, StartWrite(u, op, content, name),
           op # "delete" => content \in Contents,
           op = "create" => name \in Users \cup {"KS"},
           op = "restore" => /\ copy[u] # None
                             /\ Risk(\E v \in Targets(u) : copy[v] = None,
                                     "restore of what a copy lacks")
    PROVE  tx' \in [Users -> Request \cup {None}] /\ Starts(u)
<1> DEFINE r == [op |-> op, content |-> content, name |-> name, to |-> Targets(u)]
<1>1. Targets(u) \in SUBSET Users
  BY DEF Targets, LiveUnfrozen, Live
<1>2. r \in Request
  BY <1>1, RequestsMade
<1>3. /\ r.op = op /\ r.content = content /\ r.name = name /\ r.to = Targets(u)
  OBVIOUS
<1>4. Begin(u, r) /\ InFolder(u)
      /\ Apart({"join"}, "write in a join") /\ Apart({"thaw"}, "write in a thaw")
  BY DEF StartWrite
<1> HIDE DEF r
<1>5. /\ tx' \in [Users -> Request \cup {None}]
      /\ tx[u] = None /\ tx'[u] = r /\ r # None
      /\ \A v \in Users \ {u} : tx'[v] = tx[v]
      /\ UNCHANGED <<share, member, copy, room, frozen, writes, gaps>>
  BY <1>2, <1>4, Begun DEF TypeOK
<1>6. StartsWrite(u)
  BY <1>3, <1>4, <1>5 DEF StartsWrite
<1> QED
  BY <1>2, <1>5, <1>6 DEF Starts

LEMMA JoinStarts ==
    ASSUME TypeOK, NEW u \in Users, StartJoin(u)
    PROVE  tx' \in [Users -> Request \cup {None}] /\ Starts(u)
<1> DEFINE source == Shown(copy[Initiator])
           r == [op |-> "join", source |-> source]
<1>1. source \in Contents \cup {None}
  BY InitiatorIsAUser DEF Shown, TypeOK, Copy
<1>2. r \in Request /\ r.op = "join" /\ r.source = source
  BY <1>1, RequestsMade
<1>3. Begin(u, r) /\ share = "active" /\ member[u] = "invited"
      /\ Apart(WriteOps, "write in a join") /\ Risk(frozen[Initiator], "join from a frozen copy")
  BY DEF StartJoin, Shown
<1> HIDE DEF r, source
<1>4. /\ tx' \in [Users -> Request \cup {None}]
      /\ tx[u] = None /\ tx'[u] = r /\ r # None
      /\ \A v \in Users \ {u} : tx'[v] = tx[v]
      /\ UNCHANGED <<share, member, copy, room, frozen, writes, gaps>>
  BY <1>2, <1>3, Begun DEF TypeOK
<1>5. StartsJoin(u)
  BY <1>2, <1>3, <1>4 DEF StartsJoin, source
<1> QED
  BY <1>2, <1>4, <1>5 DEF Starts

LEMMA ThawStarts ==
    ASSUME TypeOK, NEW u \in Users, NEW room0 \in Rooms[u], StartThaw(u, room0)
    PROVE  tx' \in [Users -> Request \cup {None}] /\ Starts(u)
<1> DEFINE owed == member[u] = "joined" /\ share = "active"
           r(source) == [op |-> "thaw", source |-> source, room |-> room0]
<1>1. frozen[u] /\ Apart(WriteOps, "write in a thaw")
      /\ Risk(owed /\ Sources(u) = {}, "nobody to catch up from")
  BY DEF StartThaw
<1>2. \E source \in Copy \cup {None} :
        /\ Begin(u, r(source))
        /\ owed /\ Sources(u) # {} =>
             \E s \in Sources(u) :
               /\ source = copy[s]
               /\ Risk(copy[s] = None /\ copy[u] # None, "catch up from a copy that lacks it")
        /\ ~(owed /\ Sources(u) # {}) => source = None
  <2>1. CASE owed /\ Sources(u) # {}
    <3>1. Sources(u) \subseteq Users
      BY InitiatorIsAUser DEF Sources, LiveUnfrozen, Live
    <3>2. PICK s \in Sources(u) :
             /\ Risk(copy[s] = None /\ copy[u] # None, "catch up from a copy that lacks it")
             /\ Begin(u, r(copy[s]))
      BY <2>1 DEF StartThaw
    <3>3. copy[s] \in Copy \cup {None}
      BY <3>1 DEF TypeOK
    <3> HIDE DEF r, owed
    <3> QED
      BY <2>1, <3>2, <3>3
  <2>2. CASE ~(owed /\ Sources(u) # {})
    <3>1. Begin(u, r(None))
      BY <2>2 DEF StartThaw
    <3> HIDE DEF r, owed
    <3> QED
      BY <2>2, <3>1
  <2> QED
    BY <2>1, <2>2
<1>3. PICK source \in Copy \cup {None} :
        /\ Begin(u, r(source))
        /\ owed /\ Sources(u) # {} =>
             \E s \in Sources(u) :
               /\ source = copy[s]
               /\ Risk(copy[s] = None /\ copy[u] # None, "catch up from a copy that lacks it")
        /\ ~(owed /\ Sources(u) # {}) => source = None
  BY <1>2
<1>4. r(source) \in Request /\ r(source).op = "thaw" /\ r(source).source = source
      /\ r(source).room = room0
  BY RequestsMade
<1> HIDE DEF r
<1>5. /\ tx' \in [Users -> Request \cup {None}]
      /\ tx[u] = None /\ tx'[u] = r(source) /\ r(source) # None
      /\ \A v \in Users \ {u} : tx'[v] = tx[v]
      /\ UNCHANGED <<share, member, copy, room, frozen, writes, gaps>>
  BY <1>3, <1>4, Begun DEF TypeOK
<1>6. StartsThaw(u)
  BY <1>1, <1>3, <1>4, <1>5 DEF StartsThaw
<1> QED
  BY <1>4, <1>5, <1>6 DEF Starts

LEMMA DepartureStarts ==
    ASSUME TypeOK, Places, NEW u \in Users,
           StartLeave(u) \/ \E v \in Users : StartRemove(u, v)
    PROVE  tx' \in [Users -> Request \cup {None}] /\ Starts(u)
<1>1. PICK r \in Request :
        /\ Begin(u, r) /\ r.op \in {"leave", "revoke", "withdraw"}
        /\ r.op = "withdraw" => r.target # Initiator
        /\ r.op # "withdraw" /\ r.target = Initiator => r.ends
  <2>1. CASE StartLeave(u)
    <3> DEFINE r == [op |-> "leave", target |-> u, ends |-> Ends(u)]
    <3>1. Ends(u) \in BOOLEAN /\ (u = Initiator => Ends(u))
      BY DEF Ends
    <3>2. r \in Request
      BY <3>1, RequestsMade
    <3>3. r.op = "leave" /\ r.target = u /\ r.ends = Ends(u)
      OBVIOUS
    <3>4. Begin(u, r)
      BY <2>1 DEF StartLeave
    <3> HIDE DEF r
    <3> QED
      BY <3>1, <3>2, <3>3, <3>4
  <2>2. CASE \E v \in Users : StartRemove(u, v)
    <3>1. PICK v \in Users : StartRemove(u, v)
      BY <2>2
    <3>2. v # Initiator
      BY <3>1 DEF StartRemove
    <3>3. CASE member[v] = "invited"
      <4> DEFINE r == [op |-> "withdraw", target |-> v]
      <4>1. r \in Request /\ r.op = "withdraw" /\ r.target = v
        BY RequestsMade
      <4>2. Begin(u, r)
        BY <3>1, <3>3 DEF StartRemove
      <4> HIDE DEF r
      <4> QED
        BY <3>2, <4>1, <4>2
    <3>4. CASE member[v] # "invited"
      <4> DEFINE r == [op |-> "revoke", target |-> v, ends |-> Ends(v)]
      <4>1. Ends(v) \in BOOLEAN
        BY DEF Ends
      <4>2. r \in Request
        BY <4>1, RequestsMade
      <4>3. r.op = "revoke" /\ r.target = v
        OBVIOUS
      <4>4. Begin(u, r)
        BY <3>1, <3>4 DEF StartRemove
      <4> HIDE DEF r
      <4> QED
        BY <3>2, <4>2, <4>3, <4>4
    <3> QED
      BY <3>3, <3>4
  <2> QED
    BY <2>1, <2>2
<1>2. /\ tx' \in [Users -> Request \cup {None}]
      /\ tx[u] = None /\ tx'[u] = r /\ r # None
      /\ \A v \in Users \ {u} : tx'[v] = tx[v]
      /\ UNCHANGED <<share, member, copy, room, frozen, writes, gaps>>
  BY <1>1, Begun DEF TypeOK
<1>3. StartsDeparture(u)
  BY <1>1, <1>2 DEF StartsDeparture
<1> QED
  BY <1>2, <1>3 DEF Starts

LEMMA FileWriteStarts ==
    ASSUME TypeOK, NEW u \in Users,
           \/ StartDelete(u)
           \/ \E content \in Contents :
                StartCreate(u, content) \/ StartPut(u, content) \/ StartRestore(u, content)
    PROVE  tx' \in [Users -> Request \cup {None}] /\ Starts(u)
<1>0. {"create", "put", "delete", "restore"} \subseteq WriteOps
  BY DEF WriteOps
<1>1. CASE StartDelete(u)
  <2>1. StartWrite(u, "delete", None, None)
    BY <1>1 DEF StartDelete
  <2> QED
    BY <1>0, <2>1, WriteStarts
<1>2. ASSUME NEW content \in Contents, StartCreate(u, content)
      PROVE  tx' \in [Users -> Request \cup {None}] /\ Starts(u)
  <2>1. PICK name \in NameKeys(u) : StartWrite(u, "create", content, name)
    BY <1>2 DEF StartCreate
  <2>2. name \in Users \cup {"KS"}
    BY DEF NameKeys
  <2> QED
    BY <1>0, <2>1, <2>2, WriteStarts
<1>3. ASSUME NEW content \in Contents, StartPut(u, content)
      PROVE  tx' \in [Users -> Request \cup {None}] /\ Starts(u)
  <2>1. StartWrite(u, "put", content, None)
    BY <1>3 DEF StartPut
  <2> QED
    BY <1>0, <2>1, WriteStarts
<1>4. ASSUME NEW content \in Contents, StartRestore(u, content)
      PROVE  tx' \in [Users -> Request \cup {None}] /\ Starts(u)
  <2>1. /\ StartWrite(u, "restore", content, None) /\ copy[u] # None
        /\ Risk(\E v \in Targets(u) : copy[v] = None, "restore of what a copy lacks")
    BY <1>4 DEF StartRestore
  <2> QED
    BY <1>0, <2>1, WriteStarts
<1> QED
  BY <1>1, <1>2, <1>3, <1>4

\* What a step is: a request begins, ends without having written anything, or
\* commits, or a call of one step is made.
LEMMA StepKinds ==
    ASSUME TypeOK, Places, [Next]_vars
    PROVE  /\ tx' \in [Users -> Request \cup {None}]
           /\ \/ \E u \in Users :
                   \/ Starts(u) \/ RollBack(u)
                   \/ CommitJoin(u) \/ CommitWrite(u) \/ CommitWithdraw(u)
                   \/ CommitDeparture(u) \/ CommitThaw(u)
                   \/ CreateShare(u) \/ Prepare(u) \/ CancelShare(u) \/ Activate(u)
                   \/ Decline(u) \/ Finalize(u)
                   \/ \E r \in Rooms[u] : SetRoom(u, r)
                   \/ \E v \in Users : Invite(u, v)
              \/ UNCHANGED vars
<1>0. tx \in [Users -> Request \cup {None}]
  BY DEF TypeOK
<1>1. ASSUME NEW u \in Users,
             \/ RollBack(u) \/ CommitJoin(u) \/ CommitWrite(u) \/ CommitWithdraw(u)
             \/ CommitDeparture(u) \/ CommitThaw(u)
      PROVE  tx' \in [Users -> Request \cup {None}]
  <2>1. tx' = [tx EXCEPT ![u] = None]
    BY <1>1 DEF RollBack, CommitJoin, CommitWrite, CommitWithdraw, CommitDeparture, CommitThaw
  <2> QED
    BY <1>0, <2>1
<1>2. ASSUME NEW u \in Users,
             \/ CreateShare(u) \/ Prepare(u) \/ CancelShare(u) \/ Activate(u)
             \/ Decline(u) \/ Finalize(u)
             \/ \E r \in Rooms[u] : SetRoom(u, r)
             \/ \E v \in Users : Invite(u, v)
      PROVE  tx' \in [Users -> Request \cup {None}]
  BY <1>0, <1>2 DEF CreateShare, Prepare, CancelShare, Activate, Decline, Finalize, SetRoom, Invite
<1>3. CASE UNCHANGED vars
  BY <1>0, <1>3 DEF vars
<1>4. ASSUME NEW u \in Users,
             \/ StartJoin(u) \/ StartDelete(u) \/ StartLeave(u)
             \/ \E r \in Rooms[u] : StartThaw(u, r)
             \/ \E v \in Users : StartRemove(u, v)
             \/ \E content \in Contents :
                  StartCreate(u, content) \/ StartPut(u, content) \/ StartRestore(u, content)
      PROVE  tx' \in [Users -> Request \cup {None}] /\ Starts(u)
  BY <1>4, FileWriteStarts, JoinStarts, ThawStarts, DepartureStarts
<1> QED
  BY <1>1, <1>2, <1>3, <1>4, Steps

-----------------------------------------------------------------------------
(* The types.                                                              *)

\* What a request in flight holds.
LEMMA InFlight ==
    ASSUME TypeOK, RequestsFit, NEW u \in Users, tx[u] # None
    PROVE  /\ tx[u] \in Request
           /\ tx[u].op \in WriteOps =>
                /\ tx[u].to \in SUBSET Users
                /\ tx[u].op # "delete" => tx[u].content \in Contents
                /\ tx[u].op = "create" => tx[u].name \in Users \cup {"KS"}
           /\ tx[u].op = "join" => /\ tx[u].source \in Contents \cup {None} /\ u # Initiator
                                   /\ tx[u].source # None => copy[Initiator] # None
           /\ tx[u].op = "thaw" => tx[u].source \in Copy \cup {None} /\ tx[u].room \in Rooms[u]
           /\ tx[u].op \in {"leave", "revoke"} => tx[u].target \in Users /\ tx[u].ends \in BOOLEAN
           /\ tx[u].op = "withdraw" => tx[u].target \in Users
<1>1. tx[u] \in Request
  BY DEF TypeOK
<1> QED
  BY <1>1, RequestKinds DEF RequestsFit, Doing, WriteOps

\* The share, its members and the counters.
LEMMA MembersTyped ==
    ASSUME MembersInv, [Next]_vars
    PROVE  /\ share' \in {"none", "preparing", "active", "ended", "cancelled"}
           /\ member' \in [Users -> {"none", "invited", "joined", "finalizing", "left"}]
           /\ writes' \in 0..MaxWrites /\ gaps' \in 0..MaxGaps
<1>0. /\ share \in {"none", "preparing", "active", "ended", "cancelled"}
      /\ member \in [Users -> {"none", "invited", "joined", "finalizing", "left"}]
      /\ writes \in 0..MaxWrites /\ gaps \in 0..MaxGaps
      /\ MaxWrites \in Nat /\ MaxGaps \in Nat
  BY BoundsAreNaturals DEF MembersInv, Typed, TypeOK
<1>1. ASSUME NEW u \in Users, Starts(u) \/ RollBack(u) \/ Prepare(u)
      PROVE  UNCHANGED <<share, member, writes, gaps>>
  BY <1>1 DEF Starts, RollBack, Prepare
<1>2. ASSUME NEW u \in Users,
             CreateShare(u) \/ CancelShare(u) \/ Activate(u) \/ Decline(u) \/ Finalize(u)
             \/ CommitJoin(u) \/ CommitWithdraw(u) \/ \E v \in Users : Invite(u, v)
      PROVE  /\ share' \in {"none", "preparing", "active", "ended", "cancelled"}
             /\ member' \in [Users -> {"none", "invited", "joined", "finalizing", "left"}]
             /\ UNCHANGED <<writes, gaps>>
  BY <1>0, <1>2 DEF CreateShare, CancelShare, Activate, Decline, Finalize, CommitJoin,
                    CommitWithdraw, Invite
<1>3. ASSUME NEW u \in Users, CommitDeparture(u)
      PROVE  /\ share' \in {"none", "preparing", "active", "ended", "cancelled"}
             /\ member' \in [Users -> {"none", "invited", "joined", "finalizing", "left"}]
             /\ UNCHANGED <<writes, gaps>>
  BY <1>0, <1>3 DEF CommitDeparture
<1>4. ASSUME NEW u \in Users, CommitWrite(u)
      PROVE  UNCHANGED <<share, member, gaps>> /\ writes' \in 0..MaxWrites
  BY <1>0, <1>4 DEF CommitWrite
<1>5. ASSUME NEW u \in Users, CommitThaw(u) \/ \E r \in Rooms[u] : SetRoom(u, r)
      PROVE  UNCHANGED <<share, member, writes>> /\ gaps' \in 0..MaxGaps
  BY <1>0, <1>5 DEF CommitThaw, SetRoom
<1>6. CASE UNCHANGED vars
  BY <1>0, <1>6 DEF vars
<1>7. TypeOK /\ Places
  BY DEF MembersInv, Typed
<1> QED
  BY <1>0, <1>1, <1>2, <1>3, <1>4, <1>5, <1>6, <1>7, StepKinds

\* Room and the freeze.
LEMMA RoomTyped ==
    ASSUME MembersInv, [Next]_vars
    PROVE  /\ \A u \in Users : room'[u] \in Rooms[u] \cup {Quota[u]}
           /\ room' \in [Users -> Nat] /\ frozen' \in [Users -> BOOLEAN]
<1>0. /\ \A u \in Users : room[u] \in Rooms[u] \cup {Quota[u]}
      /\ room \in [Users -> Nat] /\ frozen \in [Users -> BOOLEAN]
      /\ \A u \in Users : \A r \in Rooms[u] : r \in Nat
  BY RoomIsNatural DEF MembersInv, Typed, TypeOK
<1>1. ASSUME NEW u \in Users, NEW r \in Rooms[u], NEW over \in BOOLEAN,
             room' = [room EXCEPT ![u] = r], frozen' = [frozen EXCEPT ![u] = over]
      PROVE  /\ \A v \in Users : room'[v] \in Rooms[v] \cup {Quota[v]}
             /\ room' \in [Users -> Nat] /\ frozen' \in [Users -> BOOLEAN]
  BY <1>0, <1>1
<1>2. \A c, r : Over(c, r) \in BOOLEAN
  BY DEF Over
<1>3. ASSUME NEW u \in Users, NEW r \in Rooms[u], SetRoom(u, r)
      PROVE  /\ \A v \in Users : room'[v] \in Rooms[v] \cup {Quota[v]}
             /\ room' \in [Users -> Nat] /\ frozen' \in [Users -> BOOLEAN]
  BY <1>1, <1>2, <1>3 DEF SetRoom
<1>4. ASSUME NEW u \in Users, CommitThaw(u)
      PROVE  /\ \A v \in Users : room'[v] \in Rooms[v] \cup {Quota[v]}
             /\ room' \in [Users -> Nat] /\ frozen' \in [Users -> BOOLEAN]
  <2>1. tx[u].room \in Rooms[u]
    BY <1>4, InFlight DEF CommitThaw, Doing, MembersInv, Typed
  <2> QED
    BY <1>1, <1>2, <1>4, <2>1 DEF CommitThaw
<1>5. ASSUME NEW u \in Users, CommitWrite(u)
      PROVE  UNCHANGED room /\ frozen' \in [Users -> BOOLEAN]
  BY <1>5 DEF CommitWrite
<1>6. ASSUME NEW u \in Users,
             \/ Starts(u) \/ RollBack(u) \/ CommitJoin(u) \/ CommitWithdraw(u)
             \/ CommitDeparture(u) \/ CreateShare(u) \/ Prepare(u) \/ CancelShare(u)
             \/ Activate(u) \/ Decline(u) \/ Finalize(u) \/ \E v \in Users : Invite(u, v)
      PROVE  UNCHANGED <<room, frozen>>
  BY <1>6 DEF Starts, RollBack, CommitJoin, CommitWithdraw, CommitDeparture, CreateShare,
              Prepare, CancelShare, Activate, Decline, Finalize, Invite
<1>7. CASE UNCHANGED vars
  BY <1>0, <1>7 DEF vars
<1>8. TypeOK /\ Places
  BY DEF MembersInv, Typed
<1> QED
  BY <1>0, <1>3, <1>4, <1>5, <1>6, <1>7, <1>8, StepKinds

\* The copies, one write at a time: whoever had the file has it still, but for
\* somebody who joins.
LEMMA WriteTyped ==
    ASSUME MembersInv, NEW u \in Users, CommitWrite(u)
    PROVE  /\ copy' \in [Users -> Copy \cup {None}]
           /\ \A v \in Users :
                /\ copy[v] # None => copy'[v] # None
                /\ (copy[v] # None => copy[v].history # <<>>) /\ copy'[v] # None
                     => copy'[v].history # <<>>
<1> DEFINE w == tx[u]
           next(v) == Delivered(copy[v], w, u)
<1>0. TypeOK /\ RequestsFit /\ PastIsKept
  BY DEF MembersInv, Typed
<1>1. /\ w # None /\ w.op \in WriteOps
      /\ w.op # "delete" => writes < MaxWrites
      /\ copy' = [v \in Users |-> IF v \in {u} \cup w.to THEN next(v) ELSE copy[v]]
  BY DEF CommitWrite, Doing
<1>2. /\ w.op # "delete" => w.content \in Contents
      /\ w.op = "create" => w.name \in Users \cup {"KS"}
  BY <1>0, <1>1, InFlight
<1>3. \A v \in Users :
        /\ copy[v] \in Copy \cup {None}
        /\ next(v) \in Copy \cup {None}
        /\ copy[v] # None => next(v) # None
        /\ next(v) # None /\ (copy[v] # None => copy[v].history # <<>>) => next(v).history # <<>>
  <2> SUFFICES ASSUME NEW v \in Users
               PROVE  /\ copy[v] \in Copy \cup {None}
                      /\ next(v) \in Copy \cup {None}
                      /\ copy[v] # None => next(v) # None
                      /\ next(v) # None /\ (copy[v] # None => copy[v].history # <<>>)
                           => next(v).history # <<>>
    OBVIOUS
  <2>1. copy[v] \in Copy \cup {None}
    BY <1>0 DEF TypeOK
  <2> QED
    BY <1>0, <1>1, <1>2, <2>1, DeliveredType
<1> HIDE DEF next, w
<1> QED
  BY <1>0, <1>1, <1>3

LEMMA JoinTyped ==
    ASSUME MembersInv, NEW u \in Users, CommitJoin(u)
    PROVE  /\ copy' \in [Users -> Copy \cup {None}]
           /\ u # Initiator /\ copy'[Initiator] = copy[Initiator]
           /\ \A v \in Users \ {u} : copy'[v] = copy[v]
           /\ Shown(copy'[u]) = tx[u].source
           /\ copy'[u] # None => copy'[u].history # <<>>
<1> DEFINE source == tx[u].source
           now == IF source = None THEN None ELSE JoinedCopy(u, source)
<1>0. TypeOK /\ RequestsFit /\ PastIsKept /\ copy \in [Users -> Copy \cup {None}]
  BY DEF MembersInv, Typed, TypeOK
<1>1. source \in Contents \cup {None} /\ u # Initiator
      /\ (source # None => copy[Initiator] # None)
  BY <1>0, InFlight DEF CommitJoin, Doing
<1>2. copy' = [copy EXCEPT ![u] = now]
  BY DEF CommitJoin
<1>3. now \in Copy \cup {None} /\ Shown(now) = source /\ (now # None => now.history # <<>>)
  <2>1. CASE source = None
    BY <2>1 DEF Shown
  <2>2. CASE source # None
    <3>1. /\ JoinedCopy(u, source) \in Copy
          /\ JoinedCopy(u, source).live /\ JoinedCopy(u, source).content = source
          /\ JoinedCopy(u, source).history # <<>>
      BY <1>0, <1>1, <2>2, JoinedType, InitiatorIsAUser DEF PastIsKept
    <3>2. JoinedCopy(u, source) # None
      BY <3>1, NoneIsApart
    <3> QED
      BY <2>2, <3>1, <3>2 DEF Shown
  <2> QED
    BY <2>1, <2>2
<1> HIDE DEF now
<1> QED
  BY <1>0, <1>1, <1>2, <1>3, InitiatorIsAUser

LEMMA ThawTyped ==
    ASSUME MembersInv, NEW u \in Users, CommitThaw(u)
    PROVE  /\ copy' \in [Users -> Copy \cup {None}]
           /\ copy'[u] = CaughtUp(copy[u], tx[u].source)
           /\ (copy[u] # None => copy[u].history # <<>>) /\ copy'[u] # None
                => copy'[u].history # <<>>
           /\ \A v \in Users \ {u} : copy'[v] = copy[v]
           /\ copy[u] # None => copy'[u] # None
<1> DEFINE now == CaughtUp(copy[u], tx[u].source)
<1>0. TypeOK /\ RequestsFit /\ PastIsKept /\ copy \in [Users -> Copy \cup {None}]
  BY DEF MembersInv, Typed, TypeOK
<1>1. tx[u].source \in Copy \cup {None} /\ copy' = [copy EXCEPT ![u] = now]
  BY <1>0, InFlight DEF CommitThaw, Doing
<1>2. /\ now \in Copy \cup {None} /\ (copy[u] # None => now # None)
      /\ copy[u] # None /\ copy[u].history # <<>> => now.history # <<>>
  BY <1>0, <1>1, CaughtUpType
<1>3. copy[u] = None /\ now # None => now = tx[u].source
  BY DEF CaughtUp
<1> HIDE DEF now
<1>4. tx[u].source # None => tx[u].source.history # <<>>
  BY <1>0 DEF PastIsKept, CommitThaw, Doing
<1>5. copy'[u] = now
  BY <1>0, <1>1
<1>6. (copy[u] # None => copy[u].history # <<>>) /\ now # None => now.history # <<>>
  BY <1>2, <1>3, <1>4
<1> QED
  BY <1>0, <1>1, <1>2, <1>5, <1>6 DEF now

LEMMA CopiesTyped ==
    ASSUME MembersInv, [Next]_vars
    PROVE  copy' \in [Users -> Copy \cup {None}] /\ PastIsKept'
<1>0. TypeOK /\ Places /\ RequestsFit /\ PastIsKept
      /\ copy \in [Users -> Copy \cup {None}] /\ tx \in [Users -> Request \cup {None}]
  BY DEF MembersInv, Typed, TypeOK
<1>1. \A v \in Users : Doing(v, {"thaw"}) /\ tx[v].source # None => tx[v].source.history # <<>>
  BY <1>0 DEF PastIsKept
<1>2. \A v \in Users : copy[v] # None /\ (v = Initiator \/ Inside(v)) => copy[v].history # <<>>
  BY <1>0 DEF PastIsKept
<1>3. ASSUME NEW u \in Users, Starts(u)
      PROVE  copy' \in [Users -> Copy \cup {None}] /\ PastIsKept'
  <2>1. UNCHANGED <<member, copy>> /\ \A v \in Users \ {u} : tx'[v] = tx[v]
    BY <1>3 DEF Starts
  <2>2. tx'[u] # None /\ tx'[u].op = "thaw" /\ tx'[u].source # None
          => tx'[u].source.history # <<>>
    <3> SUFFICES ASSUME tx'[u].op = "thaw", tx'[u].source # None
                 PROVE  tx'[u].source.history # <<>>
      OBVIOUS
    <3>1. StartsThaw(u)
      BY <1>3 DEF Starts, StartsWrite, StartsJoin, StartsDeparture, WriteOps
    <3>2. PICK s \in Sources(u) : tx'[u].source = copy[s]
      BY <3>1 DEF StartsThaw
    <3>3. s \in Users /\ Inside(s)
      BY InitiatorIsAUser DEF Sources, LiveUnfrozen, Live, Inside
    <3> QED
      BY <1>2, <3>2, <3>3
  <2> QED
    BY <1>0, <1>1, <1>2, <2>1, <2>2 DEF PastIsKept, Doing, Inside
<1>4. ASSUME NEW u \in Users,
             \/ RollBack(u) \/ CommitWithdraw(u) \/ CommitDeparture(u) \/ CommitJoin(u)
             \/ CommitWrite(u) \/ CommitThaw(u)
      PROVE  \A v \in Users : Doing(v, {"thaw"})' => Doing(v, {"thaw"}) /\ tx'[v] = tx[v]
  <2>1. tx' = [tx EXCEPT ![u] = None]
    BY <1>4 DEF RollBack, CommitJoin, CommitWrite, CommitWithdraw, CommitDeparture, CommitThaw
  <2> QED
    BY <1>0, <2>1 DEF Doing
<1>5. ASSUME NEW u \in Users, CommitJoin(u)
      PROVE  copy' \in [Users -> Copy \cup {None}] /\ PastIsKept'
  <2>1. \A v \in Users \ {u} : copy'[v] = copy[v] /\ (Inside(v)' => Inside(v))
    BY <1>0, <1>5, JoinTyped DEF CommitJoin, Inside, TypeOK
  <2>2. copy'[u] # None => copy'[u].history # <<>>
    BY <1>5, JoinTyped
  <2> QED
    BY <1>1, <1>2, <1>4, <1>5, <2>1, <2>2, JoinTyped DEF PastIsKept
<1>6. ASSUME NEW u \in Users, CommitWrite(u)
      PROVE  copy' \in [Users -> Copy \cup {None}] /\ PastIsKept'
  <2>1. \A v \in Users : Inside(v)' <=> Inside(v)
    BY <1>6 DEF CommitWrite, Inside
  <2>2. \A v \in Users : copy'[v] # None /\ (v = Initiator \/ Inside(v)) => copy'[v].history # <<>>
    BY <1>2, <1>6, WriteTyped
  <2> QED
    BY <1>1, <1>4, <1>6, <2>1, <2>2, WriteTyped DEF PastIsKept
<1>7. ASSUME NEW u \in Users, CommitThaw(u)
      PROVE  copy' \in [Users -> Copy \cup {None}] /\ PastIsKept'
  <2>1. \A v \in Users : Inside(v)' <=> Inside(v)
    BY <1>7 DEF CommitThaw, Inside
  <2>2. \A v \in Users : copy'[v] # None /\ (v = Initiator \/ Inside(v)) => copy'[v].history # <<>>
    BY <1>2, <1>7, ThawTyped
  <2> QED
    BY <1>1, <1>4, <1>7, <2>1, <2>2, ThawTyped DEF PastIsKept
<1>8. ASSUME NEW u \in Users, Finalize(u)
      PROVE  copy' \in [Users -> Copy \cup {None}] /\ PastIsKept'
  <2>1. /\ copy' = [copy EXCEPT ![u] = Private(copy[u], u)] /\ UNCHANGED tx
        /\ member' = [member EXCEPT ![u] = "left"]
    BY <1>0, <1>8 DEF Finalize
  <2>2. copy[u] = None => Private(copy[u], u) = None
    BY DEF Private
  <2>3. copy[u] # None => /\ Private(copy[u], u) \in Copy
                          /\ u = Initiator => Private(copy[u], u).history = copy[u].history
    <3> SUFFICES ASSUME copy[u] # None
                 PROVE  /\ Private(copy[u], u) \in Copy
                        /\ u = Initiator => Private(copy[u], u).history = copy[u].history
      OBVIOUS
    <3>1. copy[u] \in Copy
      BY <1>0
    <3>2. <<>> \in Seq(Entry)
      OBVIOUS
    <3> DEFINE past == IF u = Initiator THEN copy[u].history ELSE <<>>
    <3>3. past \in Seq(Entry)
      BY <3>1, <3>2 DEF Copy
    <3>4. Private(copy[u], u) = [copy[u] EXCEPT !.name = u, !.history = past]
      BY DEF Private
    <3> HIDE DEF past
    <3>5. /\ [copy[u] EXCEPT !.name = u, !.history = past] \in Copy
          /\ [copy[u] EXCEPT !.name = u, !.history = past].history = past
      BY <3>1, <3>3 DEF Copy
    <3> QED
      BY <3>4, <3>5 DEF past
  <2>4. \A v \in Users \ {u} : copy'[v] = copy[v] /\ (Inside(v)' <=> Inside(v))
    BY <1>0, <2>1 DEF Inside, TypeOK
  <2>5. copy'[u] = Private(copy[u], u) /\ ~Inside(u)'
    BY <1>0, <2>1 DEF Inside, TypeOK
  <2>6. copy' \in [Users -> Copy \cup {None}]
    BY <1>0, <2>1, <2>2, <2>3
  <2>7. copy'[u] # None /\ u = Initiator => copy'[u].history # <<>>
    BY <1>2, <2>2, <2>3, <2>5
  <2> QED
    BY <1>1, <1>2, <2>1, <2>4, <2>5, <2>6, <2>7 DEF PastIsKept, Doing
<1>9. ASSUME NEW u \in Users, Prepare(u)
      PROVE  copy' \in [Users -> Copy \cup {None}] /\ PastIsKept'
  <2>1. /\ copy[u] \in Copy /\ copy' = [copy EXCEPT ![u] = [copy[u] EXCEPT !.name = "KS"]]
        /\ UNCHANGED <<tx, member>>
    BY <1>0, <1>9 DEF Prepare
  <2>2. /\ [copy[u] EXCEPT !.name = "KS"] \in Copy
        /\ [copy[u] EXCEPT !.name = "KS"].history = copy[u].history
    BY <2>1 DEF Copy
  <2>3. copy[u] # None
    BY <2>1, NoneIsApart
  <2>4. \A v \in Users : copy'[v] # None => copy[v] # None /\ copy'[v].history = copy[v].history
    BY <1>0, <2>1, <2>2, <2>3
  <2>5. copy' \in [Users -> Copy \cup {None}]
    BY <1>0, <2>1, <2>2
  <2> QED
    BY <1>1, <1>2, <2>1, <2>4, <2>5 DEF PastIsKept, Doing, Inside
<1>10. ASSUME NEW u \in Users, CommitWithdraw(u) \/ CommitDeparture(u)
       PROVE  copy' \in [Users -> Copy \cup {None}] /\ PastIsKept'
  <2>1. UNCHANGED copy
    BY <1>10 DEF CommitWithdraw, CommitDeparture
  <2>2. \A v \in Users : Inside(v)' => Inside(v)
    BY <1>0, <1>10 DEF CommitWithdraw, CommitDeparture, Inside, TypeOK
  <2> QED
    BY <1>0, <1>1, <1>2, <1>4, <1>10, <2>1, <2>2 DEF PastIsKept
<1>11. ASSUME NEW u \in Users, CreateShare(u) \/ CancelShare(u) \/ Decline(u) \/ Activate(u)
                               \/ \E v \in Users : Invite(u, v)
       PROVE  copy' \in [Users -> Copy \cup {None}] /\ PastIsKept'
  <2>1. UNCHANGED <<copy, tx>>
    BY <1>11 DEF CreateShare, CancelShare, Decline, Activate, Invite
  <2>2. \A v \in Users : Inside(v)' => Inside(v) \/ v = Initiator
    BY <1>0, <1>11 DEF CreateShare, CancelShare, Decline, Activate, Invite, Inside, TypeOK
  <2> QED
    BY <1>0, <1>1, <1>2, <2>1, <2>2 DEF PastIsKept, Doing
<1>12. ASSUME NEW u \in Users, RollBack(u) \/ \E r \in Rooms[u] : SetRoom(u, r)
       PROVE  copy' \in [Users -> Copy \cup {None}] /\ PastIsKept'
  <2>1. UNCHANGED <<copy, member>>
    BY <1>12 DEF RollBack, SetRoom
  <2>2. \A v \in Users : Doing(v, {"thaw"})' => Doing(v, {"thaw"}) /\ tx'[v] = tx[v]
    BY <1>4, <1>12 DEF SetRoom, Doing
  <2> QED
    BY <1>0, <1>1, <1>2, <2>1, <2>2 DEF PastIsKept, Inside
<1>13. CASE UNCHANGED vars
  BY <1>0, <1>13 DEF vars, PastIsKept, Doing, Inside
<1> QED
  BY <1>0, <1>3, <1>5, <1>6, <1>7, <1>8, <1>9, <1>10, <1>11, <1>12, <1>13, StepKinds

\* A request is in flight as it began until it is gone.
LEMMA RequestsStay ==
    ASSUME MembersInv, [Next]_vars, NEW v \in Users
    PROVE  tx'[v] = tx[v] \/ tx'[v] = None \/ Starts(v)
<1>0. TypeOK /\ Places /\ tx \in [Users -> Request \cup {None}]
  BY DEF MembersInv, Typed, TypeOK
<1>1. ASSUME NEW u \in Users,
             \/ RollBack(u) \/ CommitWithdraw(u) \/ CommitDeparture(u) \/ CommitJoin(u)
             \/ CommitWrite(u) \/ CommitThaw(u)
      PROVE  tx'[v] = tx[v] \/ tx'[v] = None
  <2>1. tx' = [tx EXCEPT ![u] = None]
    BY <1>1 DEF RollBack, CommitJoin, CommitWrite, CommitWithdraw, CommitDeparture, CommitThaw
  <2> QED
    BY <1>0, <2>1
<1>2. ASSUME NEW u \in Users,
             \/ CreateShare(u) \/ Prepare(u) \/ CancelShare(u) \/ Activate(u)
             \/ Decline(u) \/ Finalize(u)
             \/ \E r \in Rooms[u] : SetRoom(u, r)
             \/ \E w \in Users : Invite(u, w)
      PROVE  UNCHANGED tx
  BY <1>2 DEF CreateShare, Prepare, CancelShare, Activate, Decline, Finalize, SetRoom, Invite
<1>3. ASSUME NEW u \in Users, Starts(u) PROVE tx'[v] = tx[v] \/ Starts(v)
  BY <1>3 DEF Starts
<1>4. CASE UNCHANGED vars
  BY <1>4 DEF vars
<1> QED
  BY <1>0, <1>1, <1>2, <1>3, <1>4, StepKinds

\* Whoever has the file keeps it, in the trash or out of it, but for who joins.
LEMMA FilesStay ==
    ASSUME MembersInv, [Next]_vars, NEW v \in Users, copy[v] # None, ~CommitJoin(v)
    PROVE  copy'[v] # None
<1>0. TypeOK /\ Places /\ copy \in [Users -> Copy \cup {None}]
  BY DEF MembersInv, Typed, TypeOK
<1>1. ASSUME NEW u \in Users,
             \/ Starts(u) \/ RollBack(u) \/ CommitWithdraw(u) \/ CommitDeparture(u)
             \/ CreateShare(u) \/ CancelShare(u) \/ Activate(u) \/ Decline(u)
             \/ \E r \in Rooms[u] : SetRoom(u, r)
             \/ \E w \in Users : Invite(u, w)
      PROVE  UNCHANGED copy
  BY <1>1 DEF Starts, RollBack, CommitWithdraw, CommitDeparture, CreateShare, CancelShare,
              Activate, Decline, SetRoom, Invite
<1>2. ASSUME NEW u \in Users, CommitWrite(u) PROVE copy'[v] # None
  BY <1>2, WriteTyped
<1>3. ASSUME NEW u \in Users, CommitThaw(u) PROVE copy'[v] # None
  BY <1>3, ThawTyped
<1>4. ASSUME NEW u \in Users, CommitJoin(u) PROVE copy'[v] # None
  BY <1>4, JoinTyped
<1>5. ASSUME NEW u \in Users, Prepare(u) PROVE copy'[v] # None
  <2>1. copy[u] \in Copy /\ copy' = [copy EXCEPT ![u] = [copy[u] EXCEPT !.name = "KS"]]
    BY <1>0, <1>5 DEF Prepare
  <2>2. [copy[u] EXCEPT !.name = "KS"] \in Copy
    BY <2>1 DEF Copy
  <2>3. [copy[u] EXCEPT !.name = "KS"] # None
    BY <2>2, NoneIsApart
  <2> QED
    BY <1>0, <2>1, <2>3
<1>6. ASSUME NEW u \in Users, Finalize(u) PROVE copy'[v] # None
  <2>1. copy' = [copy EXCEPT ![u] = Private(copy[u], u)]
    BY <1>0, <1>6 DEF Finalize
  <2>2. CASE u = v
    <3>1. copy[v] \in Copy
      BY <1>0
    <3> DEFINE past == IF v = Initiator THEN copy[v].history ELSE <<>>
    <3>2. past \in Seq(Entry)
      BY <3>1 DEF Copy
    <3>3. Private(copy[v], v) = [copy[v] EXCEPT !.name = v, !.history = past]
      BY DEF Private
    <3> HIDE DEF past
    <3>4. [copy[v] EXCEPT !.name = v, !.history = past] \in Copy
      BY <3>1, <3>2 DEF Copy
    <3>5. Private(copy[v], v) # None
      BY <3>3, <3>4, NoneIsApart
    <3> QED
      BY <1>0, <2>1, <2>2, <3>5
  <2> QED
    BY <1>0, <2>1, <2>2
<1>7. CASE UNCHANGED vars
  BY <1>7 DEF vars
<1> QED
  BY <1>0, <1>1, <1>2, <1>3, <1>4, <1>5, <1>6, <1>7, StepKinds

LEMMA RequestsKept ==
    ASSUME MembersInv, [Next]_vars
    PROVE  RequestsFit'
<1>0. TypeOK /\ RequestsFit /\ Places /\ InitiatorIsAUser
  BY InitiatorIsAUser DEF MembersInv, Typed
<1>1. copy[Initiator] # None => copy'[Initiator] # None
  <2>1. ~CommitJoin(Initiator)
    BY <1>0 DEF RequestsFit, CommitJoin
  <2> QED
    BY <1>0, <2>1, FilesStay, InitiatorIsAUser
<1>2. SUFFICES ASSUME NEW u \in Users, tx'[u] # None
               PROVE  /\ tx'[u].op \in WriteOps \ {"delete"} => tx'[u].content \in Contents
                      /\ tx'[u].op = "create" => tx'[u].name \in Users \cup {"KS"}
                      /\ tx'[u].op = "join" =>
                           /\ u # Initiator
                           /\ tx'[u].source # None => copy'[Initiator] # None
                      /\ tx'[u].op = "thaw" => tx'[u].room \in Rooms[u]
  BY DEF RequestsFit, Doing
<1>3. CASE tx'[u] = tx[u]
  BY <1>0, <1>1, <1>2, <1>3 DEF RequestsFit, Doing
<1>4. CASE Starts(u)
  <2>1. CASE StartsWrite(u)
    BY <2>1 DEF StartsWrite, WriteOps
  <2>2. CASE StartsJoin(u)
    <3>1. u # Initiator
      BY <1>0, <2>2 DEF StartsJoin, Places
    <3>2. tx'[u].source # None => copy'[Initiator] # None
      BY <1>1, <2>2 DEF StartsJoin, Shown
    <3> QED
      BY <2>2, <3>1, <3>2 DEF StartsJoin, WriteOps
  <2>3. CASE StartsThaw(u)
    BY <2>3 DEF StartsThaw, WriteOps
  <2>4. CASE StartsDeparture(u)
    BY <2>4 DEF StartsDeparture, WriteOps
  <2> QED
    BY <1>4, <2>1, <2>2, <2>3, <2>4 DEF Starts
<1> QED
  BY <1>2, <1>3, <1>4, RequestsStay

LEMMA TypesKept ==
    ASSUME MembersInv, [Next]_vars
    PROVE  Typed'
<1>1. tx' \in [Users -> Request \cup {None}]
  BY StepKinds DEF MembersInv, Typed
<1> QED
  BY <1>1, MembersTyped, RoomTyped, CopiesTyped, RequestsKept DEF Typed, TypeOK

-----------------------------------------------------------------------------
(* Members, and the targets of writes.                                     *)

LEMMA PlacesKept ==
    ASSUME MembersInv, [Next]_vars
    PROVE  Places'
<1>0. /\ TypeOK /\ Places /\ Departures /\ RequestsFit /\ Initiator \in Users
      /\ member \in [Users -> {"none", "invited", "joined", "finalizing", "left"}]
  BY InitiatorIsAUser DEF MembersInv, Typed, TypeOK
<1>1. ASSUME NEW u \in Users,
             \/ Starts(u) \/ RollBack(u) \/ CommitWrite(u) \/ CommitThaw(u) \/ Prepare(u)
             \/ \E r \in Rooms[u] : SetRoom(u, r)
      PROVE  UNCHANGED <<share, member>>
  BY <1>1 DEF Starts, RollBack, CommitWrite, CommitThaw, Prepare, SetRoom
<1>2. ASSUME NEW u \in Users,
             CreateShare(u) \/ CancelShare(u) \/ Activate(u)
      PROVE  Places'
  BY <1>0, <1>2 DEF CreateShare, CancelShare, Activate, Places, Unshared
<1>3. ASSUME NEW u \in Users, Decline(u) \/ Finalize(u) \/ \E v \in Users : Invite(u, v)
      PROVE  Places'
  BY <1>0, <1>3 DEF Decline, Finalize, Invite, Places, Unshared
<1>4. ASSUME NEW u \in Users, CommitJoin(u) PROVE Places'
  <2>1. u # Initiator /\ share = "active" /\ UNCHANGED share
        /\ member' = [member EXCEPT ![u] = "joined"]
    BY <1>0, <1>4 DEF CommitJoin, RequestsFit
  <2> QED
    BY <1>0, <2>1 DEF Places, Unshared
<1>5. ASSUME NEW u \in Users, CommitWithdraw(u) PROVE Places'
  <2>1. /\ tx[u].target # Initiator /\ tx[u].target \in Users /\ UNCHANGED share
        /\ member' = [member EXCEPT ![tx[u].target] = "none"]
    BY <1>0, <1>5, InFlight DEF CommitWithdraw, Departures, Doing
  <2> QED
    BY <1>0, <2>1 DEF Places, Unshared
<1>6. ASSUME NEW u \in Users, CommitDeparture(u) PROVE Places'
  <2> DEFINE d == tx[u]
             going == IF d.ends THEN {v \in Users : member[v] \in {"invited", "joined"}}
                      ELSE {d.target} \cap Live
  <2>1. /\ d.target = Initiator => d.ends
        /\ d.ends => share' \in {"ended", "cancelled"}
        /\ ~d.ends => UNCHANGED share
        /\ \A v \in going : member[v] = "joined"
        /\ member' = [v \in Users |-> IF v \in going THEN "finalizing" ELSE member[v]]
    BY <1>0, <1>6 DEF CommitDeparture, Departures
  <2>2. CASE d.ends
    BY <1>0, <2>1, <2>2 DEF Places, Unshared
  <2>3. CASE ~d.ends
    <3>1. Initiator \notin going
      BY <2>1, <2>3
    <3>2. Unshared => going = {}
      BY <1>0, <2>3, <3>1 DEF Places, Live
    <3> HIDE DEF going, d
    <3> QED
      BY <1>0, <2>1, <2>3, <3>1, <3>2 DEF Places, Unshared
  <2> QED
    BY <2>2, <2>3
<1>7. CASE UNCHANGED vars
  BY <1>7, <1>0 DEF vars, Places, Unshared
<1>8. CASE UNCHANGED <<share, member>>
  BY <1>8, <1>0 DEF Places, Unshared
<1> QED
  BY <1>0, <1>1, <1>2, <1>3, <1>4, <1>5, <1>6, <1>7, <1>8, StepKinds

LEMMA DeparturesKept ==
    ASSUME MembersInv, [Next]_vars
    PROVE  Departures'
<1>0. Departures
  BY DEF MembersInv
<1>1. SUFFICES ASSUME NEW u \in Users, tx'[u] # None
               PROVE  /\ tx'[u].op \in {"leave", "revoke"} /\ tx'[u].target = Initiator
                          => tx'[u].ends
                      /\ tx'[u].op = "withdraw" => tx'[u].target # Initiator
  BY DEF Departures, Doing
<1>2. CASE tx'[u] = tx[u]
  BY <1>0, <1>1, <1>2 DEF Departures, Doing
<1>3. CASE Starts(u)
  BY <1>3 DEF Starts, StartsWrite, StartsJoin, StartsThaw, StartsDeparture, WriteOps
<1> QED
  BY <1>1, <1>2, <1>3, RequestsStay

\* The row locks of a write keep whom it goes to live until it has ended.
LEMMA TargetsStayLive ==
    ASSUME MembersInv, [Next]_vars, NEW u \in Users, Doing(u, WriteOps), tx'[u] = tx[u],
           NEW v \in tx[u].to
    PROVE  member'[v] = "joined"
<1>0. /\ TypeOK /\ Places /\ Departures /\ RequestsFit /\ Initiator \in Users
      /\ member \in [Users -> {"none", "invited", "joined", "finalizing", "left"}]
      /\ v \in Users /\ member[v] = "joined" /\ ~Unshared
  BY InitiatorIsAUser DEF MembersInv, Typed, TypeOK, TargetsStay, Live
<1>1. ASSUME NEW w \in Users,
             \/ Starts(w) \/ RollBack(w) \/ CommitWrite(w) \/ CommitThaw(w) \/ Prepare(w)
             \/ Activate(w) \/ \E r \in Rooms[w] : SetRoom(w, r)
      PROVE  UNCHANGED member
  BY <1>1 DEF Starts, RollBack, CommitWrite, CommitThaw, Prepare, Activate, SetRoom
<1>2. ASSUME NEW w \in Users,
             \/ CreateShare(w) \/ CancelShare(w) \/ Decline(w) \/ Finalize(w)
             \/ CommitJoin(w) \/ \E x \in Users : Invite(w, x)
      PROVE  member'[v] = "joined"
  BY <1>0, <1>2 DEF CreateShare, CancelShare, Decline, Finalize, CommitJoin, Invite, Unshared
<1>3. ASSUME NEW w \in Users, CommitWithdraw(w)
      PROVE  member'[v] = "joined"
  <2>1. tx[w].target # v
    BY <1>0, <1>3 DEF CommitWithdraw
  <2> QED
    BY <1>0, <1>3, <2>1 DEF CommitWithdraw
<1>4. ASSUME NEW w \in Users, CommitDeparture(w)
      PROVE  member'[v] = "joined"
  <2> DEFINE d == tx[w]
             going == IF d.ends THEN {x \in Users : member[x] \in {"invited", "joined"}}
                      ELSE {d.target} \cap Live
  <2>1. /\ Doing(w, {"leave", "revoke"})
        /\ \A x \in going : ~MemberLocked(w, x)
        /\ member' = [x \in Users |-> IF x \in going THEN "finalizing" ELSE member[x]]
    BY <1>4 DEF CommitDeparture
  <2>2. u # w
    BY <2>1 DEF Doing, WriteOps
  <2>3. MemberLocked(w, v)
    BY <2>2 DEF MemberLocked
  <2> HIDE DEF going, d
  <2> QED
    BY <1>0, <2>1, <2>3
<1>5. CASE UNCHANGED vars
  BY <1>0, <1>5 DEF vars
<1> QED
  BY <1>0, <1>1, <1>2, <1>3, <1>4, <1>5, StepKinds

LEMMA StaysShared ==
    ASSUME MembersInv, [Next]_vars
    PROVE  Unshared' => Unshared
<1>0. TypeOK /\ Places
  BY DEF MembersInv, Typed
<1>1. ASSUME NEW u \in Users,
             \/ Starts(u) \/ RollBack(u) \/ CommitWrite(u) \/ CommitThaw(u) \/ Prepare(u)
             \/ Decline(u) \/ Finalize(u) \/ CommitJoin(u) \/ CommitWithdraw(u)
             \/ (\E r \in Rooms[u] : SetRoom(u, r)) \/ (\E v \in Users : Invite(u, v))
      PROVE  UNCHANGED share
  BY <1>1 DEF Starts, RollBack, CommitWrite, CommitThaw, Prepare, Decline, Finalize, CommitJoin,
              CommitWithdraw, SetRoom, Invite
<1>2. ASSUME NEW u \in Users,
             CreateShare(u) \/ CancelShare(u) \/ Activate(u) \/ CommitDeparture(u)
      PROVE  Unshared' => Unshared
  BY <1>2 DEF CreateShare, CancelShare, Activate, CommitDeparture, Unshared
<1>3. CASE UNCHANGED vars
  BY <1>3 DEF vars, Unshared
<1>4. CASE UNCHANGED share
  BY <1>4 DEF Unshared
<1> QED
  BY <1>0, <1>1, <1>2, <1>3, <1>4, StepKinds

LEMMA TargetsKept ==
    ASSUME MembersInv, [Next]_vars
    PROVE  TargetsStay'
<1>0. TypeOK /\ Places /\ TargetsStay /\ (Unshared' => Unshared) /\ Typed'
  BY StaysShared, TypesKept DEF MembersInv, Typed
<1>1. SUFFICES ASSUME NEW u \in Users, tx'[u] # None
               PROVE  /\ tx'[u].op \in WriteOps => tx'[u].to \subseteq Live' \ {u}
                      /\ Unshared' => /\ tx'[u].op \in WriteOps => u = Initiator /\ tx'[u].to = {}
                                      /\ tx'[u].op # "join"
  BY DEF TargetsStay, Doing
<1>2. CASE tx'[u] = tx[u]
  <2>1. tx'[u].op \in WriteOps => tx'[u].to \subseteq Live' \ {u}
    <3> SUFFICES ASSUME tx[u].op \in WriteOps, NEW v \in tx[u].to
                 PROVE  v \in Live' \ {u}
      BY <1>2
    <3>1. Doing(u, WriteOps) /\ v \in Users \ {u}
      BY <1>0, <1>1, <1>2 DEF Doing, TargetsStay, Live
    <3> QED
      BY <1>2, <3>1, TargetsStayLive DEF Live
  <2> QED
    BY <1>0, <1>1, <1>2, <2>1 DEF TargetsStay, Doing
<1>3. CASE Starts(u)
  <2>1. UNCHANGED <<share, member, frozen>>
    BY <1>3 DEF Starts
  <2>2. CASE StartsWrite(u)
    <3>1. tx'[u].to = Targets(u) /\ InFolder(u) /\ tx'[u].op # "join"
      BY <2>2 DEF StartsWrite, WriteOps
    <3>2. Targets(u) \subseteq Live \ {u}
      BY DEF Targets, LiveUnfrozen
    <3>3. Unshared => u = Initiator /\ Live \subseteq {Initiator}
      BY <1>0, <3>1 DEF Places, InFolder, Inside, Live
    <3>4. Live' = Live
      BY <2>1 DEF Live
    <3>5. Unshared' <=> Unshared
      BY <2>1 DEF Unshared
    <3> QED
      BY <3>1, <3>2, <3>3, <3>4, <3>5
  <2>3. CASE StartsJoin(u)
    BY <2>1, <2>3 DEF StartsJoin, WriteOps, Unshared
  <2>4. CASE StartsThaw(u) \/ StartsDeparture(u)
    BY <2>4 DEF StartsThaw, StartsDeparture, WriteOps
  <2> QED
    BY <1>3, <2>2, <2>3, <2>4 DEF Starts
<1> QED
  BY <1>1, <1>2, <1>3, RequestsStay

LEMMA MembersStart == Init => MembersInv
<1> SUFFICES ASSUME Init PROVE MembersInv
  OBVIOUS
<1>1. \A u \in Users : tx[u] = None /\ copy[u] = None /\ member[u] = "none"
  BY DEF Init
<1>2. TypeOK
  BY RoomIsNatural, BoundsAreNaturals DEF Init, TypeOK
<1>3. PastIsKept /\ RequestsFit
  BY <1>1 DEF PastIsKept, RequestsFit, Doing
<1>4. Places
  BY <1>1, InitiatorIsAUser DEF Places, Unshared, Init
<1>5. Departures /\ TargetsStay
  BY <1>1 DEF Departures, TargetsStay, Doing
<1> QED
  BY <1>2, <1>3, <1>4, <1>5 DEF MembersInv, Typed

LEMMA MembersKept == MembersInv /\ [Next]_vars => MembersInv'
BY TypesKept, PlacesKept, DeparturesKept, TargetsKept DEF MembersInv

LEMMA MembersHold == Spec => []MembersInv
BY MembersStart, MembersKept, PTL DEF Spec

\* The share, its members, every copy and every request keep their types,
\* whatever a request read before it could write (shares/).
THEOREM TypeCorrect == Spec => []TypeOK
<1>1. MembersInv => TypeOK
  BY DEF MembersInv, Typed
<1> QED
  BY <1>1, MembersHold, PTL

\* Who is finalizing or has left sees no change in their copy that they do not
\* make themselves: a write in flight locks the memberships it goes to
\* (membership.ts), and a departure waits for the lock.
THEOREM DepartureIsClean == Spec => DepartedReceiveNothing
<1>1. ASSUME MembersInv, [Next]_vars, NEW u \in Users,
             member[u] \in {"finalizing", "left"}, copy'[u] # copy[u],
             tx[u] = None
      PROVE  member'[u] = "left"
  <2>0. /\ TypeOK /\ Places /\ TargetsStay
        /\ copy \in [Users -> Copy \cup {None}]
        /\ member \in [Users -> {"none", "invited", "joined", "finalizing", "left"}]
    BY <1>1 DEF MembersInv, Typed, TypeOK
  <2>1. ASSUME NEW w \in Users,
               \/ Starts(w) \/ RollBack(w) \/ CommitWithdraw(w) \/ CommitDeparture(w)
               \/ CreateShare(w) \/ CancelShare(w) \/ Activate(w) \/ Decline(w)
               \/ (\E r \in Rooms[w] : SetRoom(w, r)) \/ (\E v \in Users : Invite(w, v))
        PROVE  UNCHANGED copy
    BY <2>1 DEF Starts, RollBack, CommitWithdraw, CommitDeparture, CreateShare, CancelShare,
                Activate, Decline, SetRoom, Invite
  <2>2. ASSUME NEW w \in Users, CommitWrite(w) PROVE FALSE
    <3>1. w # u /\ Doing(w, WriteOps)
      BY <1>1, <2>2 DEF CommitWrite, Doing
    <3>2. u \notin tx[w].to
      BY <1>1, <2>0, <3>1 DEF TargetsStay, Live
    <3> QED
      BY <1>1, <2>0, <2>2, <3>1, <3>2 DEF CommitWrite
  <2>3. ASSUME NEW w \in Users, CommitJoin(w) \/ CommitThaw(w) PROVE FALSE
    <3>1. w # u
      BY <1>1, <2>3 DEF CommitJoin, CommitThaw, Doing
    <3> QED
      BY <1>1, <2>0, <2>3, <3>1 DEF CommitJoin, CommitThaw
  <2>4. ASSUME NEW w \in Users, Prepare(w) PROVE FALSE
    <3>1. w # u
      BY <1>1, <2>0, <2>4 DEF Prepare, Places
    <3> QED
      BY <1>1, <2>0, <2>4, <3>1 DEF Prepare
  <2>5. ASSUME NEW w \in Users, Finalize(w) PROVE member'[u] = "left"
    <3>1. w = u
      BY <1>1, <2>0, <2>5 DEF Finalize
    <3> QED
      BY <2>0, <2>5, <3>1 DEF Finalize
  <2>6. CASE UNCHANGED vars
    BY <1>1, <2>6 DEF vars
  <2> QED
    BY <1>1, <2>0, <2>1, <2>2, <2>3, <2>4, <2>5, <2>6, StepKinds
<1>2. MembersInv /\ [Next]_vars =>
        [\A u \in Users : member[u] \in {"finalizing", "left"} /\ copy'[u] # copy[u]
           => tx[u] # None \/ member'[u] = "left"]_vars
  BY <1>1
<1> QED
  BY <1>2, MembersHold, PTL DEF Spec, DepartedReceiveNothing

-----------------------------------------------------------------------------
(* What the copies show.                                                   *)

LEMMA WritesStayApart ==
    ASSUME MembersInv, Careful, WritesApart, [Next]_vars
    PROVE  WritesApart'
<1>1. SUFFICES ASSUME NEW u \in Users, NEW w \in Users, tx'[u] # None, tx'[u].op \in WriteOps,
                      tx'[w] # None, tx'[w].op \in {"join", "thaw"}
               PROVE  FALSE
  BY DEF WritesApart, Doing
<1>2. u # w
  BY <1>1 DEF WriteOps
<1>3. CASE Starts(u)
  <2>1. tx'[w] = tx[w] /\ StartsWrite(u)
    BY <1>1, <1>2, <1>3 DEF Starts, StartsJoin, StartsThaw, StartsDeparture, WriteOps
  <2>2. ~Doing(w, {"join"}) /\ ~Doing(w, {"thaw"})
    BY <2>1 DEF StartsWrite, Apart, Careful
  <2> QED
    BY <1>1, <2>1, <2>2 DEF Doing
<1>4. CASE Starts(w)
  <2>1. tx'[u] = tx[u] /\ (StartsJoin(w) \/ StartsThaw(w))
    BY <1>1, <1>2, <1>4 DEF Starts, StartsWrite, StartsDeparture, WriteOps
  <2>2. ~Doing(u, WriteOps)
    BY <2>1 DEF StartsJoin, StartsThaw, Apart, Careful
  <2> QED
    BY <1>1, <2>1, <2>2 DEF Doing
<1>5. CASE tx'[u] = tx[u] /\ tx'[w] = tx[w]
  BY <1>1, <1>5 DEF WritesApart, Doing
<1> QED
  BY <1>1, <1>3, <1>4, <1>5, RequestsStay

\* Nobody becomes level but by a join, a catch-up or the activation.
LEMMA LevelGrows ==
    ASSUME MembersInv, [Next]_vars, NEW v \in Level', v \notin Level
    PROVE  CommitJoin(v) \/ CommitThaw(v) \/ Activate(Initiator)
<1>0. /\ TypeOK /\ Places
      /\ frozen \in [Users -> BOOLEAN]
      /\ member \in [Users -> {"none", "invited", "joined", "finalizing", "left"}]
      /\ v \in Users /\ share' = "active" /\ member'[v] = "joined" /\ ~frozen'[v]
      /\ share # "active" \/ member[v] # "joined" \/ frozen[v]
  BY DEF MembersInv, Typed, TypeOK, Level, LiveUnfrozen, Live
<1>1. ASSUME NEW u \in Users, Starts(u) \/ RollBack(u) \/ Prepare(u) PROVE FALSE
  BY <1>0, <1>1 DEF Starts, RollBack, Prepare
<1>2. ASSUME NEW u \in Users, CommitWrite(u) PROVE FALSE
  BY <1>0, <1>2 DEF CommitWrite
<1>3. ASSUME NEW u \in Users, CommitWithdraw(u) PROVE FALSE
  BY <1>0, <1>3 DEF CommitWithdraw
<1>4. ASSUME NEW u \in Users, CommitDeparture(u) PROVE FALSE
  <2>1. tx[u].ends => share' \in {"ended", "cancelled"}
    BY <1>4 DEF CommitDeparture
  <2>2. ~tx[u].ends /\ UNCHANGED <<share, frozen>>
    BY <1>0, <1>4, <2>1 DEF CommitDeparture
  <2>3. member'[v] \in {"finalizing", member[v]}
    BY <1>0, <1>4 DEF CommitDeparture
  <2> QED
    BY <1>0, <2>2, <2>3
<1>5. ASSUME NEW u \in Users,
             CreateShare(u) \/ CancelShare(u) \/ Decline(u) \/ Finalize(u)
             \/ (\E w \in Users : Invite(u, w))
      PROVE  FALSE
  BY <1>0, <1>5 DEF CreateShare, CancelShare, Decline, Finalize, Invite
<1>6. ASSUME NEW u \in Users, NEW r \in Rooms[u], SetRoom(u, r) PROVE FALSE
  <2>1. frozen[u] => Over(copy[u], r)
    BY <1>6 DEF SetRoom
  <2>2. frozen'[v] \/ ~frozen[v]
    BY <1>0, <1>6, <2>1 DEF SetRoom
  <2> QED
    BY <1>0, <1>6, <2>2 DEF SetRoom
<1>7. ASSUME NEW u \in Users, CommitJoin(u) PROVE u = v
  BY <1>0, <1>7 DEF CommitJoin
<1>8. ASSUME NEW u \in Users, CommitThaw(u) PROVE u = v
  BY <1>0, <1>8 DEF CommitThaw
<1>9. ASSUME NEW u \in Users, Activate(u) PROVE u = Initiator
  BY <1>9 DEF Activate
<1>10. CASE UNCHANGED vars
  BY <1>0, <1>10 DEF vars
<1> QED
  BY <1>0, <1>1, <1>2, <1>3, <1>4, <1>5, <1>6, <1>7, <1>8, <1>9, <1>10, StepKinds

LEMMA WritesStillReach ==
    ASSUME MembersInv, Careful, WritesApart, WritesReach, [Next]_vars
    PROVE  WritesReach'
<1>0. TypeOK /\ Places /\ TargetsStay
  BY DEF MembersInv, Typed
<1>1. SUFFICES ASSUME NEW u \in Users, tx'[u] # None, tx'[u].op \in WriteOps
               PROVE  /\ Level' \ {u} \subseteq tx'[u].to
                      /\ tx'[u].op = "restore" => \A v \in tx'[u].to \cup {u} : copy'[v] # None
  BY DEF WritesReach, Doing, WriteOps
<1>2. CASE tx'[u] = tx[u]
  <2>0. /\ Doing(u, WriteOps) /\ tx[u].to \subseteq Users
        /\ \A w \in Users : ~Doing(w, {"join", "thaw"})
    BY <1>0, <1>1, <1>2 DEF Doing, WritesApart, TargetsStay, Live
  <2>1. ASSUME NEW v \in Level', v # u PROVE v \in tx[u].to
    <3>1. CASE v \in Level
      BY <2>0, <2>1, <3>1 DEF WritesReach
    <3>2. CASE v \notin Level
      <4>0. v \in Users
        BY DEF Level, LiveUnfrozen, Live
      <4>1. ~CommitJoin(v) /\ ~CommitThaw(v)
        BY <2>0, <4>0 DEF CommitJoin, CommitThaw, Doing
      <4>2. Activate(Initiator)
        BY <3>2, <4>1, LevelGrows
      <4>3. Unshared /\ tx[Initiator] = None
        BY <4>2 DEF Activate, Unshared
      <4> QED
        BY <1>0, <2>0, <4>3 DEF TargetsStay, Doing
    <3> QED
      BY <3>1, <3>2
  <2>2. ASSUME tx[u].op = "restore", NEW v \in tx[u].to \cup {u} PROVE copy'[v] # None
    <3>1. copy[v] # None /\ v \in Users
      BY <1>1, <1>2, <2>0, <2>2 DEF WritesReach, Doing
    <3>2. ~CommitJoin(v)
      BY <2>0, <3>1 DEF CommitJoin, Doing
    <3> QED
      BY <3>1, <3>2, FilesStay
  <2> QED
    BY <1>2, <2>1, <2>2
<1>3. CASE Starts(u)
  <2>1. StartsWrite(u) /\ UNCHANGED <<share, member, frozen, copy>>
    BY <1>1, <1>3 DEF Starts, StartsJoin, StartsThaw, StartsDeparture, WriteOps
  <2>2. Level' = Level /\ InFolder(u) /\ tx'[u].to = Targets(u)
    BY <2>1 DEF StartsWrite, Level, LiveUnfrozen, Live
  <2>3. Level \ {u} \subseteq Targets(u)
    BY <2>2 DEF Level, Targets, InFolder
  <2>4. tx'[u].op = "restore" => copy[u] # None /\ \A v \in Targets(u) : copy[v] # None
    BY <2>1 DEF StartsWrite, Risk, Careful
  <2> QED
    BY <2>1, <2>2, <2>3, <2>4
<1> QED
  BY <1>1, <1>2, <1>3, RequestsStay

\* What a write makes of what everybody sees.
After(w, x) == IF w.op = "delete" \/ (w.op = "put" /\ x = None) THEN None ELSE w.content

\* It makes the same of every copy that shows the same.
LEMMA DeliveredShows ==
    ASSUME TypeOK, NEW c \in Copy \cup {None}, NEW u \in Users, NEW w,
           w.op \in WriteOps,
           w.op # "delete" => w.content \in Contents /\ writes < MaxWrites,
           w.op = "create" => w.name \in Users \cup {"KS"},
           w.op = "restore" => c # None
    PROVE  Shown(Delivered(c, w, u)) = After(w, Shown(c))
<1>0. \A d \in Copy : d # None /\ d.content # None
  BY NoneIsApart DEF Copy
<1>1. CASE w.op = "create"
  <2>1. Created(w) \in Copy
    BY <1>1, EmptySeq DEF Created, Copy
  <2> QED
    BY <1>0, <1>1, <2>1, WrittenType DEF Delivered, Shown, After
<1>2. CASE w.op # "create" /\ c = None
  BY <1>2 DEF Delivered, Shown, After, WriteOps
<1>3. CASE w.op = "put" /\ c # None
  BY <1>0, <1>3, WrittenType DEF Delivered, Shown, After
<1>4. CASE w.op = "delete" /\ c # None
  <2>1. Delivered(c, w, u) = [c EXCEPT !.live = FALSE] /\ c \in Copy
    BY <1>4 DEF Delivered
  <2>2. ~[c EXCEPT !.live = FALSE].live
    BY <2>1 DEF Copy
  <2> QED
    BY <1>4, <2>1, <2>2 DEF Shown, After
<1>5. CASE w.op = "restore" /\ c # None
  BY <1>0, <1>5, WrittenType DEF Delivered, Shown, After
<1> QED
  BY <1>1, <1>2, <1>3, <1>4, <1>5 DEF WriteOps

\* What a write of an active share leaves everybody who is level with.
LEMMA WriteShows ==
    ASSUME MembersInv, WritesApart, WritesReach, NEW x \in Contents \cup {None}, AllSee(x),
           NEW u \in Users, CommitWrite(u), share = "active"
    PROVE  \E y \in Contents \cup {None} : AllSee(y)'
<1> DEFINE w == tx[u]
           seen == After(w, x)
<1>0. /\ TypeOK /\ RequestsFit /\ TargetsStay
      /\ copy \in [Users -> Copy \cup {None}] /\ tx \in [Users -> Request \cup {None}]
      /\ frozen \in [Users -> BOOLEAN]
  BY DEF MembersInv, Typed, TypeOK
<1>1. /\ w # None /\ w.op \in WriteOps /\ Doing(u, WriteOps)
      /\ w.op # "delete" => writes < MaxWrites
      /\ copy' = [v \in Users |-> IF v \in {u} \cup w.to THEN Delivered(copy[v], w, u) ELSE copy[v]]
      /\ tx' = [tx EXCEPT ![u] = None]
      /\ UNCHANGED <<share, member>>
      /\ \A v \in Users : frozen[v] => frozen'[v]
  BY DEF CommitWrite, Doing
<1>2. /\ w.op # "delete" => w.content \in Contents
      /\ w.op = "create" => w.name \in Users \cup {"KS"}
  BY <1>0, <1>1, InFlight
<1>3. \A v \in Users : ~Doing(v, {"join", "thaw"})
  BY <1>1 DEF WritesApart
<1>4. ASSUME NEW v \in Level' PROVE Shown(copy'[v]) = seen
  <2>1. v \in Level /\ v \in Users
    BY <1>0, <1>1 DEF Level, LiveUnfrozen, Live
  <2>2. v \in {u} \cup w.to /\ Shown(copy[v]) = x
    BY <1>1, <2>1 DEF WritesReach, AllSee
  <2>3. w.op = "restore" => copy[v] # None
    BY <1>1, <2>2 DEF WritesReach, Doing
  <2>4. copy[v] \in Copy \cup {None}
    BY <1>0, <2>1
  <2> HIDE DEF w
  <2>5. Shown(Delivered(copy[v], w, u)) = After(w, Shown(copy[v]))
    BY <1>0, <1>1, <1>2, <2>3, <2>4, DeliveredShows
  <2> QED
    BY <1>1, <2>1, <2>2, <2>5
<1>5. \A v \in Users : ~Doing(v, {"join"})' /\ ~Doing(v, {"thaw"})'
  BY <1>0, <1>1, <1>3 DEF Doing
<1>6. PICK y \in Contents \cup {None} : y = seen
  BY <1>2 DEF After
<1>7. AllSee(y)'
  BY <1>4, <1>5, <1>6 DEF AllSee
<1> QED
  BY <1>7

\* Everybody who is level goes on seeing what they saw, in a step that neither
\* writes nor activates.
LEMMA LevelStillSees ==
    ASSUME MembersInv, NEW x, AllSee(x), [Next]_vars,
           \A u \in Users : ~CommitWrite(u) /\ ~Activate(u), NEW v \in Level'
    PROVE  Shown(copy'[v]) = x
<1>0. /\ TypeOK /\ Places /\ v \in Users /\ share' = "active" /\ member'[v] = "joined"
      /\ copy \in [Users -> Copy \cup {None}]
      /\ member \in [Users -> {"none", "invited", "joined", "finalizing", "left"}]
  BY DEF MembersInv, Typed, TypeOK, Level, LiveUnfrozen, Live
<1>1. CASE CommitJoin(v)
  <2>1. Shown(copy'[v]) = tx[v].source /\ share = "active" /\ Doing(v, {"join"})
    BY <1>0, <1>1, JoinTyped DEF CommitJoin
  <2> QED
    BY <1>0, <2>1 DEF AllSee
<1>2. CASE CommitThaw(v)
  <2>1. copy'[v] = CaughtUp(copy[v], tx[v].source)
    BY <1>0, <1>2, ThawTyped
  <2>2. UNCHANGED <<share, member>> /\ Doing(v, {"thaw"})
    BY <1>2 DEF CommitThaw
  <2> QED
    BY <1>0, <2>1, <2>2 DEF AllSee
<1>3. CASE ~CommitJoin(v) /\ ~CommitThaw(v)
  <2>1. v \in Level
    BY <1>3, LevelGrows, InitiatorIsAUser
  <2>2. Shown(copy[v]) = x /\ share = "active"
    BY <2>1 DEF AllSee, Level
  <2>3. ASSUME NEW u \in Users,
               \/ Starts(u) \/ RollBack(u) \/ CommitWithdraw(u) \/ CommitDeparture(u)
               \/ CreateShare(u) \/ CancelShare(u) \/ Decline(u)
               \/ (\E r \in Rooms[u] : SetRoom(u, r)) \/ (\E w \in Users : Invite(u, w))
        PROVE  UNCHANGED copy
    BY <2>3 DEF Starts, RollBack, CommitWithdraw, CommitDeparture, CreateShare, CancelShare,
                Decline, SetRoom, Invite
  <2>4. ASSUME NEW u \in Users, CommitJoin(u) \/ CommitThaw(u) PROVE copy'[v] = copy[v]
    BY <1>0, <1>3, <2>4 DEF CommitJoin, CommitThaw
  <2>5. ASSUME NEW u \in Users, Prepare(u) PROVE FALSE
    BY <2>2, <2>5 DEF Prepare
  <2>6. ASSUME NEW u \in Users, Finalize(u) PROVE copy'[v] = copy[v]
    <3>1. u # v
      BY <1>0, <2>6 DEF Finalize
    <3> QED
      BY <1>0, <2>6, <3>1 DEF Finalize
  <2>7. ASSUME UNCHANGED vars PROVE copy'[v] = copy[v]
    BY <2>7 DEF vars
  <2>8. copy'[v] = copy[v]
    BY <1>0, <2>3, <2>4, <2>5, <2>6, <2>7, StepKinds
  <2> QED
    BY <2>2, <2>8
<1> QED
  BY <1>1, <1>2, <1>3

\* The share becomes active by the activation and no other way.
LEMMA StaysActive ==
    ASSUME MembersInv, [Next]_vars, \A w \in Users : ~CommitWrite(w) /\ ~Activate(w),
           share' = "active"
    PROVE  share = "active"
<1>0. TypeOK /\ Places
  BY DEF MembersInv, Typed
<1>1. ASSUME NEW w \in Users,
             \/ Starts(w) \/ RollBack(w) \/ CommitWithdraw(w) \/ Prepare(w) \/ CommitJoin(w)
             \/ CommitThaw(w) \/ Decline(w) \/ Finalize(w)
             \/ (\E r \in Rooms[w] : SetRoom(w, r)) \/ (\E v \in Users : Invite(w, v))
      PROVE  UNCHANGED share
  BY <1>1 DEF Starts, RollBack, CommitWithdraw, Prepare, CommitJoin, CommitThaw, Decline,
              Finalize, SetRoom, Invite
<1>2. ASSUME NEW w \in Users, CreateShare(w) \/ CancelShare(w) PROVE share' # "active"
  BY <1>2 DEF CreateShare, CancelShare
<1>3. ASSUME NEW w \in Users, CommitDeparture(w) PROVE share' # "active" \/ share' = share
  BY <1>3 DEF CommitDeparture
<1>4. UNCHANGED vars => UNCHANGED share
  BY DEF vars
<1> QED
  BY <1>0, <1>1, <1>2, <1>3, <1>4, StepKinds

\* Whoever waits for a request to go on keeps their copy, and comes into the share
\* by no other way.
LEMMA CopyWaits ==
    ASSUME MembersInv, [Next]_vars, share = "active", \A w \in Users : ~CommitWrite(w),
           NEW u \in Users, tx[u] # None, tx'[u] = tx[u]
    PROVE  copy'[u] = copy[u] /\ (member'[u] = "joined" => member[u] = "joined")
<1>0. /\ TypeOK /\ Places
      /\ copy \in [Users -> Copy \cup {None}] /\ tx \in [Users -> Request \cup {None}]
      /\ member \in [Users -> {"none", "invited", "joined", "finalizing", "left"}]
  BY DEF MembersInv, Typed, TypeOK
<1>1. ASSUME NEW w \in Users,
             \/ Starts(w) \/ RollBack(w) \/ CommitWithdraw(w) \/ CommitDeparture(w)
             \/ CreateShare(w) \/ CancelShare(w) \/ Activate(w) \/ Decline(w)
             \/ (\E r \in Rooms[w] : SetRoom(w, r)) \/ (\E v \in Users : Invite(w, v))
      PROVE  UNCHANGED copy
  BY <1>1 DEF Starts, RollBack, CommitWithdraw, CommitDeparture, CreateShare, CancelShare,
              Activate, Decline, SetRoom, Invite
<1>2. ASSUME NEW w \in Users, CommitJoin(w) \/ CommitThaw(w) PROVE copy'[u] = copy[u]
  <2>1. tx'[w] = None
    BY <1>0, <1>2 DEF CommitJoin, CommitThaw, TypeOK
  <2>2. w # u
    BY <2>1
  <2> QED
    BY <1>0, <1>2, <2>2 DEF CommitJoin, CommitThaw
<1>3. ASSUME NEW w \in Users, Prepare(w) \/ Finalize(w) PROVE copy'[u] = copy[u]
  <2>1. w # u
    BY <1>3 DEF Prepare, Finalize
  <2> QED
    BY <1>0, <1>3, <2>1 DEF Prepare, Finalize
<1>4. UNCHANGED vars => UNCHANGED copy
  BY DEF vars
<1>5. copy'[u] = copy[u]
  BY <1>0, <1>1, <1>2, <1>3, <1>4, StepKinds
<1>6. member'[u] = "joined" => member[u] = "joined"
  <2>1. ASSUME NEW w \in Users,
               \/ Starts(w) \/ RollBack(w) \/ Prepare(w) \/ CommitThaw(w)
               \/ (\E r \in Rooms[w] : SetRoom(w, r))
        PROVE  UNCHANGED member
    BY <2>1 DEF Starts, RollBack, Prepare, CommitThaw, SetRoom
  <2>2. ASSUME NEW w \in Users,
               \/ CommitWithdraw(w) \/ CommitDeparture(w) \/ CancelShare(w) \/ Decline(w)
               \/ Finalize(w) \/ (\E v \in Users : Invite(w, v))
        PROVE  member'[u] = "joined" => member[u] = "joined"
    BY <1>0, <2>2 DEF CommitWithdraw, CommitDeparture, CancelShare, Decline, Finalize, Invite
  <2>3. ASSUME NEW w \in Users, CreateShare(w) \/ Activate(w) PROVE FALSE
    BY <2>3 DEF CreateShare, Activate
  <2>4. ASSUME NEW w \in Users, CommitJoin(w) PROVE member'[u] = member[u]
    <3>1. tx'[w] = None
      BY <1>0, <2>4 DEF CommitJoin
    <3>2. w # u
      BY <3>1
    <3> QED
      BY <1>0, <2>4, <3>2 DEF CommitJoin
  <2>5. UNCHANGED vars => UNCHANGED member
    BY DEF vars
  <2> QED
    BY <1>0, <2>1, <2>2, <2>3, <2>4, <2>5, StepKinds
<1> QED
  BY <1>5, <1>6

\* What a join or a catch-up under way has read is what is seen.
LEMMA ReadStillSeen ==
    ASSUME MembersInv, Careful, WritesApart, NEW x, AllSee(x), [Next]_vars,
           \A u \in Users : ~CommitWrite(u) /\ ~Activate(u), share' = "active", NEW u \in Users
    PROVE  /\ Doing(u, {"join"})' => tx'[u].source = x
           /\ Doing(u, {"thaw"})' /\ member'[u] = "joined"
                => Shown(CaughtUp(copy'[u], tx'[u].source)) = x
<1>0. /\ TypeOK /\ Places
      /\ copy \in [Users -> Copy \cup {None}]
      /\ member \in [Users -> {"none", "invited", "joined", "finalizing", "left"}]
  BY DEF MembersInv, Typed, TypeOK
<1>1. share = "active"
  BY StaysActive
<1>2. CASE Starts(u)
  <2>1. UNCHANGED <<share, member, copy>>
    BY <1>2 DEF Starts
  <2>2. CASE StartsJoin(u)
    <3>1. ~frozen[Initiator] /\ tx'[u].source = Shown(copy[Initiator])
      BY <2>2 DEF StartsJoin, Risk, Careful
    <3>2. Initiator \in Level
      BY <1>0, <1>1, <3>1, InitiatorIsAUser DEF Level, LiveUnfrozen, Live, Places
    <3> QED
      BY <2>2, <3>1, <3>2 DEF StartsJoin, AllSee, Doing
  <2>3. CASE StartsThaw(u)
    <3>1. SUFFICES ASSUME member[u] = "joined"
                   PROVE  Shown(CaughtUp(copy'[u], tx'[u].source)) = x
      BY <2>1, <2>3 DEF StartsThaw, Doing
    <3>2. PICK s \in Sources(u) : tx'[u].source = copy[s] /\ ~(copy[s] = None /\ copy[u] # None)
      BY <1>1, <2>3, <3>1 DEF StartsThaw, Risk, Careful
    <3>3. s \in Level /\ s \in Users
      BY <1>1, InitiatorIsAUser DEF Sources, Level, LiveUnfrozen, Live
    <3>4. Shown(CaughtUp(copy[u], copy[s])) = Shown(copy[s])
      BY <1>0, <3>2, <3>3, CaughtUpType
    <3> QED
      BY <2>1, <3>2, <3>3, <3>4 DEF AllSee
  <2>4. CASE StartsWrite(u) \/ StartsDeparture(u)
    BY <2>4 DEF StartsWrite, StartsDeparture, Doing, WriteOps
  <2> QED
    BY <1>2, <2>2, <2>3, <2>4 DEF Starts
<1>3. CASE tx'[u] = tx[u] /\ tx[u] # None /\ tx[u].op = "join"
  BY <1>1, <1>3 DEF AllSee, Doing
<1>4. CASE tx'[u] = tx[u] /\ tx[u] # None /\ tx[u].op = "thaw"
  <2>1. copy'[u] = copy[u] /\ (member'[u] = "joined" => member[u] = "joined")
    BY <1>1, <1>4, CopyWaits
  <2> QED
    BY <1>1, <1>4, <2>1 DEF AllSee, Doing
<1>5. CASE tx'[u] = None \/ (tx'[u] = tx[u] /\ tx[u].op \notin {"join", "thaw"})
  BY <1>5 DEF Doing
<1> QED
  BY <1>2, <1>3, <1>4, <1>5, RequestsStay

LEMMA OneViewStays ==
    ASSUME MembersInv, Careful, LevelInv, [Next]_vars
    PROVE  OneView'
<1>0. /\ TypeOK /\ Places /\ TargetsStay /\ Initiator \in Users
      /\ WritesApart /\ WritesReach /\ copy \in [Users -> Copy \cup {None}]
      /\ member \in [Users -> {"none", "invited", "joined", "finalizing", "left"}]
  BY InitiatorIsAUser DEF MembersInv, Typed, TypeOK, LevelInv
<1>1. PICK x \in Contents \cup {None} : AllSee(x)
  BY DEF LevelInv, OneView
<1>2. CASE share' # "active"
  <2>1. AllSee(None)'
    BY <1>2 DEF AllSee, Level
  <2> QED
    BY <2>1 DEF OneView
<1>3. ASSUME NEW u \in Users, CommitWrite(u), share' = "active"
      PROVE  OneView'
  <2>1. share = "active"
    BY <1>3 DEF CommitWrite
  <2>2. \E y \in Contents \cup {None} : AllSee(y)'
    BY <1>0, <1>1, <1>3, <2>1, WriteShows
  <2> QED
    BY <2>2 DEF OneView
<1>4. ASSUME NEW u \in Users, Activate(u)
      PROVE  OneView'
  <2>1. /\ u = Initiator /\ tx[Initiator] = None /\ share = "preparing" /\ Unshared
        /\ UNCHANGED <<member, copy, tx>>
    BY <1>4 DEF Activate, Unshared
  <2>2. \A v \in Users : member[v] = "joined" => v = Initiator
    BY <1>0, <2>1 DEF Places
  <2>3. PICK y \in Contents \cup {None} : y = Shown(copy[Initiator])
    BY <1>0 DEF Shown, Copy
  <2>4. \A v \in Level' : Shown(copy'[v]) = y
    BY <2>1, <2>2, <2>3 DEF Level, LiveUnfrozen, Live
  <2>5. \A v \in Users : ~Doing(v, {"join"})' /\ ~(Doing(v, {"thaw"})' /\ member'[v] = "joined")
    BY <1>0, <2>1, <2>2 DEF TargetsStay, Doing
  <2>6. AllSee(y)'
    BY <2>4, <2>5 DEF AllSee
  <2> QED
    BY <2>6 DEF OneView
<1>5. ASSUME \A u \in Users : ~CommitWrite(u) /\ ~Activate(u), share' = "active"
      PROVE  OneView'
  <2>1. \A v \in Level' : Shown(copy'[v]) = x
    BY <1>1, <1>5, LevelStillSees
  <2>2. ASSUME NEW u \in Users
        PROVE  /\ Doing(u, {"join"})' => tx'[u].source = x
               /\ Doing(u, {"thaw"})' /\ member'[u] = "joined"
                    => Shown(CaughtUp(copy'[u], tx'[u].source)) = x
    BY <1>0, <1>1, <1>5, ReadStillSeen
  <2>3. AllSee(x)'
    BY <2>1, <2>2 DEF AllSee
  <2> QED
    BY <2>3 DEF OneView
<1> QED
  BY <1>2, <1>3, <1>4, <1>5

LEMMA LevelStart == Init => LevelInv
<1> SUFFICES ASSUME Init PROVE LevelInv
  OBVIOUS
<1>1. \A u \in Users : tx[u] = None
  BY DEF Init
<1>2. WritesApart /\ WritesReach
  BY <1>1 DEF WritesApart, WritesReach, Doing
<1>3. AllSee(None)
  BY DEF AllSee, Level, Init
<1> QED
  BY <1>2, <1>3 DEF LevelInv, OneView

LEMMA LevelHolds ==
    ASSUME Careful
    PROVE  Spec => []LevelInv
<1>1. MembersInv /\ LevelInv /\ [Next]_vars => LevelInv'
  BY WritesStayApart, WritesStillReach, OneViewStays DEF LevelInv
<1> QED
  BY <1>1, MembersHold, LevelStart, PTL DEF Spec

\* Where nobody joins or catches up beside a write, or from what is not level,
\* whoever is in the share, has room and has nothing to catch up with sees the
\* same file as everybody else (propagate.ts, membership.ts).
THEOREM LevelCopiesAgree ==
    ASSUME Careful
    PROVE  Spec => []CopiesAgree
<1>1. LevelInv => CopiesAgree
  BY DEF LevelInv, OneView, AllSee, CopiesAgree
<1> QED
  BY <1>1, LevelHolds, PTL

-----------------------------------------------------------------------------
(* What the record of a copy is of.                                        *)

\* The write that version e is of, among the writes W of the file: the last of
\* them that is not later.
Of(W, e, w) == w \in W /\ w <= e.at[1] /\ \A x \in W : x <= w \/ e.at[1] < x

\* Every version of h is of a write and has what that write brought, K[w]; a
\* version that is not the head of a join is that write itself.
Told(h, W, K, n) ==
  \A i \in DOMAIN h :
    /\ h[i].at[1] <= n
    /\ h[i].at[2] = None => h[i].at[1] \in W
    /\ \E w \in W : Of(W, h[i], w) /\ h[i].content = K[w]

\* A version of the first write is among them.
Early(h, W) == \E i \in DOMAIN h : \E w \in W : Of(W, h[i], w) /\ \A x \in W : w <= x

\* After a version come versions of all the writes after its own, in whatever
\* order: of those that there are, or of those that h knows of.
Whole(h, W) ==
  \A i \in DOMAIN h : \A v, w \in W :
    Of(W, h[i], v) /\ v < w => \E j \in DOMAIN h : i < j /\ Of(W, h[j], w)

SoFar(h, W) ==
  \A i, k \in DOMAIN h : \A v, w, x \in W :
    Of(W, h[i], v) /\ Of(W, h[k], x) /\ v < w /\ w <= x
      => \E j \in DOMAIN h : i < j /\ Of(W, h[j], w)

\* The last write brought c.
Newest(c, W, K) == \A w \in W : (\A x \in W : x <= w) => K[w] = c

LEMMA EntryParts ==
    ASSUME NEW e \in Entry
    PROVE  e.at[1] \in 0..MaxWrites /\ e.at = <<e.at[1], e.at[2]>> /\ e.content \in Contents
BY DEF Entry

LEMMA OfOne ==
    ASSUME NEW W \in SUBSET (1..MaxWrites), NEW e \in Entry, NEW v, NEW w,
           Of(W, e, v), Of(W, e, w)
    PROVE  v = w
<1>1. e.at[1] \in Nat
  BY EntryParts, BoundsAreNaturals
<1>2. v \in Nat /\ w \in Nat
  BY BoundsAreNaturals DEF Of
<1> QED
  BY <1>1, <1>2 DEF Of

\* What is whole is whole so far.
LEMMA WholeSoFar ==
    ASSUME NEW h, NEW W, Whole(h, W)
    PROVE  SoFar(h, W)
BY DEF Whole, SoFar

\* A write that comes is the last of the writes, and the versions there are stay
\* of the writes they were of.
LEMMA OfMore ==
    ASSUME NEW n \in Nat, n < MaxWrites, NEW W \in SUBSET (1..MaxWrites), \A w \in W : w <= n
    PROVE  /\ \A e \in Entry : e.at[1] <= n =>
                \A w : Of(W \cup {n + 1}, e, w) <=> Of(W, e, w)
           /\ \A e \in Entry : e.at[1] = n + 1 =>
                \A w : Of(W \cup {n + 1}, e, w) <=> w = n + 1
<1>0. W \subseteq Nat /\ MaxWrites \in Nat
  BY BoundsAreNaturals
<1>1. ASSUME NEW e \in Entry, e.at[1] <= n, NEW w
      PROVE  Of(W \cup {n + 1}, e, w) <=> Of(W, e, w)
  <2>1. e.at[1] \in Nat
    BY <1>0, EntryParts
  <2> DEFINE a == e.at[1]
  <2>2. a \in Nat /\ a <= n /\ a < n + 1 /\ ~(n + 1 <= a)
    BY <1>1, <2>1
  <2> HIDE DEF a
  <2>3. Of(W, e, w) <=> w \in W /\ w <= a /\ \A x \in W : x <= w \/ a < x
    BY DEF Of, a
  <2>4. Of(W \cup {n + 1}, e, w) <=>
          /\ w \in W \cup {n + 1} /\ w <= a
          /\ \A x \in W \cup {n + 1} : x <= w \/ a < x
    BY DEF Of, a
  <2> QED
    BY <2>2, <2>3, <2>4
<1>2. ASSUME NEW e \in Entry, e.at[1] = n + 1, NEW w
      PROVE  Of(W \cup {n + 1}, e, w) <=> w = n + 1
  <2> DEFINE m == n + 1
  <2>1. m \in Nat /\ m <= m /\ ~(m < m) /\ \A x \in W : x <= m /\ ~(m <= x)
    BY <1>0
  <2> HIDE DEF m
  <2>2. Of(W \cup {m}, e, w) <=>
          /\ w \in W \cup {m} /\ w <= m
          /\ \A x \in W \cup {m} : x <= w \/ m < x
    BY <1>2 DEF Of, m
  <2>3. Of(W \cup {m}, e, w) <=> w = m
    BY <2>1, <2>2
  <2> QED
    BY <2>3 DEF m
<1> QED
  BY <1>1, <1>2

\* What a history was of it stays of, when a write comes that it has not.
LEMMA ToldMore ==
    ASSUME NEW n \in Nat, n < MaxWrites, NEW W \in SUBSET (1..MaxWrites), \A w \in W : w <= n,
           NEW K \in [1..MaxWrites -> Contents \cup {None}], NEW c \in Contents,
           NEW h \in Seq(Entry), Told(h, W, K, n), Early(h, W)
    PROVE  /\ Told(h, W \cup {n + 1}, [K EXCEPT ![n + 1] = c], n + 1)
           /\ Early(h, W \cup {n + 1})
           /\ SoFar(h, W) => SoFar(h, W \cup {n + 1})
<1> DEFINE M == W \cup {n + 1}
           L == [K EXCEPT ![n + 1] = c]
<1>0. W \subseteq Nat /\ MaxWrites \in Nat /\ \A w \in W : w < n + 1 /\ w # n + 1 /\ L[w] = K[w]
  BY BoundsAreNaturals
<1>1. \A i \in DOMAIN h : h[i] \in Entry /\ h[i].at[1] \in Nat /\ h[i].at[1] <= n
  BY <1>0, EntryParts, ElementOfSeq DEF Told
<1>2. \A i \in DOMAIN h : \A w : Of(M, h[i], w) <=> Of(W, h[i], w)
  BY <1>1, OfMore
<1>3. \A w \in W : w \in M
  OBVIOUS
<1>4. \A i \in DOMAIN h : \A w : Of(M, h[i], w) => w \in W
  BY <1>2 DEF Of
<1>5. \A x \in M : x \in W \/ x = n + 1
  OBVIOUS
<1> HIDE DEF M, L
<1>6. Told(h, M, L, n + 1)
  <2> SUFFICES ASSUME NEW i \in DOMAIN h
               PROVE  /\ h[i].at[1] <= n + 1
                      /\ h[i].at[2] = None => h[i].at[1] \in M
                      /\ \E w \in M : Of(M, h[i], w) /\ h[i].content = L[w]
    BY DEF Told
  <2>1. PICK w \in W : Of(W, h[i], w) /\ h[i].content = K[w]
    BY DEF Told
  <2> QED
    BY <1>0, <1>1, <1>2, <1>3, <2>1 DEF Told
<1>7. Early(h, M)
  <2>1. PICK i \in DOMAIN h : \E w \in W : Of(W, h[i], w) /\ \A x \in W : w <= x
    BY DEF Early
  <2>2. PICK w \in W : Of(W, h[i], w) /\ \A x \in W : w <= x
    BY <2>1
  <2>3. w \in Nat /\ w <= n + 1
    BY <1>0, <2>2
  <2>4. \A x \in M : w <= x
    BY <1>5, <2>2, <2>3
  <2> QED
    BY <1>2, <1>3, <2>2, <2>4 DEF Early
<1>8. ASSUME SoFar(h, W) PROVE SoFar(h, M)
  <2> SUFFICES ASSUME NEW i \in DOMAIN h, NEW k \in DOMAIN h, NEW v \in M, NEW w \in M, NEW x \in M,
                      Of(M, h[i], v), Of(M, h[k], x), v < w, w <= x
               PROVE  \E j \in DOMAIN h : i < j /\ Of(M, h[j], w)
    BY DEF SoFar
  <2>1. v \in W /\ x \in W /\ Of(W, h[i], v) /\ Of(W, h[k], x)
    BY <1>2, <1>4
  <2>2. w \in W
    BY <1>0, <1>5, <2>1
  <2>3. \E j \in DOMAIN h : i < j /\ Of(W, h[j], w)
    BY <1>8, <2>1, <2>2 DEF SoFar
  <2> QED
    BY <1>2, <2>3
<1> QED
  BY <1>6, <1>7, <1>8 DEF M, L

\* And what gets a version of it is as whole as it was.
LEMMA ToldWritten ==
    ASSUME NEW n \in Nat, n < MaxWrites, NEW W \in SUBSET (1..MaxWrites), \A w \in W : w <= n,
           NEW K \in [1..MaxWrites -> Contents \cup {None}],
           NEW h \in Seq(Entry), Told(h, W, K, n), Early(h, W), Whole(h, W),
           NEW e \in Entry, e.at[1] = n + 1
    PROVE  LET M == W \cup {n + 1}
               L == [K EXCEPT ![n + 1] = e.content]
           IN /\ Told(Append(h, e), M, L, n + 1)
              /\ Early(Append(h, e), M)
              /\ Whole(Append(h, e), M)
<1> DEFINE M == W \cup {n + 1}
           L == [K EXCEPT ![n + 1] = e.content]
           last == Len(h) + 1
           g == Append(h, e)
<1>0. /\ MaxWrites \in Nat /\ Len(h) \in Nat /\ DOMAIN h = 1..Len(h)
      /\ W \subseteq Nat /\ L[n + 1] = e.content /\ n + 1 \in M
  BY BoundsAreNaturals, LenProperties
<1>1. /\ DOMAIN g = 1..last /\ g[last] = e
      /\ \A i \in DOMAIN h : g[i] = h[i] /\ i \in DOMAIN g /\ i < last
  <2>1. /\ g \in Seq(Entry) /\ Len(g) = Len(h) + 1
        /\ \A i \in 1..Len(h) : g[i] = h[i]
        /\ g[Len(h) + 1] = e
    BY AppendProperties
  <2>2. DOMAIN g = 1..Len(g)
    BY <2>1, LenProperties
  <2> HIDE DEF g
  <2>3. DOMAIN g = 1..last /\ g[last] = e /\ last \in Nat
    <3>1. last \in Nat /\ Len(g) = last
      BY <1>0, <2>1
    <3>2. DOMAIN g = 1..last
      BY <2>2, <3>1
    <3>3. g[last] = e
      BY <2>1
    <3> QED
      BY <3>1, <3>2, <3>3
  <2>4. ASSUME NEW i \in 1..Len(h) PROVE i \in 1..last /\ i < last
    BY <1>0, <2>4
  <2> QED
    BY <1>0, <2>1, <2>3, <2>4
<1>2. last \in DOMAIN g /\ \A i \in DOMAIN g : i \in DOMAIN h \/ i = last
  BY <1>0, <1>1
<1> HIDE DEF g, last
<1>3. /\ Told(h, M, L, n + 1) /\ Early(h, M)
  BY ToldMore, EntryParts, ZenonT(40)
<1>4. \A w : Of(M, e, w) <=> w = n + 1
  BY OfMore
<1>5. \A i \in DOMAIN h : \A w : Of(M, h[i], w) <=> Of(W, h[i], w)
  <2>1. \A i \in DOMAIN h : h[i] \in Entry /\ h[i].at[1] <= n
    BY ElementOfSeq, <1>0 DEF Told
  <2> QED
    BY <2>1, OfMore
<1>6. \A x \in M : x \in W \/ x = n + 1
  OBVIOUS
<1>10. ASSUME NEW x \in M PROVE x \in Nat /\ x <= n + 1
  <2>1. CASE x \in W
    BY <1>0, <2>1
  <2>2. CASE x = n + 1
    BY <2>2
  <2> QED
    BY <2>1, <2>2
<1> HIDE DEF M, L
<1>7. Told(g, M, L, n + 1)
  <2> SUFFICES ASSUME NEW i \in DOMAIN g
               PROVE  /\ g[i].at[1] <= n + 1
                      /\ g[i].at[2] = None => g[i].at[1] \in M
                      /\ \E w \in M : Of(M, g[i], w) /\ g[i].content = L[w]
    BY DEF Told
  <2>1. CASE i \in DOMAIN h
    BY <1>1, <1>3, <2>1 DEF Told
  <2>2. CASE i = last
    BY <1>0, <1>1, <1>4, <2>2
  <2> QED
    BY <1>2, <2>1, <2>2
<1>8. Early(g, M)
  BY <1>1, <1>3 DEF Early
<1>9. Whole(g, M)
  <2> SUFFICES ASSUME NEW i \in DOMAIN g, NEW v \in M, NEW w \in M, Of(M, g[i], v), v < w
               PROVE  \E j \in DOMAIN g : i < j /\ Of(M, g[j], w)
    BY DEF Whole
  <2>1. CASE i = last
    <3>1. v = n + 1
      BY <1>1, <1>4, <2>1
    <3>2. w \in Nat /\ w <= n + 1
      BY <1>10
    <3> QED
      BY <3>1, <3>2
  <2>2. CASE i \in DOMAIN h /\ w = n + 1
    BY <1>1, <1>2, <1>4, <2>2
  <2>3. CASE i \in DOMAIN h /\ w \in W
    <3>1. Of(W, h[i], v)
      BY <1>1, <1>5, <2>3
    <3>2. v \in W
      BY <3>1 DEF Of
    <3>3. PICK j \in DOMAIN h : i < j /\ Of(W, h[j], w)
      BY <2>3, <3>1, <3>2 DEF Whole
    <3> QED
      BY <1>1, <1>5, <3>3
  <2> QED
    BY <1>2, <1>6, <2>1, <2>2, <2>3
<1> QED
  BY <1>7, <1>8, <1>9 DEF M, L, g

\* The first version of a file.
LEMMA ToldFirst ==
    ASSUME NEW n \in Nat, n < MaxWrites,
           NEW K \in [1..MaxWrites -> Contents \cup {None}],
           NEW e \in Entry, e.at[1] = n + 1
    PROVE  LET h == Append(<<>>, e)
               L == [K EXCEPT ![n + 1] = e.content]
           IN Told(h, {n + 1}, L, n + 1) /\ Early(h, {n + 1}) /\ Whole(h, {n + 1})
<1> DEFINE h == Append(<<>>, e)
           L == [K EXCEPT ![n + 1] = e.content]
<1>0. MaxWrites \in Nat /\ L[n + 1] = e.content
  BY BoundsAreNaturals
<1>1. DOMAIN h = 1..1 /\ 1 \in DOMAIN h /\ h[1] = e /\ \A i \in DOMAIN h : h[i] = e
  OBVIOUS
<1>2. \A w : Of({n + 1}, e, w) <=> w = n + 1
  <2>1. \A w : Of({} \cup {n + 1}, e, w) <=> w = n + 1
    BY OfMore
  <2>2. {} \cup {n + 1} = {n + 1}
    OBVIOUS
  <2> QED
    BY <2>1, <2>2
<1> HIDE DEF h, L
<1>3. Told(h, {n + 1}, L, n + 1)
  <2>1. Of({n + 1}, e, n + 1) /\ e.at[1] <= n + 1 /\ n + 1 \in {n + 1}
    BY <1>2
  <2> QED
    BY <1>0, <1>1, <2>1 DEF Told
<1>4. Early(h, {n + 1})
  <2>1. Of({n + 1}, e, n + 1)
    BY <1>2
  <2>2. Of({n + 1}, h[1], n + 1)
    BY <1>1, <2>1
  <2>3. \A x \in {n + 1} : n + 1 <= x
    OBVIOUS
  <2> QED
    BY <1>1, <2>2, <2>3 DEF Early
<1>5. Whole(h, {n + 1})
  BY DEF Whole
<1> QED
  BY <1>3, <1>4, <1>5 DEF h, L

\* The last write there is brought what it brought.
LEMMA NewestWritten ==
    ASSUME NEW n \in Nat, n < MaxWrites, NEW W \in SUBSET (1..MaxWrites), \A w \in W : w <= n,
           NEW K \in [1..MaxWrites -> Contents \cup {None}], NEW c \in Contents
    PROVE  Newest(c, W \cup {n + 1}, [K EXCEPT ![n + 1] = c])
<1>1. MaxWrites \in Nat /\ W \subseteq Nat /\ \A w \in W : ~(n + 1 <= w)
  BY BoundsAreNaturals
<1>2. [K EXCEPT ![n + 1] = c][n + 1] = c
  BY <1>1
<1> QED
  BY <1>1, <1>2 DEF Newest

\* The record of somebody who joins is as whole as the one it was taken from: its
\* head stands for the version that is replaced.
LEMMA ToldJoined ==
    ASSUME NEW n \in Nat, n <= MaxWrites, NEW W \in SUBSET (1..MaxWrites), \A w \in W : w <= n,
           NEW K \in [1..MaxWrites -> Contents \cup {None}],
           NEW past \in Seq(Entry), past # <<>>,
           Told(past, W, K, n), Early(past, W), Whole(past, W),
           NEW head \in Entry, head.at[1] = n, head.at[2] # None, Newest(head.content, W, K)
    PROVE  LET h == Front(past) \o <<head>>
           IN Told(h, W, K, n) /\ Early(h, W) /\ Whole(h, W)
<1> DEFINE m == Len(past)
           h == Front(past) \o <<head>>
<1>0. /\ MaxWrites \in Nat /\ m \in Nat \ {0} /\ DOMAIN past = 1..m /\ W \subseteq Nat
  BY BoundsAreNaturals, EmptySeq, LenProperties
<1>1. /\ DOMAIN h = 1..m /\ h[m] = head
      /\ \A i \in 1..(m - 1) : h[i] = past[i]
  <2>1. /\ Front(past) \in Seq(Entry) /\ Len(Front(past)) = m - 1
        /\ \A i \in 1..(m - 1) : Front(past)[i] = past[i]
    BY <1>0, SubSeqProperties DEF Front
  <2>2. /\ <<head>> \in Seq(Entry) /\ Len(<<head>>) = 1 /\ <<head>>[1] = head
    OBVIOUS
  <2> HIDE DEF m
  <2>3. /\ h \in Seq(Entry) /\ Len(h) = Len(Front(past)) + Len(<<head>>)
        /\ \A i \in 1..Len(Front(past)) : h[i] = Front(past)[i]
        /\ \A i \in 1..Len(<<head>>) : h[Len(Front(past)) + i] = <<head>>[i]
    BY <2>1, <2>2, ConcatProperties
  <2>4. DOMAIN h = 1..Len(h)
    BY <2>3, LenProperties
  <2> HIDE DEF h
  <2>5. Len(h) = m /\ 1 \in 1..Len(<<head>>) /\ Len(Front(past)) + 1 = m
    BY <1>0, <2>1, <2>2, <2>3
  <2>6. h[m] = head
    BY <2>2, <2>3, <2>5
  <2> QED
    BY <2>1, <2>3, <2>4, <2>5, <2>6
<1> HIDE DEF m, h
<1>2. m \in DOMAIN past /\ \A i \in DOMAIN h : i = m \/ (i \in 1..(m - 1) /\ i < m)
  BY <1>0, <1>1
<1>3. \A i \in 1..m : past[i] \in Entry
  BY <1>0, ElementOfSeq DEF m
<1>4. PICK z \in W : Of(W, past[m], z)
  BY <1>2 DEF Told
<1>5. ASSUME NEW x \in W PROVE x \in Nat /\ x <= z
  <2>1. ~(z < x)
    <3>1. ASSUME z < x PROVE FALSE
      <4>1. PICK j \in DOMAIN past : m < j /\ Of(W, past[j], x)
        BY <1>2, <1>4, <3>1 DEF Whole
      <4> QED
        BY <1>0, <4>1
    <3> QED
      BY <3>1
  <2> QED
    BY <1>0, <2>1
<1>6. Of(W, head, z) /\ K[z] = head.content
  <2>1. z <= n
    OBVIOUS
  <2> QED
    BY <1>5, <2>1 DEF Of, Newest
<1>7. \A w : Of(W, past[m], w) => w = z
  BY <1>2, <1>3, <1>4, OfOne, <1>0
<1>8. Told(h, W, K, n)
  <2> SUFFICES ASSUME NEW i \in DOMAIN h
               PROVE  /\ h[i].at[1] <= n
                      /\ h[i].at[2] = None => h[i].at[1] \in W
                      /\ \E w \in W : Of(W, h[i], w) /\ h[i].content = K[w]
    BY DEF Told
  <2>1. CASE i = m
    BY <1>1, <1>6, <2>1
  <2>2. CASE i \in 1..(m - 1)
    <3>1. i \in DOMAIN past /\ h[i] = past[i]
      BY <1>0, <1>1, <2>2
    <3> QED
      BY <3>1 DEF Told
  <2> QED
    BY <1>2, <2>1, <2>2
<1>9. Early(h, W)
  <2>1. PICK i \in DOMAIN past : \E w \in W : Of(W, past[i], w) /\ \A x \in W : w <= x
    BY DEF Early
  <2>2. PICK w \in W : Of(W, past[i], w) /\ \A x \in W : w <= x
    BY <2>1
  <2>3. CASE i = m
    <3>1. m \in DOMAIN h /\ Of(W, h[m], w)
      BY <1>0, <1>1, <1>6, <1>7, <2>2, <2>3
    <3> QED
      BY <2>2, <3>1 DEF Early
  <2>4. CASE i # m
    <3>1. i \in DOMAIN h /\ h[i] = past[i]
      BY <1>0, <1>1, <2>4
    <3> QED
      BY <2>2, <3>1 DEF Early
  <2> QED
    BY <2>3, <2>4
<1>10. Whole(h, W)
  <2> SUFFICES ASSUME NEW i \in DOMAIN h, NEW v \in W, NEW w \in W, Of(W, h[i], v), v < w
               PROVE  \E j \in DOMAIN h : i < j /\ Of(W, h[j], w)
    BY DEF Whole
  <2>1. CASE i = m
    <3>1. v = z
      BY <1>1, <1>6, <2>1, OfOne
    <3>2. w \in Nat /\ w <= z /\ z \in Nat
      BY <1>5
    <3> QED
      BY <3>1, <3>2
  <2>2. CASE i \in 1..(m - 1)
    <3>1. i \in DOMAIN past /\ h[i] = past[i] /\ i < m
      BY <1>0, <1>1, <2>2
    <3>2. PICK j \in DOMAIN past : i < j /\ Of(W, past[j], w)
      BY <3>1 DEF Whole
    <3>3. CASE j = m
      BY <1>0, <1>1, <1>6, <1>7, <3>1, <3>2, <3>3
    <3>4. CASE j # m
      <4>1. j \in DOMAIN h /\ h[j] = past[j]
        BY <1>0, <1>1, <3>4
      <4> QED
        BY <3>2, <4>1
    <3> QED
      BY <3>3, <3>4
  <2> QED
    BY <1>2, <2>1, <2>2
<1> QED
  BY <1>8, <1>9, <1>10 DEF h

\* What a catch-up adds: all that comes in theirs after place r, where it is
\* nothing or a version that mine has.
LEMMA OwedParts ==
    ASSUME NEW mine \in Seq(Entry), NEW theirs \in Seq(Entry)
    PROVE  \E r \in 0..Len(theirs) :
             /\ r # 0 => \E p \in DOMAIN mine : /\ mine[p].at = theirs[r].at
                                                /\ mine[p].content = theirs[r].content
             /\ DOMAIN (mine \o Owed(mine, theirs)) = 1..(Len(mine) + (Len(theirs) - r))
             /\ \A i \in 1..Len(mine) : (mine \o Owed(mine, theirs))[i] = mine[i]
             /\ \A k \in (r + 1)..Len(theirs) :
                  (mine \o Owed(mine, theirs))[Len(mine) + (k - r)] = theirs[k]
<1> DEFINE has(i) == \E e \in Range(mine) : e.at = theirs[i].at /\ e.content = theirs[i].content
           reached == {i \in DOMAIN theirs : has(i)}
           r == IF reached = {} THEN 0 ELSE CHOOSE i \in reached : \A j \in reached : j <= i
           l == Len(theirs)
           m == Len(mine)
           o == Owed(mine, theirs)
           h == mine \o o
<1>1. l \in Nat /\ DOMAIN theirs = 1..l /\ m \in Nat
  BY LenProperties
<1>2. r \in 0..l /\ (r # 0 => r \in reached)
  <2>1. CASE reached = {}
    BY <1>1, <2>1
  <2>2. CASE reached # {}
    <3>1. reached \in SUBSET (1..l)
      BY <1>1
    <3> HIDE DEF reached, l
    <3>2. \E i \in reached : \A j \in reached : j <= i
      BY <1>1, <2>2, <3>1, LastPlace
    <3>3. r \in reached
      BY <2>2, <3>2
    <3>4. r \in 1..l
      BY <3>1, <3>3
    <3> HIDE DEF r
    <3> QED
      BY <1>1, <3>3, <3>4
  <2> QED
    BY <2>1, <2>2
<1>3. o = SubSeq(theirs, 1 + r, l)
  BY DEF Owed
<1>4. r # 0 => has(r)
  BY <1>2
<1> HIDE DEF r
<1>5. r # 0 => \E p \in DOMAIN mine : /\ mine[p].at = theirs[r].at
                                      /\ mine[p].content = theirs[r].content
  BY <1>4 DEF Range
<1> HIDE DEF has, reached
<1>6. /\ o \in Seq(Entry) /\ Len(o) = l - r
      /\ \A i \in 1..(l - r) : o[i] = theirs[r + i]
  <2>1. r \in Nat /\ r <= l /\ 1 + r \in 1..(l + 1)
    BY <1>1, <1>2
  <2> HIDE DEF o
  <2>2. /\ o \in Seq(Entry) /\ Len(o) = IF 1 + r <= l THEN l - (1 + r) + 1 ELSE 0
        /\ \A i \in 1..(l - (1 + r) + 1) : o[i] = theirs[(1 + r) + i - 1]
    <3>1. PICK a : a = 1 + r
      OBVIOUS
    <3>2. theirs \in Seq(Entry) /\ a \in 1..(Len(theirs) + 1) /\ l = Len(theirs) /\ l \in 0..Len(theirs)
      BY <1>1, <2>1, <3>1
    <3>3. o = SubSeq(theirs, a, l)
      BY <1>3, <3>1
    <3> HIDE DEF l
    <3>4. /\ o \in Seq(Entry) /\ Len(o) = IF a <= l THEN l - a + 1 ELSE 0
          /\ \A i \in 1..(l - a + 1) : o[i] = theirs[a + i - 1]
      BY ONLY <3>2, <3>3, SubSeqProperties
    <3> QED BY <3>1, <3>4
  <2> HIDE DEF l
  <2>3. Len(o) = l - r
    BY <1>1, <2>1, <2>2
  <2>4. ASSUME NEW i \in 1..(l - r) PROVE o[i] = theirs[r + i]
    <3>1. i \in 1..(l - (1 + r) + 1) /\ (1 + r) + i - 1 = r + i
      BY <1>1, <2>1
    <3>2. o[i] = theirs[(1 + r) + i - 1]
      BY <2>2, <3>1
    <3> QED
      BY <3>1, <3>2
  <2> QED
    BY <2>2, <2>3, <2>4
<1> HIDE DEF o, l
<1>7. /\ h \in Seq(Entry) /\ Len(h) = m + Len(o)
      /\ \A i \in 1..m : h[i] = mine[i]
      /\ \A i \in 1..Len(o) : h[m + i] = o[i]
  <2>1. /\ h \in Seq(Entry) /\ Len(h) = m + Len(o)
        /\ \A i \in 1..(m + Len(o)) : h[i] = IF i <= m THEN mine[i] ELSE o[i - m]
    BY <1>6, ConcatProperties
  <2>2. Len(o) \in Nat
    BY <1>6, LenProperties
  <2> HIDE DEF h, m
  <2>3. ASSUME NEW i \in 1..m PROVE h[i] = mine[i]
    <3>1. i \in 1..(m + Len(o)) /\ i <= m
      BY <1>1, <2>2
    <3> QED
      BY <2>1, <3>1
  <2>4. ASSUME NEW i \in 1..Len(o) PROVE h[m + i] = o[i]
    <3>1. m + i \in 1..(m + Len(o)) /\ ~(m + i <= m) /\ (m + i) - m = i
      BY <1>1, <2>2
    <3> QED
      BY <2>1, <3>1
  <2> QED
    BY <2>1, <2>3, <2>4
<1> HIDE DEF m
<1>8. DOMAIN h = 1..(m + (l - r))
  <2>1. DOMAIN h = 1..Len(h)
    BY <1>7, LenProperties
  <2> QED
    BY <1>6, <1>7, <2>1
<1> HIDE DEF h
<1>9. ASSUME NEW k \in (r + 1)..l PROVE h[m + (k - r)] = theirs[k]
  <2>1. k - r \in 1..(l - r) /\ r + (k - r) = k
    BY <1>1, <1>2
  <2> DEFINE i == k - r
  <2> HIDE DEF i
  <2>2. i \in 1..(l - r) /\ r + i = k
    BY <2>1 DEF i
  <2>3. h[m + i] = o[i] /\ o[i] = theirs[r + i]
    BY <1>6, <1>7, <2>2
  <2> QED
    BY <2>2, <2>3 DEF i
<1> QED
  BY <1>2, <1>5, <1>7, <1>8, <1>9 DEF h, l, m, o

\* A catch-up from a whole record leaves a whole record of one that was whole so
\* far: what it does not add had come after what is there already.
LEMMA ToldCaughtUp ==
    ASSUME NEW n \in Nat, NEW W \in SUBSET (1..MaxWrites),
           NEW K \in [1..MaxWrites -> Contents \cup {None}],
           NEW mine \in Seq(Entry), NEW theirs \in Seq(Entry),
           Told(mine, W, K, n), Early(mine, W), SoFar(mine, W),
           Told(theirs, W, K, n), Early(theirs, W), Whole(theirs, W)
    PROVE  LET h == mine \o Owed(mine, theirs)
           IN Told(h, W, K, n) /\ Early(h, W) /\ Whole(h, W)
<1> DEFINE h == mine \o Owed(mine, theirs)
           l == Len(theirs)
           m == Len(mine)
<1>0. /\ MaxWrites \in Nat /\ W \subseteq Nat
      /\ l \in Nat /\ DOMAIN theirs = 1..l
      /\ m \in Nat /\ DOMAIN mine = 1..m
  BY BoundsAreNaturals, LenProperties
<1>1. PICK r \in 0..l :
         /\ r # 0 => \E p \in DOMAIN mine : /\ mine[p].at = theirs[r].at
                                            /\ mine[p].content = theirs[r].content
         /\ DOMAIN h = 1..(m + (l - r))
         /\ \A i \in 1..m : h[i] = mine[i]
         /\ \A k \in (r + 1)..l : h[m + (k - r)] = theirs[k]
  BY OwedParts
<1> HIDE DEF h, l, m
<1>2. ASSUME NEW i \in 1..m PROVE i \in DOMAIN h /\ i \in DOMAIN mine /\ h[i] = mine[i]
  BY <1>0, <1>1
<1>3. ASSUME NEW k \in (r + 1)..l
      PROVE  /\ m + (k - r) \in DOMAIN h /\ k \in DOMAIN theirs /\ h[m + (k - r)] = theirs[k]
             /\ \A i \in 1..m : i < m + (k - r)
  <2>1. k \in Nat /\ r \in Nat /\ r + 1 <= k /\ k <= l
    BY <1>0
  <2> QED
    BY <1>0, <1>1, <2>1
<1>4. ASSUME NEW i \in DOMAIN h
      PROVE  i \in 1..m \/ \E k \in (r + 1)..l : i = m + (k - r)
  <2>1. i \in 1..(m + (l - r)) /\ r \in Nat /\ r <= l
    BY <1>0, <1>1
  <2>2. CASE i <= m
    BY <1>0, <2>1, <2>2
  <2>3. CASE m < i
    <3>1. (i - m) + r \in (r + 1)..l /\ i = m + (((i - m) + r) - r)
      BY <1>0, <2>1, <2>3
    <3> QED
      BY <3>1
  <2> QED
    BY <1>0, <2>1, <2>2, <2>3
<1>5. Told(h, W, K, n)
  <2> SUFFICES ASSUME NEW i \in DOMAIN h
               PROVE  /\ h[i].at[1] <= n
                      /\ h[i].at[2] = None => h[i].at[1] \in W
                      /\ \E w \in W : Of(W, h[i], w) /\ h[i].content = K[w]
    BY DEF Told
  <2>1. CASE i \in 1..m
    BY <1>2, <2>1 DEF Told
  <2>2. CASE \E k \in (r + 1)..l : i = m + (k - r)
    BY <1>3, <2>2 DEF Told
  <2> QED
    BY <1>4, <2>1, <2>2
<1>6. Early(h, W)
  <2>1. PICK i \in DOMAIN mine : \E w \in W : Of(W, mine[i], w) /\ \A x \in W : w <= x
    BY DEF Early
  <2>2. i \in DOMAIN h /\ h[i] = mine[i]
    BY <1>0, <1>2
  <2> QED
    BY <2>1, <2>2 DEF Early
<1>7. Whole(h, W)
  <2> SUFFICES ASSUME NEW i \in DOMAIN h, NEW v \in W, NEW w \in W, Of(W, h[i], v), v < w
               PROVE  \E j \in DOMAIN h : i < j /\ Of(W, h[j], w)
    BY DEF Whole
  <2>1. ASSUME NEW k \in (r + 1)..l, i = m + (k - r)
        PROVE  \E j \in DOMAIN h : i < j /\ Of(W, h[j], w)
    <3>1. k \in DOMAIN theirs /\ Of(W, theirs[k], v)
      BY <1>3, <2>1
    <3>2. PICK j \in DOMAIN theirs : k < j /\ Of(W, theirs[j], w)
      BY <3>1 DEF Whole
    <3>3. j \in (r + 1)..l /\ m + (k - r) < m + (j - r)
      BY <1>0, <3>2
    <3> QED
      BY <1>3, <2>1, <3>2, <3>3
  <2>2. ASSUME i \in 1..m, NEW k \in (r + 1)..l, Of(W, theirs[k], w)
        PROVE  \E j \in DOMAIN h : i < j /\ Of(W, h[j], w)
    BY <1>3, <2>2
  <2>3. ASSUME i \in 1..m, \A k \in (r + 1)..l : ~Of(W, theirs[k], w)
        PROVE  \E j \in DOMAIN h : i < j /\ Of(W, h[j], w)
    <3>1. CASE r = 0
      <4>1. DOMAIN theirs = (r + 1)..l
        BY <1>0, <3>1
      <4>2. PICK k \in DOMAIN theirs : \E x \in W : Of(W, theirs[k], x) /\ \A y \in W : x <= y
        BY DEF Early
      <4>3. PICK x \in W : Of(W, theirs[k], x) /\ \A y \in W : x <= y
        BY <4>2
      <4>4. x # w
        BY <2>3, <4>1, <4>3
      <4>5. x < w
        BY <1>0, <4>3, <4>4
      <4>6. \E j \in DOMAIN theirs : k < j /\ Of(W, theirs[j], w)
        BY <4>3, <4>5 DEF Whole
      <4> QED
        BY <2>3, <4>1, <4>6
    <3>2. CASE r # 0
      <4>1. PICK p \in DOMAIN mine : mine[p].at = theirs[r].at
        BY <1>1, <3>2
      <4>2. PICK x \in W : Of(W, mine[p], x)
        BY DEF Told
      <4>3. r \in DOMAIN theirs /\ Of(W, theirs[r], x)
        BY <1>0, <3>2, <4>1, <4>2 DEF Of
      <4>4. ~(x < w)
        <5>1. ASSUME x < w PROVE FALSE
          <6>1. PICK j \in DOMAIN theirs : r < j /\ Of(W, theirs[j], w)
            BY <4>3, <5>1 DEF Whole
          <6>2. j \in (r + 1)..l
            BY <1>0, <6>1
          <6> QED
            BY <2>3, <6>1, <6>2
        <5> QED
          BY <5>1
      <4>5. w <= x
        BY <1>0, <4>4
      <4>6. i \in DOMAIN mine /\ Of(W, mine[i], v)
        BY <1>2, <2>3
      <4>7. PICK j \in DOMAIN mine : i < j /\ Of(W, mine[j], w)
        BY <4>1, <4>2, <4>5, <4>6 DEF SoFar
      <4>8. j \in 1..m
        BY <1>0
      <4> QED
        BY <1>2, <4>7, <4>8
    <3> QED
      BY <3>1, <3>2
  <2> QED
    BY <1>4, <2>1, <2>2, <2>3
<1> QED
  BY <1>5, <1>6, <1>7 DEF h

-----------------------------------------------------------------------------
(* Whose record is of what.                                                *)

\* Who keeps the record of the file: the members, and the initiator before there
\* are any.
Keepers == IF share \in {"ended", "cancelled"} THEN {} ELSE Live \cup {Initiator}

\* Who is given every write: whoever is not frozen, and the initiator as long as
\* somebody joins from their copy.
Abreast(u) ==
  Unshared \/ ~frozen[u] \/ (u = Initiator /\ \E v \in Users : Doing(v, {"join"}))

\* A copy c, n writes into the share, with a version of every write.
Full(c, W, K, n) ==
  /\ Told(c.history, W, K, n) /\ Early(c.history, W) /\ Whole(c.history, W)
  /\ c.live => Newest(c.content, W, K)

KeptBy(u, W, K) ==
  copy[u] # None =>
    /\ Told(copy[u].history, W, K, writes) /\ Early(copy[u].history, W)
    /\ SoFar(copy[u].history, W)
    /\ Abreast(u) => Full(copy[u], W, K, writes)

\* What a join or a catch-up under way has read.
ReadBy(u, W, K) ==
  /\ Doing(u, {"join"}) /\ tx[u].source # None => Newest(tx[u].source, W, K)
  /\ Doing(u, {"thaw"}) /\ Unshared => tx[u].source = None
  /\ Doing(u, {"thaw"}) /\ member[u] = "joined" /\ share = "active" =>
       /\ tx[u].source = None => copy[u] = None
       /\ tx[u].source # None => Full(tx[u].source, W, K, writes)

\* There are writes W of the file, with what they brought, that every record is of.
Recorded(W, K) ==
  /\ \A w \in W : w <= writes
  /\ \A u \in Keepers : KeptBy(u, W, K)
  /\ \A u \in Users : ReadBy(u, W, K)

RecordInv ==
  \E W \in SUBSET (1..MaxWrites) : \E K \in [1..MaxWrites -> Contents \cup {None}] :
    Recorded(W, K)

\* Whoever keeps a record goes on with the one they have, in a step that neither
\* writes to the share nor brings them in or up to date.
LEMMA KeptAsIs ==
    ASSUME MembersInv, Careful, [Next]_vars, \A v \in Users : ~CommitWrite(v),
           NEW u \in Keepers', ~CommitJoin(u), ~CommitThaw(u)
    PROVE  /\ u \in Keepers /\ u \in Users /\ (Abreast(u)' => Abreast(u))
           /\ copy'[u] # None =>
                /\ copy[u] # None /\ copy'[u].history = copy[u].history
                /\ copy'[u].live = copy[u].live /\ copy'[u].content = copy[u].content
<1>0. /\ TypeOK /\ Places /\ Initiator \in Users /\ (Unshared' => Unshared)
      /\ copy \in [Users -> Copy \cup {None}] /\ tx \in [Users -> Request \cup {None}]
      /\ frozen \in [Users -> BOOLEAN]
      /\ member \in [Users -> {"none", "invited", "joined", "finalizing", "left"}]
      /\ share' \notin {"ended", "cancelled"} /\ (u = Initiator \/ member'[u] = "joined")
      /\ u \in Users
  BY StaysShared, InitiatorIsAUser DEF MembersInv, Typed, TypeOK, Keepers, Live
<1> DEFINE Goal == /\ u \in Keepers /\ u \in Users /\ (Abreast(u)' => Abreast(u))
                   /\ copy'[u] # None =>
                        /\ copy[u] # None /\ copy'[u].history = copy[u].history
                        /\ copy'[u].live = copy[u].live /\ copy'[u].content = copy[u].content
<1>1. ASSUME share \notin {"ended", "cancelled"},
             u = Initiator \/ member'[u] = "joined" => u = Initiator \/ member[u] = "joined",
             copy'[u] = copy[u], ~frozen'[u] => ~frozen[u] \/ Unshared,
             \A v \in Users : Doing(v, {"join"})' => Doing(v, {"join"}) \/ ~frozen[Initiator]
      PROVE  Goal
  BY <1>0, <1>1 DEF Keepers, Abreast, Live
<1>2. ASSUME NEW w \in Users, Starts(w) PROVE Goal
  <2>1. UNCHANGED <<share, member, copy, frozen>>
    BY <1>2 DEF Starts
  <2>2. ASSUME NEW v \in Users, Doing(v, {"join"})', ~Doing(v, {"join"})
        PROVE  ~frozen[Initiator]
    <3>1. v = w /\ tx'[w].op = "join"
      BY <1>2, <2>2 DEF Starts, Doing
    <3>2. StartsJoin(w)
      BY <1>2, <3>1 DEF Starts, StartsWrite, StartsThaw, StartsDeparture, WriteOps
    <3> QED
      BY <3>2 DEF StartsJoin, Risk, Careful
  <2> QED
    BY <1>0, <1>1, <2>1, <2>2
<1>3. ASSUME NEW w \in Users,
             \/ RollBack(w) \/ CommitWithdraw(w) \/ CommitDeparture(w) \/ CommitJoin(w)
             \/ CommitThaw(w)
      PROVE  \A v \in Users : Doing(v, {"join"})' => Doing(v, {"join"})
  <2>1. tx' = [tx EXCEPT ![w] = None]
    BY <1>3 DEF RollBack, CommitWithdraw, CommitDeparture, CommitJoin, CommitThaw
  <2> QED
    BY <1>0, <2>1 DEF Doing
<1>4. ASSUME NEW w \in Users, RollBack(w) PROVE Goal
  <2>1. UNCHANGED <<share, member, copy, frozen>>
    BY <1>4 DEF RollBack
  <2> QED
    BY <1>0, <1>1, <1>3, <1>4, <2>1
<1>5. ASSUME NEW w \in Users, CommitWithdraw(w) PROVE Goal
  <2>1. UNCHANGED <<share, copy, frozen>> /\ (member'[u] = "joined" => member[u] = "joined")
    BY <1>0, <1>5 DEF CommitWithdraw
  <2> QED
    BY <1>0, <1>1, <1>3, <1>5, <2>1
<1>6. ASSUME NEW w \in Users, CommitDeparture(w) PROVE Goal
  <2>1. UNCHANGED <<copy, frozen>> /\ share' \in {share, "ended", "cancelled"}
    BY <1>6 DEF CommitDeparture
  <2>2. member'[u] = "joined" => member[u] = "joined"
    BY <1>0, <1>6 DEF CommitDeparture
  <2> QED
    BY <1>0, <1>1, <1>3, <1>6, <2>1, <2>2
<1>7. ASSUME NEW w \in Users, CommitJoin(w) PROVE Goal
  <2>1. UNCHANGED <<share, frozen>> /\ member'[u] = member[u] /\ copy'[u] = copy[u]
    BY <1>0, <1>7 DEF CommitJoin
  <2> QED
    BY <1>0, <1>1, <1>3, <1>7, <2>1
<1>8. ASSUME NEW w \in Users, CommitThaw(w) PROVE Goal
  <2>1. UNCHANGED <<share, member>> /\ frozen'[u] = frozen[u] /\ copy'[u] = copy[u]
    BY <1>0, <1>8 DEF CommitThaw
  <2> QED
    BY <1>0, <1>1, <1>3, <1>8, <2>1
<1>9. ASSUME NEW w \in Users,
             CreateShare(w) \/ Decline(w) \/ Activate(w) \/ (\E v \in Users : Invite(w, v))
      PROVE  Goal
  <2>1. UNCHANGED <<copy, frozen, tx>> /\ share \notin {"ended", "cancelled"}
    BY <1>0, <1>9 DEF CreateShare, Decline, Activate, Invite
  <2>2. u = Initiator \/ (member'[u] = "joined" => member[u] = "joined")
    BY <1>0, <1>9 DEF CreateShare, Decline, Activate, Invite
  <2> QED
    BY <1>0, <1>1, <2>1, <2>2 DEF Doing
<1>10. ASSUME NEW w \in Users, CancelShare(w) PROVE Goal
  BY <1>0, <1>10 DEF CancelShare
<1>11. ASSUME NEW w \in Users, Finalize(w) PROVE Goal
  <2>1. w # u
    <3>1. share \in {"none", "preparing", "active", "ended", "cancelled"} /\ share' = share
      BY <1>0, <1>11 DEF TypeOK, Finalize
    <3>2. w = u => member[u] = "finalizing" /\ member'[u] = "left"
      BY <1>0, <1>11 DEF Finalize
    <3> QED
      BY <1>0, <3>1, <3>2 DEF Places
  <2>2. UNCHANGED <<share, frozen, tx>> /\ member'[u] = member[u] /\ copy'[u] = copy[u]
    BY <1>0, <1>11, <2>1 DEF Finalize
  <2> QED
    BY <1>0, <1>1, <2>2 DEF Doing
<1>12. ASSUME NEW w \in Users, NEW r \in Rooms[w], SetRoom(w, r) PROVE Goal
  <2>1. UNCHANGED <<share, member, copy, tx>>
    BY <1>12 DEF SetRoom
  <2>2. frozen[w] => Over(copy[w], r)
    BY <1>12 DEF SetRoom
  <2>3. frozen' = [frozen EXCEPT ![w] = Over(copy[w], r)]
    BY <1>12 DEF SetRoom
  <2>4. ~frozen'[u] => ~frozen[u]
    BY <1>0, <2>2, <2>3
  <2> QED
    BY <1>0, <1>1, <2>1, <2>4 DEF Doing
<1>13. ASSUME NEW w \in Users, Prepare(w) PROVE Goal
  <2>1. UNCHANGED <<share, member, frozen, tx>> /\ share = "preparing" /\ Unshared
    BY <1>13 DEF Prepare, Unshared
  <2>2. CASE w = u
    <3>1. copy[u] \in Copy /\ copy' = [copy EXCEPT ![u] = [copy[u] EXCEPT !.name = "KS"]]
          /\ copy[u] # None
      BY <1>0, <1>13, <2>2 DEF Prepare
    <3>2. PICK c \in Copy : c = copy[u]
      BY <3>1
    <3>3. /\ [c EXCEPT !.name = "KS"].history = c.history
          /\ [c EXCEPT !.name = "KS"].live = c.live
          /\ [c EXCEPT !.name = "KS"].content = c.content
      BY DEF Copy
    <3>4. copy'[u] = [c EXCEPT !.name = "KS"]
      BY <1>0, <3>1, <3>2
    <3> QED
      BY <1>0, <2>1, <3>1, <3>2, <3>3, <3>4 DEF Keepers, Abreast, Live
  <2>3. CASE w # u
    <3>1. copy'[u] = copy[u]
      BY <1>0, <1>13, <2>3 DEF Prepare
    <3> QED
      BY <1>0, <1>1, <2>1, <3>1 DEF Doing
  <2> QED
    BY <2>2, <2>3
<1>14. CASE UNCHANGED vars
  BY <1>0, <1>1, <1>14 DEF vars, Doing
<1> HIDE DEF Goal
<1>15. Goal
  <2>1. CASE UNCHANGED vars
    BY <1>14, <2>1 DEF Goal
  <2>2. CASE ~UNCHANGED vars
    <3>1. PICK w \in Users :
             \/ Starts(w) \/ RollBack(w)
             \/ CommitJoin(w) \/ CommitWrite(w) \/ CommitWithdraw(w)
             \/ CommitDeparture(w) \/ CommitThaw(w)
             \/ CreateShare(w) \/ Prepare(w) \/ CancelShare(w) \/ Activate(w)
             \/ Decline(w) \/ Finalize(w)
             \/ \E r \in Rooms[w] : SetRoom(w, r)
             \/ \E v \in Users : Invite(w, v)
      BY <1>0, <2>2, StepKinds
    <3> QED
      BY <1>2, <1>4, <1>5, <1>6, <1>7, <1>8, <1>9, <1>10, <1>11, <1>12, <1>13, <3>1
  <2> QED
    BY <2>1, <2>2
<1> QED
  BY <1>15 DEF Goal

\* What a join or a catch-up has read stays what the record is of.
LEMMA ReadKept ==
    ASSUME MembersInv, Careful, [Next]_vars, \A v \in Users : ~CommitWrite(v),
           writes' = writes, NEW W, NEW K, Recorded(W, K), NEW u \in Users
    PROVE  ReadBy(u, W, K)'
<1>0. /\ TypeOK /\ Places /\ Initiator \in Users /\ (Unshared' => Unshared)
      /\ \A v \in Keepers : KeptBy(v, W, K)
      /\ ReadBy(u, W, K)
  BY StaysShared, InitiatorIsAUser DEF MembersInv, Typed, Recorded
<1>1. SUFFICES
        /\ tx'[u] # None /\ tx'[u].op = "join" /\ tx'[u].source # None
             => Newest(tx'[u].source, W, K)
        /\ tx'[u] # None /\ tx'[u].op = "thaw" /\ Unshared' => tx'[u].source = None
        /\ tx'[u] # None /\ tx'[u].op = "thaw" /\ member'[u] = "joined" /\ share' = "active" =>
             /\ tx'[u].source = None => copy'[u] = None
             /\ tx'[u].source # None => Full(tx'[u].source, W, K, writes)
  BY DEF ReadBy, Doing, Full
<1>2. CASE tx'[u] = tx[u]
  <2>1. CASE tx[u] = None
    BY <1>2, <2>1
  <2>2. CASE tx[u] # None /\ \A v \in Users : ~Activate(v)
    <3>1. share' = "active" => share = "active"
      BY <2>2, StaysActive
    <3>2. share' = "active" =>
            copy'[u] = copy[u] /\ (member'[u] = "joined" => member[u] = "joined")
      BY <1>2, <2>2, <3>1, CopyWaits
    <3> QED
      BY <1>0, <1>2, <3>1, <3>2 DEF ReadBy, Doing
  <2>3. CASE tx[u] # None /\ \E v \in Users : Activate(v)
    <3>1. Activate(Initiator) /\ tx[Initiator] = None
      BY <2>3 DEF Activate
    <3>2. member'[u] # "joined"
      BY <1>0, <2>3, <3>1 DEF Activate, Places, Unshared
    <3> QED
      BY <1>0, <1>2, <3>2 DEF ReadBy, Doing
  <2> QED
    BY <2>1, <2>2, <2>3
<1>3. CASE Starts(u)
  <2>1. UNCHANGED <<share, member, copy>>
    BY <1>3 DEF Starts
  <2>2. CASE StartsJoin(u)
    <3>1. /\ tx'[u].op = "join" /\ share = "active" /\ ~frozen[Initiator]
          /\ tx'[u].source = Shown(copy[Initiator])
      BY <2>2 DEF StartsJoin, Risk, Careful
    <3>2. KeptBy(Initiator, W, K) /\ Abreast(Initiator)
      BY <1>0, <3>1 DEF Keepers, Abreast
    <3>3. tx'[u].source # None => Newest(tx'[u].source, W, K)
      BY <3>1, <3>2 DEF KeptBy, Full, Shown
    <3> QED
      BY <3>1, <3>3
  <2>3. CASE StartsThaw(u)
    <3>1. tx'[u].op = "thaw"
      BY <2>3 DEF StartsThaw
    <3>2. Unshared => tx'[u].source = None
      BY <2>3 DEF StartsThaw, Unshared
    <3>3. ASSUME member[u] = "joined", share = "active"
          PROVE  /\ tx'[u].source = None => copy[u] = None
                 /\ tx'[u].source # None => Full(tx'[u].source, W, K, writes)
      <4>1. PICK s \in Sources(u) :
               tx'[u].source = copy[s] /\ ~(copy[s] = None /\ copy[u] # None)
        BY <2>3, <3>3 DEF StartsThaw, Risk, Careful
      <4>2. s \in Keepers /\ ~frozen[s]
        BY <3>3 DEF Sources, LiveUnfrozen, Live, Keepers
      <4>3. KeptBy(s, W, K) /\ Abreast(s)
        BY <1>0, <4>2 DEF Abreast
      <4> QED
        BY <4>1, <4>3 DEF KeptBy
    <3> QED
      BY <1>0, <2>1, <3>1, <3>2, <3>3
  <2>4. CASE StartsWrite(u) \/ StartsDeparture(u)
    BY <2>4 DEF StartsWrite, StartsDeparture, WriteOps
  <2> QED
    BY <1>3, <2>2, <2>3, <2>4 DEF Starts
<1> QED
  BY <1>1, <1>2, <1>3, RequestsStay

\* Who joins has all of the record of the initiator.
LEMMA JoinKept ==
    ASSUME MembersInv, NEW W \in SUBSET (1..MaxWrites),
           NEW K \in [1..MaxWrites -> Contents \cup {None}], Recorded(W, K),
           NEW u \in Users, CommitJoin(u), copy'[u] # None
    PROVE  Full(copy'[u], W, K, writes)
<1> DEFINE source == tx[u].source
           past == copy[Initiator].history
           head == [at |-> <<writes, u>>, content |-> source, by |-> Last(past).by]
<1>0. /\ TypeOK /\ RequestsFit /\ PastIsKept /\ Initiator \in Users
      /\ copy \in [Users -> Copy \cup {None}] /\ tx \in [Users -> Request \cup {None}]
      /\ writes \in 0..MaxWrites /\ MaxWrites \in Nat /\ writes \in Nat /\ writes <= MaxWrites
  BY InitiatorIsAUser, BoundsAreNaturals DEF MembersInv, Typed, TypeOK
<1>1. /\ Doing(u, {"join"}) /\ share = "active"
      /\ copy' = [copy EXCEPT ![u] = IF source = None THEN None ELSE JoinedCopy(u, source)]
  BY DEF CommitJoin
<1>2. source # None /\ copy'[u] = JoinedCopy(u, source)
  BY <1>0, <1>1
<1>3. source \in Contents /\ copy[Initiator] # None /\ copy[Initiator] \in Copy
  BY <1>0, <1>1, <1>2, InFlight DEF Doing
<1>4. past \in Seq(Entry) /\ past # <<>>
  BY <1>0, <1>3 DEF PastIsKept, Copy
<1>5. KeptBy(Initiator, W, K) /\ Abreast(Initiator) /\ ReadBy(u, W, K)
      /\ \A w \in W : w <= writes
  BY <1>0, <1>1 DEF Recorded, Keepers, Abreast
<1>6. /\ Told(past, W, K, writes) /\ Early(past, W) /\ Whole(past, W)
      /\ Newest(source, W, K)
  BY <1>1, <1>2, <1>3, <1>5 DEF KeptBy, Full, ReadBy
<1>7. head \in Entry /\ head.at[1] = writes /\ head.at[2] # None /\ head.content = source
  <2>1. Last(past) \in Entry
    <3>1. Len(past) \in 1..Len(past)
      BY <1>4, EmptySeq, LenProperties
    <3> QED
      BY <1>4, <3>1, ElementOfSeq DEF Last
  <2>2. u # None
    BY NoneIsApart
  <2> HIDE DEF past, source
  <2> QED
    BY <1>0, <1>3, <2>1, <2>2 DEF Entry
<1>8. /\ copy'[u].history = Front(past) \o <<head>> /\ copy'[u].content = source
  BY <1>2 DEF JoinedCopy
<1> HIDE DEF past, source, head
<1>9. LET h == Front(past) \o <<head>>
      IN Told(h, W, K, writes) /\ Early(h, W) /\ Whole(h, W)
  BY <1>0, <1>4, <1>5, <1>6, <1>7, ToldJoined
<1> QED
  BY <1>6, <1>8, <1>9 DEF Full

\* Who catches up has all of the record of their source.
LEMMA ThawKept ==
    ASSUME MembersInv, NEW W \in SUBSET (1..MaxWrites),
           NEW K \in [1..MaxWrites -> Contents \cup {None}], Recorded(W, K),
           NEW u \in Keepers, CommitThaw(u), u \in Users, copy'[u] # None, ~Unshared
    PROVE  Full(copy'[u], W, K, writes)
<1> DEFINE source == tx[u].source
           mine == copy[u]
<1>0. /\ TypeOK /\ RequestsFit /\ Places /\ Initiator \in Users
      /\ copy \in [Users -> Copy \cup {None}]
      /\ writes \in 0..MaxWrites /\ MaxWrites \in Nat /\ writes \in Nat
  BY InitiatorIsAUser, BoundsAreNaturals DEF MembersInv, Typed, TypeOK
<1>1. Doing(u, {"thaw"}) /\ copy'[u] = CaughtUp(mine, source)
  BY ThawTyped DEF CommitThaw
<1>2. share = "active" /\ member[u] = "joined"
  BY <1>0 DEF Unshared, Keepers, Live, TypeOK, Places
<1>3. /\ source = None => mine = None
      /\ source # None => Full(source, W, K, writes)
  BY <1>1, <1>2 DEF Recorded, ReadBy
<1>4. KeptBy(u, W, K)
  BY DEF Recorded
<1>5. source # None /\ source \in Copy
  <2>1. source # None
    BY <1>1, <1>3 DEF CaughtUp
  <2> QED
    BY <1>0, <1>1, <2>1, InFlight DEF Doing
<1>6. CASE mine = None
  <2>1. copy'[u] = source
    BY <1>1, <1>5, <1>6 DEF CaughtUp
  <2> QED
    BY <1>3, <1>5, <2>1
<1>7. CASE mine # None
  <2>1. mine \in Copy
    BY <1>0, <1>7
  <2>2. PICK c \in Copy, s \in Copy : c = mine /\ s = source
    BY <1>5, <2>1
  <2> DEFINE past == c.history \o Owed(c.history, s.history)
             next == [c EXCEPT !.live = s.live, !.content = IF s.live THEN s.content ELSE c.content,
                               !.history = past]
  <2>3. copy'[u] = next
    BY <1>1, <1>5, <1>7, <2>2 DEF CaughtUp
  <2> HIDE DEF past
  <2>4. /\ next.live = s.live /\ (s.live => next.content = s.content) /\ next.history = past
    BY DEF Copy
  <2>5. /\ Told(c.history, W, K, writes) /\ Early(c.history, W) /\ SoFar(c.history, W)
    BY <1>4, <1>7, <2>2 DEF KeptBy
  <2>6. /\ Told(s.history, W, K, writes) /\ Early(s.history, W) /\ Whole(s.history, W)
        /\ s.live => Newest(s.content, W, K)
    BY <1>3, <1>5, <2>2 DEF Full
  <2>7. c.history \in Seq(Entry) /\ s.history \in Seq(Entry)
    BY DEF Copy
  <2>8. Told(past, W, K, writes) /\ Early(past, W) /\ Whole(past, W)
    BY <1>0, <2>5, <2>6, <2>7, ToldCaughtUp DEF past
  <2> HIDE DEF next
  <2> QED
    BY <2>3, <2>4, <2>6, <2>8 DEF Full
<1> QED
  BY <1>6, <1>7

\* What a write adds to a copy.
LEMMA WrittenParts ==
    ASSUME NEW c \in Copy, NEW w, NEW u \in Users, w.content \in Contents,
           writes < MaxWrites, writes \in Nat
    PROVE  \E e \in Entry :
             /\ e.at[1] = writes + 1 /\ e.content = w.content
             /\ Written(c, w, u).history = Append(c.history, e)
             /\ Written(c, w, u).content = w.content
<1> DEFINE e == [at |-> <<writes + 1, None>>, content |-> w.content, by |-> u]
           past == c.history
<1>1. e \in Entry /\ e.at[1] = writes + 1 /\ e.content = w.content
  BY BoundsAreNaturals DEF Entry
<1> HIDE DEF e
<1>2. Written(c, w, u) = [c EXCEPT !.content = w.content, !.live = TRUE,
                                   !.history = Append(past, e)]
  BY DEF Written, e
<1> HIDE DEF past
<1>3. /\ Written(c, w, u).history = Append(past, e)
      /\ Written(c, w, u).content = w.content
  BY <1>2 DEF Copy
<1> QED
  BY <1>1, <1>3 DEF past

\* Whom a write goes to, of those who keep a record: all who are given every
\* write, before it and after it, and nobody else gets more than a deletion.
LEMMA WriteTargets ==
    ASSUME MembersInv, WritesApart, WritesReach, NEW u \in Users, CommitWrite(u),
           NEW v \in Keepers
    PROVE  /\ v \in Users
           /\ Abreast(v)' => Abreast(v) /\ v \in {u} \cup tx[u].to
           /\ v \in {u} \cup tx[u].to /\ tx[u].op # "delete" =>
                Abreast(v) /\ (Unshared => v = Initiator) /\ (~Unshared => v \in Level)
<1>0. /\ TypeOK /\ Places /\ TargetsStay /\ Initiator \in Users /\ RequestsFit
      /\ share \in {"none", "preparing", "active"}
      /\ frozen \in [Users -> BOOLEAN] /\ tx \in [Users -> Request \cup {None}]
      /\ v \in Users /\ (v = Initiator \/ member[v] = "joined")
  BY InitiatorIsAUser DEF MembersInv, Typed, TypeOK, Keepers, Live
<1>1. /\ Doing(u, WriteOps) /\ tx' = [tx EXCEPT ![u] = None]
      /\ UNCHANGED <<share, member>> /\ (frozen[v] => frozen'[v])
      /\ \A x \in tx[u].to : ~frozen[x]
      /\ frozen[u] => tx[u].op = "delete"
  BY <1>0 DEF CommitWrite, Accepted
<1>2. \A x \in Users : ~Doing(x, {"join"}) /\ ~Doing(x, {"join"})'
  BY <1>0, <1>1 DEF WritesApart, Doing
<1>3. share = "active" => member[v] = "joined"
  BY <1>0 DEF Places
<1>4. Unshared => v = Initiator /\ u = Initiator
  BY <1>0, <1>1 DEF Places, TargetsStay
<1>5. Abreast(v)' => Abreast(v) /\ v \in {u} \cup tx[u].to
  <2>1. Abreast(v)' => Unshared \/ ~frozen[v]
    BY <1>1, <1>2 DEF Abreast, Unshared
  <2>2. ~Unshared /\ ~frozen[v] => v \in Level
    BY <1>0, <1>3 DEF Unshared, Level, LiveUnfrozen, Live
  <2> QED
    BY <1>1, <1>4, <2>1, <2>2 DEF Abreast, WritesReach
<1>6. v \in {u} \cup tx[u].to /\ tx[u].op # "delete" => ~frozen[v]
  BY <1>1
<1>7. ~Unshared /\ ~frozen[v] => v \in Level
  BY <1>0, <1>3 DEF Unshared, Level, LiveUnfrozen, Live
<1> QED
  BY <1>0, <1>4, <1>5, <1>6, <1>7 DEF Abreast

\* A deletion, and a write that changes no copy, leave the record what it is of.
LEMMA RecordStands ==
    ASSUME MembersInv, WritesApart, WritesReach, NEW u \in Users, CommitWrite(u),
           NEW W \in SUBSET (1..MaxWrites), NEW K, Recorded(W, K), Keepers' \subseteq Keepers,
           \A v \in Keepers : copy'[v] # None =>
             /\ copy[v] # None /\ copy'[v].history = copy[v].history
             /\ copy'[v].content = copy[v].content /\ (copy'[v].live => copy[v].live)
    PROVE  Recorded(W, K)'
<1>0. writes \in Nat /\ writes' \in {writes, writes + 1} /\ W \subseteq Nat
      /\ tx \in [Users -> Request \cup {None}] /\ copy \in [Users -> Copy \cup {None}]
  BY BoundsAreNaturals DEF MembersInv, Typed, TypeOK, CommitWrite
<1>1. \A w \in W : w <= writes'
  BY <1>0 DEF Recorded
<1>2. ASSUME NEW v \in Users PROVE ReadBy(v, W, K)'
  <2>1. ~Doing(v, {"join"})' /\ ~Doing(v, {"thaw"})'
    BY <1>0 DEF CommitWrite, WritesApart, Doing
  <2> QED
    BY <2>1 DEF ReadBy
<1>3. ASSUME NEW h \in Seq(Entry), Told(h, W, K, writes) PROVE Told(h, W, K, writes')
  <2> SUFFICES ASSUME NEW i \in DOMAIN h PROVE h[i].at[1] <= writes'
    BY <1>3 DEF Told
  <2>1. h[i].at[1] \in Nat
    BY <1>0, EntryParts, ElementOfSeq, LenProperties
  <2>2. h[i].at[1] <= writes
    BY <1>3 DEF Told
  <2> QED
    BY <1>0, <2>1, <2>2
<1>4. ASSUME NEW v \in Keepers' PROVE KeptBy(v, W, K)'
  <2>1. v \in Keepers /\ KeptBy(v, W, K) /\ (Abreast(v)' => Abreast(v))
    BY WriteTargets DEF Recorded
  <2> SUFFICES ASSUME copy'[v] # None
               PROVE  /\ Told(copy'[v].history, W, K, writes') /\ Early(copy'[v].history, W)
                      /\ SoFar(copy'[v].history, W)
                      /\ Abreast(v)' => Full(copy'[v], W, K, writes')
    BY DEF KeptBy
  <2>2. /\ copy[v] # None /\ copy'[v].history = copy[v].history
        /\ copy'[v].content = copy[v].content /\ (copy'[v].live => copy[v].live)
    BY <2>1
  <2>3. copy[v].history \in Seq(Entry)
    BY <1>0, <2>1, <2>2, WriteTargets DEF Copy
  <2> QED
    BY <1>3, <2>1, <2>2, <2>3 DEF KeptBy, Full
<1> QED
  BY <1>1, <1>2, <1>4 DEF Recorded

\* The first write of the file is all there is to a record.
LEMMA RecordBegun ==
    ASSUME MembersInv, WritesApart, WritesReach, NEW u \in Users, CommitWrite(u),
           tx[u].op = "create", NEW W \in SUBSET (1..MaxWrites),
           NEW K \in [1..MaxWrites -> Contents \cup {None}], Recorded(W, K)
    PROVE  RecordInv'
<1> DEFINE w == tx[u]
<1>0. /\ TypeOK /\ RequestsFit /\ Places /\ Initiator \in Users
      /\ copy \in [Users -> Copy \cup {None}] /\ tx \in [Users -> Request \cup {None}]
      /\ writes \in Nat /\ writes < MaxWrites /\ writes' = writes + 1 /\ MaxWrites \in Nat
      /\ share \in {"none", "preparing", "active", "ended", "cancelled"}
      /\ UNCHANGED <<share, member>> /\ Doing(u, WriteOps)
  BY InitiatorIsAUser, BoundsAreNaturals
     DEF MembersInv, Typed, TypeOK, CommitWrite
<1>1. w.content \in Contents /\ w.name \in Users \cup {"KS"}
  BY <1>0, InFlight DEF WriteOps, Doing
<1>2. ASSUME NEW v \in Keepers PROVE v \in Users /\ copy[v] = None
  <2>1. v \in Users /\ InFolder(v)
    BY <1>0 DEF Keepers, Live, InFolder, Inside, Places
  <2> QED
    BY <2>1 DEF CommitWrite, Accepted, NobodyHoldsIt
<1>3. ASSUME NEW v \in Keepers PROVE copy'[v] = None \/ copy'[v] = Written(Created(w), w, u)
  BY <1>2 DEF CommitWrite, Delivered
<1>4. Created(w) \in Copy /\ Created(w).history = <<>>
  BY <1>1, EmptySeq DEF Created, Copy
<1>5. PICK e \in Entry :
        /\ e.at[1] = writes + 1 /\ e.content = w.content
        /\ Written(Created(w), w, u).history = Append(<<>>, e)
        /\ Written(Created(w), w, u).content = w.content
  BY <1>0, <1>1, <1>4, WrittenParts
<1>6. PICK M \in SUBSET (1..MaxWrites), L \in [1..MaxWrites -> Contents \cup {None}] :
        M = {writes + 1} /\ L = [K EXCEPT ![writes + 1] = e.content]
  <2>1. [K EXCEPT ![writes + 1] = e.content] \in [1..MaxWrites -> Contents \cup {None}]
    BY EntryParts
  <2>2. {writes + 1} \in SUBSET (1..MaxWrites)
    <3>1. writes + 1 \in 1..MaxWrites
      BY <1>0
    <3> QED
      BY <3>1
  <2> QED
    BY <2>1, <2>2
<1>7. LET h == Append(<<>>, e)
      IN Told(h, M, L, writes + 1) /\ Early(h, M) /\ Whole(h, M)
  BY <1>0, <1>5, <1>6, ToldFirst
<1>8. Newest(w.content, M, L) /\ \A x \in M : x <= writes'
  <2>1. {} \cup {writes + 1} = M
    BY <1>6
  <2>2. Newest(w.content, {} \cup {writes + 1}, [K EXCEPT ![writes + 1] = w.content])
    BY <1>0, <1>1, NewestWritten
  <2> QED
    BY <1>0, <1>5, <1>6, <2>1, <2>2
<1>9. ASSUME NEW v \in Keepers' PROVE KeptBy(v, M, L)'
  <2>1. v \in Keepers
    BY <1>0 DEF Keepers, Live
  <2>2. CASE copy'[v] = None
    BY <2>2 DEF KeptBy
  <2>3. CASE copy'[v] = Written(Created(w), w, u)
    <3>1. copy'[v].history = Append(<<>>, e) /\ copy'[v].content = w.content
      BY <1>5, <2>3
    <3>2. /\ Told(copy'[v].history, M, L, writes') /\ Early(copy'[v].history, M)
          /\ Whole(copy'[v].history, M) /\ Newest(copy'[v].content, M, L)
      BY <1>0, <1>7, <1>8, <3>1
    <3>3. SoFar(copy'[v].history, M)
      BY <3>2, WholeSoFar
    <3> QED
      BY <3>2, <3>3 DEF KeptBy, Full
  <2> QED
    BY <1>3, <2>1, <2>2, <2>3
<1>10. ASSUME NEW v \in Users PROVE ReadBy(v, M, L)'
  <2>1. ~Doing(v, {"join"})' /\ ~Doing(v, {"thaw"})'
    BY <1>0 DEF CommitWrite, WritesApart, Doing
  <2> QED
    BY <2>1 DEF ReadBy
<1>11. Recorded(M, L)'
  BY <1>8, <1>9, <1>10 DEF Recorded
<1> QED
  BY <1>6, <1>11 DEF RecordInv

\* A write that everybody it goes to takes is the next that the record is of.
LEMMA RecordGoesOn ==
    ASSUME MembersInv, WritesApart, WritesReach, NEW u \in Users, CommitWrite(u),
           tx[u].op \in {"put", "restore"}, NEW W \in SUBSET (1..MaxWrites),
           NEW K \in [1..MaxWrites -> Contents \cup {None}], Recorded(W, K),
           \A v \in Keepers : v \in {u} \cup tx[u].to =>
             copy[v] # None /\ copy'[v] = Written(copy[v], tx[u], u)
    PROVE  RecordInv'
<1> DEFINE w == tx[u]
<1>0. /\ TypeOK /\ RequestsFit /\ Places
      /\ copy \in [Users -> Copy \cup {None}] /\ tx \in [Users -> Request \cup {None}]
      /\ writes \in Nat /\ writes < MaxWrites /\ writes' = writes + 1 /\ MaxWrites \in Nat
      /\ UNCHANGED <<share, member>> /\ Doing(u, WriteOps)
      /\ \A x \in W : x <= writes
  BY BoundsAreNaturals
     DEF MembersInv, Typed, TypeOK, CommitWrite, Recorded
<1>1. w.content \in Contents
  BY <1>0, InFlight DEF WriteOps, Doing
<1>2. PICK M \in SUBSET (1..MaxWrites), L \in [1..MaxWrites -> Contents \cup {None}] :
        M = W \cup {writes + 1} /\ L = [K EXCEPT ![writes + 1] = w.content]
  <2>1. [K EXCEPT ![writes + 1] = w.content] \in [1..MaxWrites -> Contents \cup {None}]
    BY <1>1
  <2>2. W \cup {writes + 1} \in SUBSET (1..MaxWrites)
    <3>1. writes + 1 \in 1..MaxWrites
      BY <1>0
    <3> QED
      BY <3>1
  <2> QED
    BY <2>1, <2>2
<1>3. Newest(w.content, M, L) /\ \A x \in M : x <= writes'
  <2>1. Newest(w.content, M, L)
    BY <1>0, <1>1, <1>2, NewestWritten
  <2>2. W \subseteq Nat /\ writes' \in Nat
    BY <1>0
  <2> QED
    BY <1>0, <1>2, <2>1, <2>2
<1>4. ASSUME NEW v \in Keepers' PROVE KeptBy(v, M, L)'
  <2>1. /\ v \in Keepers /\ KeptBy(v, W, K) /\ v \in Users
        /\ Abreast(v)' => v \in {u} \cup tx[u].to
        /\ v \in {u} \cup tx[u].to => Abreast(v)
    <3>1. v \in Keepers
      BY <1>0 DEF Keepers, Live
    <3> QED
      BY <3>1, WriteTargets DEF Recorded
  <2> SUFFICES ASSUME copy'[v] # None
               PROVE  /\ Told(copy'[v].history, M, L, writes') /\ Early(copy'[v].history, M)
                      /\ SoFar(copy'[v].history, M)
                      /\ Abreast(v)' => Full(copy'[v], M, L, writes')
    BY DEF KeptBy
  <2>2. CASE v \in {u} \cup tx[u].to
    <3>1. PICK c \in Copy : c = copy[v] /\ copy[v] # None
      BY <1>0, <2>1, <2>2
    <3>2. PICK e \in Entry :
            /\ e.at[1] = writes + 1 /\ e.content = w.content
            /\ Written(c, w, u).history = Append(c.history, e)
            /\ Written(c, w, u).content = w.content
      BY <1>0, <1>1, WrittenParts
    <3>3. copy'[v].history = Append(c.history, e) /\ copy'[v].content = w.content
      BY <2>1, <2>2, <3>1, <3>2
    <3>4. Told(c.history, W, K, writes) /\ Early(c.history, W) /\ Whole(c.history, W)
      BY <2>1, <2>2, <3>1 DEF KeptBy, Full
    <3>5. c.history \in Seq(Entry)
      BY DEF Copy
    <3>6. /\ Told(Append(c.history, e), M, L, writes + 1)
          /\ Early(Append(c.history, e), M)
          /\ Whole(Append(c.history, e), M)
      BY <1>0, <1>2, <3>2, <3>4, <3>5, ToldWritten
    <3>7. SoFar(Append(c.history, e), M)
      BY <3>6, WholeSoFar
    <3> QED
      BY <1>0, <1>3, <3>3, <3>6, <3>7 DEF Full
  <2>3. CASE v \notin {u} \cup tx[u].to
    <3>1. copy'[v] = copy[v]
      BY <1>0, <2>1, <2>3 DEF CommitWrite
    <3>2. PICK h \in Seq(Entry) : h = copy[v].history
      BY <1>0, <2>1, <3>1 DEF Copy
    <3>3. Told(h, W, K, writes) /\ Early(h, W) /\ SoFar(h, W)
      BY <2>1, <3>1, <3>2 DEF KeptBy
    <3>4. Told(h, M, L, writes + 1) /\ Early(h, M) /\ SoFar(h, M)
      BY <1>0, <1>1, <1>2, <3>3, ToldMore
    <3> QED
      BY <1>0, <2>1, <2>3, <3>1, <3>2, <3>4
  <2> QED
    BY <2>2, <2>3
<1>5. ASSUME NEW v \in Users PROVE ReadBy(v, M, L)'
  <2>1. ~Doing(v, {"join"})' /\ ~Doing(v, {"thaw"})'
    BY <1>0 DEF CommitWrite, WritesApart, Doing
  <2> QED
    BY <2>1 DEF ReadBy
<1>6. Recorded(M, L)'
  BY <1>3, <1>4, <1>5 DEF Recorded
<1> QED
  BY <1>2, <1>6 DEF RecordInv

\* Whatever is written, by whomever, the records stay of one succession of writes.
LEMMA RecordWritten ==
    ASSUME MembersInv, LevelInv, NEW u \in Users, CommitWrite(u),
           NEW W \in SUBSET (1..MaxWrites), NEW K \in [1..MaxWrites -> Contents \cup {None}],
           Recorded(W, K)
    PROVE  RecordInv'
<1> DEFINE w == tx[u]
           reached == {u} \cup w.to
           gets(v) == copy[v] # None /\ (w.op = "restore" \/ copy[v].live)
<1>0. /\ TypeOK /\ RequestsFit /\ WritesApart /\ WritesReach /\ OneView
      /\ copy \in [Users -> Copy \cup {None}]
      /\ w.op \in WriteOps /\ Doing(u, WriteOps)
      /\ copy' = [v \in Users |-> IF v \in reached THEN Delivered(copy[v], w, u) ELSE copy[v]]
      /\ Keepers' = Keepers /\ \A v \in Keepers : v \in Users
  BY WriteTargets DEF MembersInv, Typed, TypeOK, LevelInv, CommitWrite, Doing, Keepers, Live
<1>1. ASSUME \A v \in Keepers : copy'[v] # None =>
               /\ copy[v] # None /\ copy'[v].history = copy[v].history
               /\ copy'[v].content = copy[v].content /\ (copy'[v].live => copy[v].live)
      PROVE  RecordInv'
  BY <1>0, <1>1, RecordStands DEF RecordInv
<1>2. CASE w.op = "delete"
  <2>1. ASSUME NEW v \in Keepers, copy'[v] # None
        PROVE  /\ copy[v] # None /\ copy'[v].history = copy[v].history
               /\ copy'[v].content = copy[v].content /\ (copy'[v].live => copy[v].live)
    <3>1. CASE v \notin reached
      BY <1>0, <2>1, <3>1
    <3>2. CASE v \in reached
      <4>1. copy[v] # None
        BY <1>0, <1>2, <2>1, <3>2 DEF Delivered
      <4>2. PICK c \in Copy : c = copy[v]
        BY <1>0, <2>1, <4>1
      <4>3. copy'[v] = [c EXCEPT !.live = FALSE]
        BY <1>0, <1>2, <2>1, <3>2, <4>1, <4>2 DEF Delivered
      <4>4. /\ [c EXCEPT !.live = FALSE].history = c.history
            /\ [c EXCEPT !.live = FALSE].content = c.content
            /\ ~[c EXCEPT !.live = FALSE].live
        BY DEF Copy
      <4> QED
        BY <4>1, <4>2, <4>3, <4>4
    <3> QED
      BY <3>1, <3>2
  <2> QED
    BY <1>1, <2>1
<1>3. CASE w.op = "create"
  BY <1>0, <1>3, RecordBegun
<1>4. CASE w.op \in {"put", "restore"} /\ \A v \in Keepers : v \in reached => ~gets(v)
  <2>1. ASSUME NEW v \in Keepers PROVE copy'[v] = copy[v]
    BY <1>0, <1>4, <2>1 DEF Delivered
  <2> QED
    BY <1>1, <2>1
<1>5. CASE w.op \in {"put", "restore"} /\ \A v \in Keepers : v \in reached => gets(v)
  <2>1. ASSUME NEW v \in Keepers, v \in reached
        PROVE  copy[v] # None /\ copy'[v] = Written(copy[v], w, u)
    BY <1>0, <1>5, <2>1 DEF Delivered
  <2> HIDE DEF reached
  <2>2. \A v \in Keepers : v \in {u} \cup tx[u].to =>
          copy[v] # None /\ copy'[v] = Written(copy[v], tx[u], u)
    BY <2>1 DEF reached
  <2> QED
    BY <1>0, <1>5, <2>2, RecordGoesOn
<1>6. ASSUME w.op \in {"put", "restore"}, NEW x \in Keepers, NEW y \in Keepers,
             x \in reached, y \in reached, gets(x)
      PROVE  gets(y)
  <2>1. CASE Unshared
    BY <1>0, <1>6, <2>1, WriteTargets
  <2>2. CASE ~Unshared
    <3>1. x \in Level /\ y \in Level
      BY <1>0, <1>6, <2>2, WriteTargets
    <3>2. Shown(copy[x]) = Shown(copy[y])
      BY <1>0, <3>1 DEF OneView, AllSee
    <3>3. w.op = "restore" => copy[y] # None
      BY <1>0, <1>6 DEF WritesReach, Doing
    <3>4. copy[x] # None => copy[x].content # None
      <4>1. copy[x] # None => copy[x] \in Copy
        BY <1>0
      <4> QED
        BY <4>1, NoneIsApart DEF Copy
    <3> QED
      BY <1>6, <3>2, <3>3, <3>4 DEF Shown
  <2> QED
    BY <2>1, <2>2
<1> QED
  BY <1>0, <1>2, <1>3, <1>4, <1>5, <1>6 DEF WriteOps

\* The records stay of one succession of writes.
LEMMA RecordKept ==
    ASSUME MembersInv, Careful, LevelInv, RecordInv, [Next]_vars
    PROVE  RecordInv'
<1>0. PICK W \in SUBSET (1..MaxWrites), K \in [1..MaxWrites -> Contents \cup {None}] :
        Recorded(W, K)
  BY DEF RecordInv
<1>1. ASSUME NEW u \in Users, CommitWrite(u) PROVE RecordInv'
  BY <1>0, <1>1, RecordWritten
<1>2. ASSUME \A u \in Users : ~CommitWrite(u) PROVE RecordInv'
  <2>1. writes' = writes
    <3>1. TypeOK /\ Places
      BY DEF MembersInv, Typed
    <3>2. ASSUME NEW u \in Users,
                 \/ Starts(u) \/ RollBack(u) \/ CommitJoin(u) \/ CommitWithdraw(u)
                 \/ CommitDeparture(u) \/ CommitThaw(u)
          PROVE  writes' = writes
      BY <3>2 DEF Starts, RollBack, CommitJoin, CommitWithdraw, CommitDeparture, CommitThaw
    <3>3. ASSUME NEW u \in Users,
                 \/ CreateShare(u) \/ Prepare(u) \/ CancelShare(u) \/ Activate(u)
                 \/ Decline(u) \/ Finalize(u)
                 \/ \E r \in Rooms[u] : SetRoom(u, r)
                 \/ \E v \in Users : Invite(u, v)
          PROVE  writes' = writes
      BY <3>3 DEF CreateShare, Prepare, CancelShare, Activate, Decline, Finalize, SetRoom, Invite
    <3>4. UNCHANGED vars => writes' = writes
      BY DEF vars
    <3> QED
      BY <1>2, <3>1, <3>2, <3>3, <3>4, StepKinds
  <2>2. ASSUME NEW u \in Users PROVE ReadBy(u, W, K)'
    BY <1>0, <1>2, <2>1, ReadKept
  <2>3. ASSUME NEW u \in Keepers' PROVE KeptBy(u, W, K)'
    <3>0. u \in Users
      BY InitiatorIsAUser DEF Keepers, Live
    <3> SUFFICES ASSUME copy'[u] # None
                 PROVE  /\ Told(copy'[u].history, W, K, writes') /\ Early(copy'[u].history, W)
                        /\ SoFar(copy'[u].history, W)
                        /\ Abreast(u)' => Full(copy'[u], W, K, writes')
      BY DEF KeptBy
    <3>1. ASSUME Full(copy'[u], W, K, writes)
          PROVE  /\ Told(copy'[u].history, W, K, writes') /\ Early(copy'[u].history, W)
                 /\ SoFar(copy'[u].history, W)
                 /\ Abreast(u)' => Full(copy'[u], W, K, writes')
      BY <2>1, <3>1, WholeSoFar DEF Full
    <3>2. CASE CommitJoin(u)
      BY <1>0, <3>0, <3>1, <3>2, JoinKept
    <3>3. CASE CommitThaw(u)
      <4>1. u \in Keepers /\ (Unshared' <=> Unshared)
        BY <3>3 DEF CommitThaw, Keepers, Live, Unshared
      <4>2. CASE ~Unshared
        BY <1>0, <3>0, <3>1, <3>3, <4>1, <4>2, ThawKept
      <4>3. CASE Unshared
        <5>1. copy'[u] = CaughtUp(copy[u], tx[u].source) /\ Doing(u, {"thaw"})
          BY <3>0, <3>3, ThawTyped DEF CommitThaw
        <5>2. tx[u].source = None
          BY <1>0, <3>0, <4>3, <5>1 DEF Recorded, ReadBy
        <5>3. copy'[u] = copy[u]
          BY <5>1, <5>2 DEF CaughtUp
        <5> QED
          BY <1>0, <2>1, <4>1, <4>3, <5>3 DEF Recorded, KeptBy, Abreast
      <4> QED
        BY <4>2, <4>3
    <3>4. CASE ~CommitJoin(u) /\ ~CommitThaw(u)
      <4>1. /\ u \in Keepers /\ (Abreast(u)' => Abreast(u))
            /\ copy[u] # None /\ copy'[u].history = copy[u].history
            /\ copy'[u].live = copy[u].live /\ copy'[u].content = copy[u].content
        BY <1>2, <3>4, KeptAsIs
      <4>2. KeptBy(u, W, K)
        BY <1>0, <4>1 DEF Recorded
      <4> QED
        BY <2>1, <4>1, <4>2 DEF KeptBy, Full
    <3> QED
      BY <3>2, <3>3, <3>4
  <2>4. Recorded(W, K)'
    BY <1>0, <2>1, <2>2, <2>3 DEF Recorded
  <2> QED
    BY <2>4 DEF RecordInv
<1> QED
  BY <1>1, <1>2

LEMMA RecordStart == Init => RecordInv
<1> SUFFICES ASSUME Init PROVE RecordInv
  OBVIOUS
<1>1. \A u \in Users : tx[u] = None /\ copy[u] = None
  BY DEF Init
<1> DEFINE K == [n \in 1..MaxWrites |-> None]
<1>2. K \in [1..MaxWrites -> Contents \cup {None}]
  OBVIOUS
<1>3. \A u \in Users : KeptBy(u, {}, K) /\ ReadBy(u, {}, K)
  BY <1>1 DEF KeptBy, ReadBy, Doing
<1>4. Keepers \subseteq Users
  BY InitiatorIsAUser DEF Keepers, Live
<1> HIDE DEF K
<1>5. Recorded({}, K)
  BY <1>3, <1>4 DEF Recorded
<1> QED
  BY <1>2, <1>5 DEF RecordInv

LEMMA RecordHolds ==
    ASSUME Careful
    PROVE  Spec => []RecordInv
<1>1. MembersInv /\ LevelInv /\ RecordInv /\ [Next]_vars => RecordInv'
  BY RecordKept
<1> QED
  BY <1>1, MembersHold, LevelHolds, RecordStart, PTL DEF Spec

\* Two whole records of one succession of writes have one another's versions.
LEMMA WholeHasAll ==
    ASSUME NEW W \in SUBSET (1..MaxWrites), NEW K, NEW n, NEW c \in Copy,
           Full(c, W, K, n), NEW e \in Entry, e.at[2] = None, e.at[1] \in W,
           NEW w \in W, Of(W, e, w), e.content = K[w]
    PROVE  Has(c, e)
<1> DEFINE h == c.history
<1>0. /\ W \subseteq Nat /\ h \in Seq(Entry) /\ Told(h, W, K, n) /\ Early(h, W) /\ Whole(h, W)
  BY BoundsAreNaturals DEF Copy, Full
<1>1. w = e.at[1]
  <2> DEFINE a == e.at[1]
  <2>1. a \in W
    OBVIOUS
  <2>2. w <= a /\ (a <= w \/ a < a)
    BY DEF Of
  <2> HIDE DEF a
  <2>3. w = a
    BY <1>0, <2>1, <2>2
  <2> QED
    BY <2>3 DEF a
<1> HIDE DEF h
<1>2. \E j \in DOMAIN h : Of(W, h[j], w)
  <2>1. PICK i \in DOMAIN h : \E x \in W : Of(W, h[i], x) /\ \A y \in W : x <= y
    BY <1>0 DEF Early
  <2>2. PICK x \in W : Of(W, h[i], x) /\ \A y \in W : x <= y
    BY <2>1
  <2>3. x = w \/ x < w
    BY <1>0, <2>2
  <2> QED
    BY <1>0, <2>2, <2>3 DEF Whole
<1>3. PICK j \in DOMAIN h : Of(W, h[j], w)
  BY <1>2
<1>4. PICK f \in Entry : f = h[j]
  BY <1>0, ElementOfSeq, LenProperties
<1>5. f.content = e.content
  <2>1. PICK x \in W : Of(W, f, x) /\ f.content = K[x]
    BY <1>0, <1>4 DEF Told
  <2> QED
    BY <1>3, <1>4, <2>1, OfOne
<1>6. f.at[2] = None => f.at = e.at
  <2> SUFFICES ASSUME f.at[2] = None PROVE f.at[1] = e.at[1]
    BY EntryParts
  <2> DEFINE a == f.at[1]
  <2>1. a \in W
    BY <1>0, <1>4 DEF Told
  <2>2. w <= a /\ (a <= w \/ a < a)
    BY <1>3, <1>4, <2>1 DEF Of
  <2> HIDE DEF a
  <2>3. w = a
    BY <1>0, <2>1, <2>2
  <2> QED
    BY <1>1, <2>3 DEF a
<1>7. f.at[1] >= e.at[1]
  <2>1. w <= f.at[1] /\ f.at[1] \in Nat /\ w \in Nat
    BY <1>0, <1>3, <1>4, EntryParts, BoundsAreNaturals DEF Of
  <2> QED
    BY <1>1, <2>1
<1>8. f \in Range(c.history)
  BY <1>4 DEF Range, h
<1> QED
  BY <1>5, <1>6, <1>7, <1>8 DEF Has

\* Where nobody joins or catches up beside a write, or from what is not level,
\* whoever is in the share, has room and has nothing to catch up with has every
\* version there is of the file, or the head of a join that stands for it
\* (propagate.ts, membership.ts).
THEOREM RecordIsWhole ==
    ASSUME Careful
    PROVE  Spec => []RecordHasNoHole
<1>1. MembersInv /\ RecordInv => RecordHasNoHole
  <2> SUFFICES ASSUME MembersInv, RecordInv, NEW u \in Level, NEW v \in Level,
                      copy[u] # None, copy[v] # None,
                      NEW e \in Range(copy[v].history), e.at[2] = None
               PROVE  Has(copy[u], e)
    BY DEF RecordHasNoHole
  <2>1. PICK W \in SUBSET (1..MaxWrites), K \in [1..MaxWrites -> Contents \cup {None}] :
          Recorded(W, K)
    BY DEF RecordInv
  <2>2. \A x \in Level : x \in Keepers /\ x \in Users /\ Abreast(x)
    BY DEF Level, LiveUnfrozen, Live, Keepers, Abreast
  <2>3. copy[u] \in Copy /\ copy[v] \in Copy
    BY <2>2 DEF MembersInv, Typed, TypeOK
  <2>4. Full(copy[u], W, K, writes) /\ Told(copy[v].history, W, K, writes)
    BY <2>1, <2>2 DEF Recorded, KeptBy
  <2>5. PICK i \in DOMAIN copy[v].history : e = copy[v].history[i]
    BY DEF Range
  <2>6. e \in Entry
    <3>1. copy[v].history \in Seq(Entry)
      BY <2>3 DEF Copy
    <3> QED
      BY <2>5, <3>1, ElementOfSeq, LenProperties
  <2>7. PICK w \in W : Of(W, e, w) /\ e.content = K[w]
    BY <2>4, <2>5 DEF Told
  <2>8. e.at[1] \in W
    BY <2>4, <2>5 DEF Told
  <2> QED
    BY <2>3, <2>4, <2>6, <2>7, <2>8, WholeHasAll
<1> QED
  BY <1>1, MembersHold, RecordHolds, PTL

-----------------------------------------------------------------------------
(* FolderMoves: paths.                                                     *)

Paths == Seq(Names) \ {<<>>}

\* At a path, or in it.
Within(d, p) == p = d \/ Under(d, p)

LEMMA UnderMeans ==
  ASSUME NEW S, NEW a \in Seq(S), NEW b \in Seq(S)
  PROVE  /\ Under(a, b) <=> Len(a) < Len(b) /\ \A i \in 1..Len(a) : a[i] = b[i]
         /\ Within(a, b) <=> Len(a) <= Len(b) /\ \A i \in 1..Len(a) : a[i] = b[i]
<1>1. Len(a) \in Nat /\ Len(b) \in Nat
  BY LenProperties
<1>2. Len(a) <= Len(b) =>
        /\ SubSeq(a, 1, Len(a)) \in Seq(S) /\ Len(SubSeq(a, 1, Len(a))) = Len(a)
        /\ \A i \in 1..Len(a) : SubSeq(a, 1, Len(a))[i] = a[i]
        /\ SubSeq(b, 1, Len(a)) \in Seq(S) /\ Len(SubSeq(b, 1, Len(a))) = Len(a)
        /\ \A i \in 1..Len(a) : SubSeq(b, 1, Len(a))[i] = b[i]
  BY <1>1
<1>3. IsPrefix(a, b) <=> Len(a) <= Len(b) /\ \A i \in 1..Len(a) : a[i] = b[i]
  <2>1. CASE Len(a) <= Len(b)
    <3>1. (\A i \in 1..Len(a) : a[i] = b[i]) => SubSeq(a, 1, Len(a)) = SubSeq(b, 1, Len(a))
      <4>1. ASSUME \A i \in 1..Len(a) : a[i] = b[i]
            PROVE  SubSeq(a, 1, Len(a)) = SubSeq(b, 1, Len(a))
        <5>1. \A i \in 1..Len(SubSeq(a, 1, Len(a))) :
                SubSeq(a, 1, Len(a))[i] = SubSeq(b, 1, Len(a))[i]
          BY <4>1, <1>2, <2>1
        <5> QED BY <5>1, <1>2, <2>1, SeqEqual
      <4> QED BY <4>1
    <3> QED BY <2>1, <3>1, <1>2 DEF IsPrefix
  <2> QED BY <2>1, <1>1 DEF IsPrefix
<1>4. a = b <=> Len(a) = Len(b) /\ \A i \in 1..Len(a) : a[i] = b[i]
  BY SeqEqual
<1>5. Under(a, b) <=> IsPrefix(a, b) /\ a # b
  BY DEF Under, IsStrictPrefix
<1>6. Under(a, b) <=> Len(a) < Len(b) /\ \A i \in 1..Len(a) : a[i] = b[i]
  BY <1>1, <1>3, <1>4, <1>5
<1> QED BY <1>1, <1>4, <1>6 DEF Within

LEMMA WithinStarts ==
  ASSUME NEW S, NEW a \in Seq(S), NEW b \in Seq(S), Within(a, b)
  PROVE  Len(a) <= Len(b) /\ \A i \in 1..Len(a) : a[i] = b[i]
BY UnderMeans

LEMMA FrontMeans ==
  ASSUME NEW S, NEW p \in Seq(S), p # <<>>
  PROVE  /\ Front(p) \in Seq(S) /\ Len(Front(p)) = Len(p) - 1 /\ Len(p) \in Nat \ {0}
         /\ \A i \in 1..Len(p) - 1 : Front(p)[i] = p[i]
         /\ Last(p) = p[Len(p)] /\ Last(p) \in S
<1>1. Len(p) \in Nat \ {0} /\ Len(p) - 1 \in Nat
  BY EmptySeq, LenProperties
<1>2. p[Len(p)] \in S
  BY <1>1, ElementOfSeq
<1>3. Front(p) = SubSeq(p, 1, Len(p) - 1) /\ Last(p) = p[Len(p)]
  BY DEF Front, Last
<1>4. /\ SubSeq(p, 1, Len(p) - 1) \in Seq(S)
      /\ Len(SubSeq(p, 1, Len(p) - 1)) = Len(p) - 1
      /\ \A i \in 1..Len(p) - 1 : SubSeq(p, 1, Len(p) - 1)[i] = p[i]
  <2> DEFINE m == Len(p) - 1
  <2>1. m \in 0..Len(p) /\ 1 \in 1..Len(p) + 1 /\ m = Len(p) - 1
    BY <1>1
  <2> HIDE DEF m
  <2>2. /\ SubSeq(p, 1, m) \in Seq(S) /\ Len(SubSeq(p, 1, m)) = IF 1 <= m THEN m - 1 + 1 ELSE 0
        /\ \A i \in 1..m - 1 + 1 : SubSeq(p, 1, m)[i] = p[1 + i - 1]
    BY <1>1, <2>1, SubSeqProperties, Z3
  <2>3. \A i \in 1..m : i \in 1..m - 1 + 1 /\ 1 + i - 1 = i
    BY <2>1
  <2>4. (IF 1 <= m THEN m - 1 + 1 ELSE 0) = m
    BY <2>1
  <2> QED BY <2>1, <2>2, <2>3, <2>4
<1> QED BY <1>1, <1>2, <1>3, <1>4

\* What is above a path is its folder, or above that.
LEMMA UnderFront ==
  ASSUME NEW S, NEW p \in Seq(S), p # <<>>, NEW d \in Seq(S)
  PROVE  Under(d, p) <=> Within(d, Front(p))
<1>1. /\ Front(p) \in Seq(S) /\ Len(Front(p)) = Len(p) - 1 /\ Len(p) \in Nat \ {0}
      /\ \A i \in 1..Len(p) - 1 : Front(p)[i] = p[i]
  BY FrontMeans
<1>2. Len(d) \in Nat
  BY LenProperties
<1>3. Under(d, p) <=> Len(d) < Len(p) /\ \A i \in 1..Len(d) : d[i] = p[i]
  BY UnderMeans
<1>4. Within(d, Front(p)) <=> Len(d) <= Len(p) - 1 /\ \A i \in 1..Len(d) : d[i] = Front(p)[i]
  BY <1>1, UnderMeans
<1> HIDE DEF Within
<1> QED BY <1>1, <1>2, <1>3, <1>4

LEMMA ChildMeans ==
  ASSUME NEW S, NEW d \in Seq(S), NEW x \in S
  PROVE  /\ Child(d, x) \in Seq(S) /\ Child(d, x) # <<>>
         /\ Parent(Child(d, x)) = d /\ Last(Child(d, x)) = x
<1> DEFINE c == Child(d, x)
<1>1. /\ c \in Seq(S) /\ Len(c) = Len(d) + 1 /\ c[Len(d) + 1] = x
      /\ \A i \in 1..Len(d) : c[i] = d[i]
  BY AppendProperties DEF Child
<1>2. Len(d) \in Nat /\ c # <<>>
  BY <1>1, LenProperties, EmptySeq
<1> HIDE DEF c
<1>3. /\ Front(c) \in Seq(S) /\ Len(Front(c)) = Len(d)
      /\ \A i \in 1..Len(d) : Front(c)[i] = d[i]
      /\ Last(c) = x
  BY <1>1, <1>2, FrontMeans
<1>4. Front(c) = d
  BY <1>3, SeqEqual
<1> QED BY <1>1, <1>2, <1>3, <1>4 DEF c, Parent

LEMMA ChildOfParent ==
  ASSUME NEW S, NEW p \in Seq(S), p # <<>>
  PROVE  p = Child(Parent(p), Last(p)) /\ Parent(p) \in Seq(S)
<1> DEFINE c == Child(Parent(p), Last(p))
<1>1. /\ Front(p) \in Seq(S) /\ Len(Front(p)) = Len(p) - 1 /\ Len(p) \in Nat \ {0}
      /\ \A i \in 1..Len(p) - 1 : Front(p)[i] = p[i]
      /\ Last(p) = p[Len(p)] /\ Last(p) \in S
  BY FrontMeans
<1>2. /\ c \in Seq(S) /\ Len(c) = Len(Front(p)) + 1 /\ c[Len(Front(p)) + 1] = Last(p)
      /\ \A i \in 1..Len(Front(p)) : c[i] = Front(p)[i]
  BY <1>1, AppendProperties DEF Child, Parent
<1> HIDE DEF c
<1>3. Len(c) = Len(p) /\ \A i \in 1..Len(c) : c[i] = p[i]
  BY <1>1, <1>2
<1>4. c = p
  BY <1>2, <1>3, SeqEqual
<1> QED BY <1>1, <1>4 DEF c, Parent

\* What a rewritten path is, name by name.
IsRehung(r, p, from, to) ==
  /\ Len(from) <= Len(p)
  /\ Len(r) = Len(to) + (Len(p) - Len(from))
  /\ \A i \in 1..Len(to) : r[i] = to[i]
  /\ \A i \in 1..Len(p) - Len(from) : r[Len(to) + i] = p[Len(from) + i]

LEMMA RehungMeans ==
  ASSUME NEW S, NEW p \in Seq(S), NEW from \in Seq(S), NEW to \in Seq(S), Within(from, p)
  PROVE  /\ Rehung(p, from, to) \in Seq(S)
         /\ IsRehung(Rehung(p, from, to), p, from, to)
         /\ Within(to, Rehung(p, from, to))
<1> DEFINE r == Rel(from, p)
           c == to \o r
<1>1. Len(p) \in Nat /\ Len(from) \in Nat /\ Len(to) \in Nat
  BY LenProperties
<1>2. Len(from) <= Len(p)
  BY UnderMeans
<1>3. /\ r \in Seq(S) /\ Len(r) = Len(p) - Len(from)
      /\ \A i \in 1..Len(p) - Len(from) : r[i] = p[Len(from) + i]
  BY <1>1, <1>2 DEF Rel
<1>4. Rehung(p, from, to) = c
  BY DEF Rehung, Within
<1> HIDE DEF r
<1>5. /\ c \in Seq(S) /\ Len(c) = Len(to) + Len(r)
      /\ \A i \in 1..Len(to) + Len(r) : c[i] = IF i <= Len(to) THEN to[i] ELSE r[i - Len(to)]
  BY <1>3, ConcatProperties
<1> HIDE DEF c
<1>6. \A i \in 1..Len(to) : c[i] = to[i]
  <2>1. TAKE i \in 1..Len(to)
  <2>2. i \in 1..Len(to) + Len(r) /\ i <= Len(to)
    BY <1>1, <1>2, <1>3
  <2> QED BY <2>2, <1>5
<1>7. \A i \in 1..Len(p) - Len(from) : c[Len(to) + i] = p[Len(from) + i]
  <2>1. TAKE i \in 1..Len(p) - Len(from)
  <2>2. /\ Len(to) + i \in 1..Len(to) + Len(r) /\ ~(Len(to) + i <= Len(to))
        /\ Len(to) + i - Len(to) = i
    BY <1>1, <1>2, <1>3
  <2> QED BY <2>2, <1>3, <1>5
<1>8. Within(to, c)
  BY <1>1, <1>2, <1>3, <1>5, <1>6, UnderMeans
<1> QED BY <1>2, <1>3, <1>4, <1>5, <1>6, <1>7, <1>8 DEF IsRehung

LEMMA RehungBelow ==
  ASSUME NEW S, NEW p \in Seq(S), NEW from \in Seq(S), NEW to \in Seq(S), to # <<>>,
         Under(from, p)
  PROVE  /\ Rehung(p, from, to) # <<>>
         /\ Within(from, Parent(p))
         /\ Parent(Rehung(p, from, to)) = Rehung(Parent(p), from, to)
         /\ Last(Rehung(p, from, to)) = Last(p)
<1> DEFINE r == Rehung(p, from, to)
           f == Rehung(Front(p), from, to)
<1>1. Len(p) \in Nat /\ Len(from) \in Nat /\ Len(to) \in Nat \ {0}
  BY LenProperties, EmptySeq
<1>2. Len(from) < Len(p) /\ p # <<>> /\ Within(from, p)
  BY <1>1, UnderMeans, EmptySeq DEF Within
<1>3. Within(from, Front(p))
  BY <1>2, UnderFront
<1>4. /\ Front(p) \in Seq(S) /\ Len(Front(p)) = Len(p) - 1
      /\ \A i \in 1..Len(p) - 1 : Front(p)[i] = p[i]
      /\ Last(p) = p[Len(p)]
  BY <1>2, FrontMeans
<1>5. /\ r \in Seq(S) /\ Len(r) = Len(to) + (Len(p) - Len(from))
      /\ \A i \in 1..Len(to) : r[i] = to[i]
      /\ \A i \in 1..Len(p) - Len(from) : r[Len(to) + i] = p[Len(from) + i]
  <2>1. Rehung(p, from, to) \in Seq(S) /\ IsRehung(Rehung(p, from, to), p, from, to)
    BY <1>2, RehungMeans
  <2> QED BY <1>2, <2>1 DEF IsRehung
<1>6. /\ f \in Seq(S) /\ Len(f) = Len(to) + (Len(p) - 1 - Len(from))
      /\ \A i \in 1..Len(to) : f[i] = to[i]
      /\ \A i \in 1..Len(p) - 1 - Len(from) : f[Len(to) + i] = Front(p)[Len(from) + i]
  <2>1. Rehung(Front(p), from, to) \in Seq(S) /\ IsRehung(Rehung(Front(p), from, to), Front(p), from, to)
    BY <1>3, <1>4, RehungMeans
  <2> QED BY <1>3, <1>4, <2>1 DEF IsRehung
<1> HIDE DEF r, f
<1>7. Len(r) \in Nat \ {0} /\ r # <<>>
  BY <1>1, <1>2, <1>5, EmptySeq
<1>8. /\ Front(r) \in Seq(S) /\ Len(Front(r)) = Len(r) - 1
      /\ \A i \in 1..Len(r) - 1 : Front(r)[i] = r[i]
      /\ Last(r) = r[Len(r)]
  BY <1>5, <1>7, FrontMeans
<1>9. Last(r) = Last(p)
  <2>1. /\ Len(p) - Len(from) \in 1..Len(p) - Len(from)
        /\ Len(from) + (Len(p) - Len(from)) = Len(p)
    BY <1>1, <1>2
  <2> QED BY <2>1, <1>4, <1>5, <1>8
<1>10. \A i \in 1..Len(f) : Front(r)[i] = f[i]
  <2>1. TAKE i \in 1..Len(f)
  <2>2. Front(r)[i] = r[i] /\ i \in Nat
    BY <1>1, <1>2, <1>5, <1>6, <1>8
  <2>3. CASE i <= Len(to)
    BY <2>2, <2>3, <1>1, <1>5, <1>6
  <2>4. CASE ~(i <= Len(to))
    <3> DEFINE j == i - Len(to)
    <3>1. j \in 1..Len(p) - 1 - Len(from) /\ j \in 1..Len(p) - Len(from) /\ i = Len(to) + j
      BY <2>4, <1>1, <1>2, <1>6
    <3>2. Len(from) + j \in 1..Len(p) - 1
      BY <3>1, <1>1, <1>2
    <3> HIDE DEF j
    <3>3. r[Len(to) + j] = p[Len(from) + j] /\ f[Len(to) + j] = Front(p)[Len(from) + j]
      BY <3>1, <1>5, <1>6
    <3>4. Front(p)[Len(from) + j] = p[Len(from) + j]
      BY <3>2, <1>4
    <3> QED BY <2>2, <3>1, <3>3, <3>4
  <2> QED BY <2>3, <2>4
<1>11. Len(Front(r)) = Len(f)
  BY <1>1, <1>2, <1>5, <1>6, <1>8
<1>12. Front(r) = f
  BY <1>6, <1>8, <1>10, <1>11, SeqEqual
<1> QED BY <1>3, <1>7, <1>9, <1>12 DEF r, f, Parent

\* Different paths are rewritten to different ones.
LEMMA RehungApart ==
  ASSUME NEW S, NEW p \in Seq(S), NEW q \in Seq(S), NEW from \in Seq(S), NEW to \in Seq(S),
         Within(from, p), Within(from, q), Rehung(p, from, to) = Rehung(q, from, to)
  PROVE  p = q
<1> DEFINE r == Rehung(p, from, to)
<1>1. Len(p) \in Nat /\ Len(q) \in Nat /\ Len(from) \in Nat /\ Len(to) \in Nat
  BY LenProperties
<1>2. /\ Len(from) <= Len(p) /\ Len(r) = Len(to) + (Len(p) - Len(from))
      /\ \A i \in 1..Len(p) - Len(from) : r[Len(to) + i] = p[Len(from) + i]
  <2>1. Rehung(p, from, to) \in Seq(S) /\ IsRehung(Rehung(p, from, to), p, from, to)
    BY RehungMeans
  <2> QED BY <2>1 DEF IsRehung
<1>3. /\ Len(from) <= Len(q) /\ Len(r) = Len(to) + (Len(q) - Len(from))
      /\ \A i \in 1..Len(q) - Len(from) : r[Len(to) + i] = q[Len(from) + i]
  <2>1. Rehung(q, from, to) \in Seq(S) /\ IsRehung(Rehung(q, from, to), q, from, to)
    BY RehungMeans
  <2> QED BY <2>1 DEF IsRehung
<1> HIDE DEF r
<1>4. Len(p) = Len(q)
  BY <1>1, <1>2, <1>3
<1>5. /\ \A i \in 1..Len(from) : from[i] = p[i]
      /\ \A i \in 1..Len(from) : from[i] = q[i]
  BY WithinStarts
<1>6. \A i \in 1..Len(p) : p[i] = q[i]
  <2>1. TAKE i \in 1..Len(p)
  <2>2. CASE i <= Len(from)
    BY <2>2, <1>1, <1>5
  <2>3. CASE ~(i <= Len(from))
    <3> DEFINE j == i - Len(from)
    <3>1. j \in 1..Len(p) - Len(from) /\ i = Len(from) + j
      BY <2>3, <1>1, <1>2
    <3> HIDE DEF j
    <3> QED BY <3>1, <1>2, <1>3, <1>4
  <2> QED BY <2>2, <2>3
<1> QED BY <1>4, <1>6, SeqEqual

\* What is above a rewritten path is above the new place, or rewritten itself.
LEMMA RehungAbove ==
  ASSUME NEW S, NEW p \in Seq(S), NEW from \in Seq(S), NEW to \in Seq(S), NEW y \in Seq(S),
         Within(from, p), Under(y, Rehung(p, from, to))
  PROVE  \/ Under(y, to)
         \/ \E x \in Seq(S) : Within(from, x) /\ Under(x, p) /\ y = Rehung(x, from, to)
<1> DEFINE r == Rehung(p, from, to)
<1>1. Len(p) \in Nat /\ Len(from) \in Nat /\ Len(to) \in Nat /\ Len(y) \in Nat
  BY LenProperties
<1>2. /\ r \in Seq(S) /\ Len(from) <= Len(p) /\ Len(r) = Len(to) + (Len(p) - Len(from))
      /\ \A i \in 1..Len(to) : r[i] = to[i]
      /\ \A i \in 1..Len(p) - Len(from) : r[Len(to) + i] = p[Len(from) + i]
  <2>1. Rehung(p, from, to) \in Seq(S) /\ IsRehung(Rehung(p, from, to), p, from, to)
    BY RehungMeans
  <2> QED BY <2>1 DEF IsRehung
<1>3. Len(y) < Len(r) /\ \A i \in 1..Len(y) : y[i] = r[i]
  BY <1>2, UnderMeans
<1>4. \A i \in 1..Len(from) : from[i] = p[i]
  BY WithinStarts
<1> HIDE DEF r
<1>5. CASE Len(y) < Len(to)
  <2>1. \A i \in 1..Len(y) : y[i] = to[i]
    BY <1>1, <1>2, <1>3, <1>5
  <2> QED BY <2>1, <1>5, UnderMeans
<1>6. CASE ~(Len(y) < Len(to))
  <2> DEFINE m == Len(from) + (Len(y) - Len(to))
             x == SubSeq(p, 1, m)
  <2>1. m \in Nat /\ m < Len(p) /\ Len(from) <= m /\ Len(y) = Len(to) + (m - Len(from))
    BY <1>1, <1>2, <1>3, <1>6
  <2> HIDE DEF m
  <2>2. x \in Seq(S) /\ Len(x) = m /\ \A i \in 1..m : x[i] = p[i]
    <3>1. \A i \in 1..m : p[i] \in S
      BY <1>1, <2>1, ElementOfSeq
    <3>2. /\ x \in Seq(S) /\ Len(x) = IF 1 <= m THEN m - 1 + 1 ELSE 0
          /\ \A i \in 1..m - 1 + 1 : x[i] = p[1 + i - 1]
      BY <2>1, <3>1, SubSeqProperties, Z3
    <3>3. \A i \in 1..m : i \in 1..m - 1 + 1 /\ 1 + i - 1 = i
      BY <2>1
    <3>4. (IF 1 <= m THEN m - 1 + 1 ELSE 0) = m
      BY <2>1
    <3> HIDE DEF x
    <3> QED BY <3>2, <3>3, <3>4
  <2> HIDE DEF x
  <2>3. Under(x, p)
    BY <2>1, <2>2, UnderMeans
  <2>4. Within(from, x)
    <3>1. \A i \in 1..Len(from) : i \in 1..m
      BY <1>1, <2>1
    <3>2. \A i \in 1..Len(from) : from[i] = x[i]
      BY <3>1, <1>4, <2>2
    <3> QED BY <3>2, <2>1, <2>2, UnderMeans
  <2>5. /\ Rehung(x, from, to) \in Seq(S)
        /\ Len(Rehung(x, from, to)) = Len(to) + (m - Len(from))
        /\ \A i \in 1..Len(to) : Rehung(x, from, to)[i] = to[i]
        /\ \A i \in 1..m - Len(from) : Rehung(x, from, to)[Len(to) + i] = x[Len(from) + i]
    <3>1. Rehung(x, from, to) \in Seq(S) /\ IsRehung(Rehung(x, from, to), x, from, to)
      BY <2>2, <2>4, RehungMeans
    <3> QED BY <2>2, <2>4, <3>1 DEF IsRehung
  <2>6. \A i \in 1..Len(y) : y[i] = Rehung(x, from, to)[i]
    <3>1. TAKE i \in 1..Len(y)
    <3>2. y[i] = r[i]
      BY <1>3
    <3>3. CASE i <= Len(to)
      BY <3>2, <3>3, <1>1, <1>2, <2>5
    <3>4. CASE ~(i <= Len(to))
      <4> DEFINE j == i - Len(to)
      <4>1. /\ j \in 1..m - Len(from) /\ j \in 1..Len(p) - Len(from) /\ i = Len(to) + j
            /\ Len(from) + j \in 1..m
        BY <3>4, <1>1, <2>1
      <4> HIDE DEF j
      <4>2. r[Len(to) + j] = p[Len(from) + j] /\ x[Len(from) + j] = p[Len(from) + j]
        BY <4>1, <1>2, <2>2
      <4>3. Rehung(x, from, to)[Len(to) + j] = x[Len(from) + j]
        BY <4>1, <2>5
      <4> QED BY <3>2, <4>1, <4>2, <4>3
    <3> QED BY <3>3, <3>4
  <2>7. y = Rehung(x, from, to)
    BY <2>1, <2>5, <2>6, SeqEqual
  <2> QED BY <2>2, <2>3, <2>4, <2>7
<1> QED BY <1>5, <1>6

\* A path inside another is inside whatever that is inside of.
LEMMA WithinChain ==
  ASSUME NEW S, NEW a \in Seq(S), NEW b \in Seq(S), NEW c \in Seq(S),
         Within(a, b), Within(b, c)
  PROVE  Within(a, c) /\ (Under(b, c) => Under(a, c)) /\ (Under(a, b) => Under(a, c))
<1>1. Len(a) \in Nat /\ Len(b) \in Nat /\ Len(c) \in Nat
  BY LenProperties
<1>2. Len(a) <= Len(b) /\ \A i \in 1..Len(a) : a[i] = b[i]
  BY WithinStarts
<1>3. Len(b) <= Len(c) /\ \A i \in 1..Len(b) : b[i] = c[i]
  BY WithinStarts
<1>4. \A i \in 1..Len(a) : a[i] = c[i]
  <2>1. \A i \in 1..Len(a) : i \in 1..Len(b)
    BY <1>1, <1>2
  <2> QED BY <2>1, <1>2, <1>3
<1>5. Len(a) <= Len(c)
  BY <1>1, <1>2, <1>3
<1>6. Within(a, c)
  BY <1>4, <1>5, UnderMeans
<1>7. ASSUME Under(b, c) PROVE Under(a, c)
  <2>1. Len(b) < Len(c)
    BY <1>7, UnderMeans
  <2>2. Len(a) < Len(c)
    BY <2>1, <1>1, <1>2
  <2> QED BY <2>2, <1>4, UnderMeans
<1>8. ASSUME Under(a, b) PROVE Under(a, c)
  <2>1. Len(a) < Len(b)
    BY <1>8, UnderMeans
  <2>2. Len(a) < Len(c)
    BY <2>1, <1>1, <1>3
  <2> QED BY <2>2, <1>4, UnderMeans
<1> QED BY <1>6, <1>7, <1>8

\* Nothing is above what has no names.
LEMMA NothingAboveTop ==
  ASSUME NEW S, NEW d \in Seq(S)
  PROVE  /\ ~Under(d, <<>>)
         /\ Within(d, <<>>) => d = <<>>
         /\ ~Under(d, d)
<1>1. Len(d) \in Nat /\ <<>> \in Seq(S) /\ Len(<<>>) = 0
  BY LenProperties, EmptySeq
<1>2. ~Under(d, <<>>)
  <2>1. Under(d, <<>>) => Len(d) < 0
    BY <1>1, UnderMeans
  <2> QED BY <2>1, <1>1
<1>3. ~Under(d, d)
  BY DEF Under, IsStrictPrefix
<1> QED BY <1>2, <1>3 DEF Within

LEMMA PathsAre ==
  /\ FileNames \subseteq Names
  /\ Folders \subseteq Paths /\ FilePaths \subseteq Paths
  /\ \A d \in Folders : Parent(d) \in Folders \cup {<<>>} /\ Last(d) \notin FileNames
  /\ \A p \in FilePaths : Parent(p) \in Folders \cup {<<>>} /\ Last(p) \in FileNames
<1>1. ASSUME NEW x \in FileNames PROVE x \in Names
  <2>2. Child(<<>>, x) \in FilePaths
    BY DEF FilePaths
  <2>3. Last(Child(<<>>, x)) = x
    <3>1. <<>> \in Seq({x}) /\ x \in {x}
      BY EmptySeq
    <3> QED BY <3>1, ChildMeans
  <2> QED BY <2>2, <2>3 DEF Names
<1>2. ASSUME NEW d \in Folders PROVE d \in Seq(Names) /\ d # <<>>
  BY FoldersAreClosed
<1>3. ASSUME NEW d \in Folders PROVE Parent(d) \in Folders \cup {<<>>}
  <2>1. /\ Front(d) \in Seq(Names) /\ Len(Front(d)) = Len(d) - 1 /\ Len(d) \in Nat \ {0}
        /\ Front(d) = SubSeq(d, 1, Len(d) - 1)
    BY <1>2, FrontMeans DEF Front
  <2>2. CASE Len(d) = 1
    <3>1. Len(Front(d)) = 0
      BY <2>1, <2>2
    <3> QED BY <3>1, <2>1, EmptySeq DEF Parent
  <2>3. CASE Len(d) # 1
    <3>1. Len(d) - 1 \in 1..Len(d)
      BY <2>1, <2>3
    <3> QED BY <3>1, <2>1, FoldersAreClosed DEF Parent
  <2> QED BY <2>2, <2>3
<1>4. ASSUME NEW p \in FilePaths
      PROVE  /\ p \in Seq(Names) /\ p # <<>>
             /\ Parent(p) \in Folders \cup {<<>>} /\ Last(p) \in FileNames
  <2>1. PICK d \in Folders \cup {<<>>}, x \in FileNames : p = Child(d, x)
    BY DEF FilePaths
  <2>2. d \in Seq(Names) /\ x \in Names
    BY <1>1, <1>2, EmptySeq
  <2>3. /\ Child(d, x) \in Seq(Names) /\ Child(d, x) # <<>>
        /\ Parent(Child(d, x)) = d /\ Last(Child(d, x)) = x
    BY <2>2, ChildMeans
  <2> QED BY <2>1, <2>3
<1>5. ASSUME NEW d \in Folders PROVE Last(d) \notin FileNames
  <2>1. SUFFICES ASSUME Last(d) \in FileNames PROVE FALSE
    OBVIOUS
  <2>2. d = Child(Parent(d), Last(d))
    BY <1>2, ChildOfParent
  <2>3. d \in FilePaths
    BY <2>1, <2>2, <1>3 DEF FilePaths
  <2> QED BY <2>3, FilesAreNotFolders
<1> QED BY <1>1, <1>2, <1>3, <1>4, <1>5 DEF Paths

LEMMA AboveMeans ==
  ASSUME NEW p \in Paths
  PROVE  /\ \A d \in Paths : Under(d, p) <=> Within(d, Parent(p))
         /\ Parent(p) = <<>> => Above(p) = {}
         /\ Parent(p) \in Folders => Above(p) = {Parent(p)} \cup Above(Parent(p))
<1>1. /\ p \in Seq(Names) /\ p # <<>>
      /\ \A d \in Folders : d \in Seq(Names) /\ d # <<>>
  BY PathsAre DEF Paths
<1>2. \A d \in Seq(Names) : Under(d, p) <=> Within(d, Parent(p))
  BY <1>1, UnderFront DEF Parent
<1>3. ASSUME Parent(p) = <<>> PROVE Above(p) = {}
  <2>1. \A d \in Folders : ~Within(d, <<>>)
    BY <1>1, NothingAboveTop
  <2> QED BY <2>1, <1>1, <1>2, <1>3 DEF Above
<1>4. ASSUME Parent(p) \in Folders PROVE Above(p) = {Parent(p)} \cup Above(Parent(p))
  <2>1. \A d \in Folders : Under(d, p) <=> (Parent(p) = d \/ Under(d, Parent(p)))
    BY <1>1, <1>2 DEF Within
  <2> QED BY <2>1, <1>4 DEF Above
<1> QED BY <1>2, <1>3, <1>4 DEF Paths

LEMMA PrefixesAreFolders ==
  ASSUME NEW p \in Folders \cup FilePaths, NEW x \in Paths, Under(x, p)
  PROVE  x \in Above(p)
<1>1. /\ p \in Seq(Names) /\ p # <<>> /\ x \in Seq(Names) /\ x # <<>>
      /\ \A d \in Folders : d \in Seq(Names) /\ d # <<>>
  BY PathsAre DEF Paths
<1>2. ASSUME NEW d \in Folders, Within(x, d) PROVE x \in Folders
  <2>1. /\ Len(x) <= Len(d) /\ \A i \in 1..Len(x) : x[i] = d[i]
        /\ Len(x) \in Nat \ {0} /\ Len(d) \in Nat
    BY <1>1, <1>2, UnderMeans, EmptySeq, LenProperties
  <2>2. Len(x) \in 1..Len(d)
    BY <2>1
  <2>3. SubSeq(d, 1, Len(x)) \in Folders
    BY <2>2, FoldersAreClosed
  <2>4. /\ SubSeq(d, 1, Len(x)) \in Seq(Names) /\ Len(SubSeq(d, 1, Len(x))) = Len(x)
        /\ \A i \in 1..Len(x) : SubSeq(d, 1, Len(x))[i] = d[i]
    <3> DEFINE m == Len(x)
    <3>1. m \in Nat \ {0} /\ m <= Len(d) /\ d \in Seq(Names)
      BY <1>1, <2>1
    <3> HIDE DEF m
    <3>2. \A i \in 1..m : d[i] \in Names
      BY <3>1, <2>1, ElementOfSeq
    <3>3. /\ SubSeq(d, 1, m) \in Seq(Names)
          /\ Len(SubSeq(d, 1, m)) = IF 1 <= m THEN m - 1 + 1 ELSE 0
          /\ \A i \in 1..m - 1 + 1 : SubSeq(d, 1, m)[i] = d[1 + i - 1]
      BY <3>1, <3>2, SubSeqProperties, Z3
    <3>4. \A i \in 1..m : i \in 1..m - 1 + 1 /\ 1 + i - 1 = i
      BY <3>1
    <3>5. (IF 1 <= m THEN m - 1 + 1 ELSE 0) = m
      BY <3>1
    <3>6. /\ SubSeq(d, 1, m) \in Seq(Names) /\ Len(SubSeq(d, 1, m)) = m
          /\ \A i \in 1..m : SubSeq(d, 1, m)[i] = d[i]
      BY <3>3, <3>4, <3>5
    <3> QED BY <3>6 DEF m
  <2>5. SubSeq(d, 1, Len(x)) = x
    BY <2>1, <2>4, <1>1, SeqEqual
  <2> QED BY <2>3, <2>5
<1>3. x \in Folders
  <2>1. Within(x, Parent(p)) /\ Within(x, p)
    BY <1>1, UnderFront DEF Parent, Within
  <2>2. CASE p \in Folders
    BY <2>1, <2>2, <1>2
  <2>3. CASE p \in FilePaths
    <3>1. Parent(p) \in Folders \cup {<<>>}
      BY <2>3, PathsAre
    <3>2. Parent(p) # <<>>
      BY <2>1, <1>1, NothingAboveTop
    <3> QED BY <3>1, <3>2, <2>1, <1>2
  <2> QED BY <2>2, <2>3
<1> QED BY <1>3 DEF Above

-----------------------------------------------------------------------------
(* Trees.                                                                  *)

LEMMA NilIsNoRow ==
  Nil \notin Row /\ Nil \notin Texts
<1>1. Row \subseteq RowsAt(Seq(Names))
  <2>1. FilePaths \cup Folders \subseteq Seq(Names)
    BY PathsAre DEF Paths
  <2> QED BY <2>1 DEF Row, RowsAt
<1> QED BY <1>1, NilIsApart

AreRows(tree) == tree \in [Nodes -> Row \cup {Nil}]

\* A tree node by node.
Rooted(tree, n) ==
  /\ tree[n].path \in IF IsFile(tree, n) THEN FilePaths ELSE Folders
  /\ \A m \in Held(tree) : tree[m].path = tree[n].path => m = n
  /\ \A d \in Above(tree[n].path) : \E m \in Held(tree) : tree[m].path = d
  /\ tree[n].root \/
       IF Parent(tree[n].path) = <<>> THEN tree[n].share = Nil
       ELSE \A m \in Held(tree) :
              tree[m].path = Parent(tree[n].path) => tree[m].share = tree[n].share
IsGrown(tree) == \A n \in Held(tree) : Rooted(tree, n)

LEMMA RowParts ==
  ASSUME NEW tree, AreRows(tree), NEW n \in Held(tree)
  PROVE  /\ n \in Nodes /\ tree[n] # Nil /\ tree[n] \in Row
         /\ tree[n].path \in Folders \cup FilePaths /\ tree[n].path \in Paths
         /\ tree[n].text \in Texts \cup {Nil} /\ tree[n].share \in Shares \cup {Nil}
         /\ tree[n].root \in BOOLEAN
<1>1. n \in Nodes /\ tree[n] # Nil /\ tree[n] \in Row
  BY DEF Held, AreRows
<1>2. /\ tree[n].path \in Folders \cup FilePaths
      /\ tree[n].text \in Texts \cup {Nil} /\ tree[n].share \in Shares \cup {Nil}
      /\ tree[n].root \in BOOLEAN
  BY <1>1 DEF Row, RowsAt
<1> QED BY <1>1, <1>2, PathsAre

LEMMA GrownMeans ==
  ASSUME NEW tree, AreRows(tree)
  PROVE  IsTree(tree) <=> IsGrown(tree)
<1>1. ASSUME IsTree(tree), NEW n \in Held(tree) PROVE Rooted(tree, n)
  <2> DEFINE p == tree[n].path
  <2>1. /\ p \in IF IsFile(tree, n) THEN FilePaths ELSE Folders
        /\ At(tree, p) = {n}
        /\ \A d \in Above(p) : FolderAt(tree, d) # {}
        /\ ~tree[n].root => tree[n].share = ScopeAt(tree, p)
    BY <1>1 DEF IsTree
  <2>2. \A m \in Held(tree) : tree[m].path = p => m = n
    BY <2>1 DEF At
  <2>3. \A d \in Above(p) : \E m \in Held(tree) : tree[m].path = d
    BY <2>1 DEF At, FolderAt
  <2>4. p \in Folders \cup FilePaths /\ p \in Paths
    BY RowParts
  <2>5. ASSUME ~tree[n].root, Parent(p) = <<>> PROVE tree[n].share = Nil
    <3>1. FolderAt(tree, Parent(p)) = {}
      <4>1. \A m \in Held(tree) : tree[m].path # <<>>
        BY RowParts DEF Paths
      <4> QED BY <4>1, <2>5 DEF FolderAt, At
    <3> QED BY <3>1, <2>1, <2>5 DEF ScopeAt
  <2>6. ASSUME ~tree[n].root, Parent(p) # <<>>, NEW m \in Held(tree),
               tree[m].path = Parent(p)
        PROVE  tree[m].share = tree[n].share
    <3>1. Parent(p) \in Folders
      BY <2>4, <2>6, PathsAre
    <3>2. Parent(p) \in Above(p)
      BY <3>1, <2>4, AboveMeans
    <3>3. FolderAt(tree, Parent(p)) # {}
      BY <3>2, <2>1
    <3>4. At(tree, Parent(p)) = {m}
      BY <2>6, <1>1 DEF IsTree
    <3>5. FolderAt(tree, Parent(p)) = {m}
      BY <3>3, <3>4 DEF FolderAt
    <3>6. ScopeAt(tree, p) = tree[m].share
      BY <3>5 DEF ScopeAt
    <3> QED BY <3>6, <2>1, <2>6
  <2> HIDE DEF p
  <2>7. tree[n].root \/
          IF Parent(p) = <<>> THEN tree[n].share = Nil
          ELSE \A m \in Held(tree) : tree[m].path = Parent(p) => tree[m].share = tree[n].share
    BY <2>5, <2>6
  <2> QED BY <2>1, <2>2, <2>3, <2>7 DEF Rooted, p
<1>2. ASSUME IsGrown(tree), NEW n \in Held(tree)
      PROVE  LET p == tree[n].path
             IN  /\ p \in IF IsFile(tree, n) THEN FilePaths ELSE Folders
                 /\ At(tree, p) = {n}
                 /\ \A d \in Above(p) : FolderAt(tree, d) # {}
                 /\ ~tree[n].root => tree[n].share = ScopeAt(tree, p)
  <2> DEFINE p == tree[n].path
  <2>1. Rooted(tree, n)
    BY <1>2 DEF IsGrown
  <2>2. p \in IF IsFile(tree, n) THEN FilePaths ELSE Folders
    BY <2>1 DEF Rooted
  <2>3. At(tree, p) = {n}
    BY <2>1 DEF Rooted, At
  <2>4. ASSUME NEW d \in Folders, NEW m \in Held(tree), tree[m].path = d
        PROVE  FolderAt(tree, d) = {m}
    <3>1. Rooted(tree, m)
      BY <1>2 DEF IsGrown
    <3>2. ~IsFile(tree, m)
      BY <3>1, <2>4, FilesAreNotFolders DEF Rooted
    <3>3. At(tree, d) = {m}
      BY <3>1, <2>4 DEF Rooted, At
    <3> QED BY <3>2, <3>3 DEF FolderAt
  <2>5. \A d \in Above(p) : FolderAt(tree, d) # {}
    <3>1. TAKE d \in Above(p)
    <3>2. d \in Folders
      BY DEF Above
    <3>3. PICK m \in Held(tree) : tree[m].path = d
      BY <2>1 DEF Rooted
    <3> QED BY <3>2, <3>3, <2>4
  <2>6. ASSUME ~tree[n].root PROVE tree[n].share = ScopeAt(tree, p)
    <3>1. p \in Folders \cup FilePaths /\ p \in Paths
      BY RowParts
    <3>2. CASE Parent(p) = <<>>
      <4>1. FolderAt(tree, Parent(p)) = {}
        <5>1. \A m \in Held(tree) : tree[m].path # <<>>
          BY RowParts DEF Paths
        <5> QED BY <5>1, <3>2 DEF FolderAt, At
      <4> QED BY <4>1, <3>2, <2>1, <2>6 DEF ScopeAt, Rooted
    <3>3. CASE Parent(p) # <<>>
      <4>1. Parent(p) \in Folders
        BY <3>1, <3>3, PathsAre
      <4>2. Parent(p) \in Above(p)
        BY <4>1, <3>1, AboveMeans
      <4>3. PICK m \in Held(tree) : tree[m].path = Parent(p)
        BY <4>2, <2>1 DEF Rooted
      <4>4. FolderAt(tree, Parent(p)) = {m}
        BY <4>1, <4>3, <2>4
      <4>5. ScopeAt(tree, p) = tree[m].share
        BY <4>4 DEF ScopeAt
      <4> QED BY <4>3, <4>5, <3>3, <2>1, <2>6 DEF Rooted
    <3> QED BY <3>2, <3>3
  <2> QED BY <2>2, <2>3, <2>5, <2>6
<1> QED BY <1>1, <1>2 DEF IsTree, IsGrown

\* A node in a folder that stands, at a free place.
LEMMA CreateGrows ==
  ASSUME NEW tree, AreRows(tree), IsTree(tree),
         NEW k \in Nodes, tree[k] = Nil,
         NEW row \in Row, ~row.root,
         row.path \in IF row.text # Nil THEN FilePaths ELSE Folders,
         \A m \in Held(tree) : tree[m].path # row.path,
         IF Parent(row.path) = <<>> THEN row.share = Nil
         ELSE \E m \in Held(tree) : tree[m].path = Parent(row.path) /\ tree[m].share = row.share
  PROVE  AreRows([tree EXCEPT ![k] = row]) /\ IsTree([tree EXCEPT ![k] = row])
<1> DEFINE new == [tree EXCEPT ![k] = row]
<1>1. AreRows(new)
  BY DEF AreRows
<1>2. IsGrown(tree)
  BY GrownMeans
<1>3. /\ k \in Held(new) /\ new[k] = row /\ k \notin Held(tree)
      /\ Held(new) = Held(tree) \cup {k}
      /\ \A m \in Held(tree) : new[m] = tree[m]
  BY NilIsNoRow DEF Held, AreRows
<1>4. row.path \in Folders \cup FilePaths /\ row.path \in Paths
  BY PathsAre DEF Row, RowsAt
<1> HIDE DEF new
<1>5. ASSUME NEW n \in Held(tree) PROVE Rooted(new, n)
  <2>1. Rooted(tree, n) /\ new[n] = tree[n] /\ n \in Held(new)
    BY <1>2, <1>3 DEF IsGrown
  <2>2. IsFile(new, n) <=> IsFile(tree, n)
    BY <2>1 DEF IsFile
  <2>3. \A m \in Held(new) : new[m].path = new[n].path => m = n
    BY <2>1, <1>3 DEF Rooted
  <2>4. \A d \in Above(new[n].path) : \E m \in Held(new) : new[m].path = d
    BY <2>1, <1>3 DEF Rooted
  <2>5. ASSUME ~new[n].root, Parent(new[n].path) # <<>>,
               NEW m \in Held(new), new[m].path = Parent(new[n].path)
        PROVE  new[m].share = new[n].share
    <3>1. CASE m = k
      <4>1. tree[n].path \in Folders \cup FilePaths /\ tree[n].path \in Paths
        BY RowParts
      <4>2. Parent(tree[n].path) \in Above(tree[n].path)
        BY <4>1, <2>1, <2>5, PathsAre, AboveMeans
      <4>3. PICK j \in Held(tree) : tree[j].path = Parent(tree[n].path)
        BY <4>2, <2>1 DEF Rooted
      <4> QED BY <4>3, <3>1, <2>1, <2>5, <1>3
    <3>2. CASE m # k
      BY <3>2, <2>1, <2>5, <1>3 DEF Rooted
    <3> QED BY <3>1, <3>2
  <2>6. new[n].root \/
          IF Parent(new[n].path) = <<>> THEN new[n].share = Nil
          ELSE \A m \in Held(new) :
                 new[m].path = Parent(new[n].path) => new[m].share = new[n].share
    BY <2>1, <2>5 DEF Rooted
  <2> QED BY <2>1, <2>2, <2>3, <2>4, <2>6 DEF Rooted
<1>6. Rooted(new, k)
  <2>1. new[k].path \in IF IsFile(new, k) THEN FilePaths ELSE Folders
    BY <1>3 DEF IsFile
  <2>2. \A m \in Held(new) : new[m].path = new[k].path => m = k
    BY <1>3
  <2>3. ASSUME Parent(row.path) # <<>>
        PROVE  \E m \in Held(tree) : /\ tree[m].path = Parent(row.path)
                                     /\ tree[m].share = row.share
                                     /\ Parent(row.path) \in Folders
    BY <2>3, <1>4, PathsAre
  <2>4. \A d \in Above(new[k].path) : \E m \in Held(new) : new[m].path = d
    <3>1. CASE Parent(row.path) = <<>>
      BY <3>1, <1>3, <1>4, AboveMeans
    <3>2. CASE Parent(row.path) # <<>>
      <4>1. PICK m \in Held(tree) : tree[m].path = Parent(row.path)
        BY <3>2, <2>3
      <4>2. Above(row.path) = {Parent(row.path)} \cup Above(tree[m].path)
        BY <4>1, <3>2, <2>3, <1>4, AboveMeans
      <4>3. \A d \in Above(tree[m].path) : \E j \in Held(tree) : tree[j].path = d
        BY <1>2 DEF IsGrown, Rooted
      <4> QED BY <4>1, <4>2, <4>3, <1>3
    <3> QED BY <3>1, <3>2
  <2>5. IF Parent(new[k].path) = <<>> THEN new[k].share = Nil
        ELSE \A m \in Held(new) :
               new[m].path = Parent(new[k].path) => new[m].share = new[k].share
    <3>1. CASE Parent(row.path) = <<>>
      BY <3>1, <1>3
    <3>2. CASE Parent(row.path) # <<>>
      <4>1. PICK m \in Held(tree) : /\ tree[m].path = Parent(row.path)
                                    /\ tree[m].share = row.share
        BY <3>2, <2>3
      <4>2. \A j \in Held(tree) : tree[j].path = tree[m].path => j = m
        BY <1>2 DEF IsGrown, Rooted
      <4>3. row.path # Parent(row.path)
        BY <4>1
      <4> QED BY <4>1, <4>2, <4>3, <3>2, <1>3
    <3> QED BY <3>1, <3>2
  <2> QED BY <2>1, <2>2, <2>4, <2>5 DEF Rooted
<1>7. IsGrown(new)
  BY <1>3, <1>5, <1>6 DEF IsGrown
<1> QED BY <1>1, <1>7, GrownMeans DEF new

\* A node with nothing under it goes.
LEMMA DeleteGrows ==
  ASSUME NEW tree, AreRows(tree), IsTree(tree), NEW n \in Held(tree),
         Bare(tree, tree[n].path)
  PROVE  AreRows([tree EXCEPT ![n] = Nil]) /\ IsTree([tree EXCEPT ![n] = Nil])
<1> DEFINE new == [tree EXCEPT ![n] = Nil]
<1>1. AreRows(new)
  BY DEF AreRows
<1>2. IsGrown(tree) /\ n \in Nodes
  BY GrownMeans DEF Held
<1>3. /\ Held(new) = Held(tree) \ {n}
      /\ \A m \in Held(new) : new[m] = tree[m] /\ m \in Held(tree)
  BY <1>2 DEF Held, AreRows
<1> HIDE DEF new
<1>4. ASSUME NEW m \in Held(new) PROVE Rooted(new, m)
  <2>1. Rooted(tree, m) /\ new[m] = tree[m] /\ m \in Held(tree)
    BY <1>2, <1>3 DEF IsGrown
  <2>2. ASSUME NEW d \in Above(new[m].path) PROVE \E j \in Held(new) : new[j].path = d
    <3>1. PICK j \in Held(tree) : tree[j].path = d
      BY <2>1 DEF Rooted
    <3>2. Under(d, tree[m].path)
      BY <2>1 DEF Above
    <3>3. j # n
      BY <3>1, <3>2, <2>1 DEF Bare
    <3> QED BY <3>1, <3>3, <1>3
  <2>3. IsFile(new, m) <=> IsFile(tree, m)
    BY <2>1 DEF IsFile
  <2>4. \A j \in Held(new) : new[j].path = new[m].path => j = m
    BY <2>1, <1>3 DEF Rooted
  <2>5. new[m].root \/
          IF Parent(new[m].path) = <<>> THEN new[m].share = Nil
          ELSE \A j \in Held(new) :
                 new[j].path = Parent(new[m].path) => new[j].share = new[m].share
    BY <2>1, <1>3 DEF Rooted
  <2> QED BY <2>1, <2>2, <2>3, <2>4, <2>5 DEF Rooted
<1>5. IsGrown(new)
  BY <1>4 DEF IsGrown
<1> QED BY <1>1, <1>5, GrownMeans DEF new

\* A file's text changes.
LEMMA EditGrows ==
  ASSUME NEW tree, AreRows(tree), IsTree(tree), NEW n \in Held(tree),
         IsFile(tree, n), NEW text \in Texts
  PROVE  AreRows([tree EXCEPT ![n].text = text]) /\ IsTree([tree EXCEPT ![n].text = text])
<1> DEFINE new == [tree EXCEPT ![n].text = text]
<1>1. n \in Nodes /\ tree[n] \in Row
  BY RowParts
<1>2. [tree[n] EXCEPT !.text = text] \in Row
  BY <1>1 DEF Row, RowsAt
<1>3. AreRows(new)
  BY <1>1, <1>2 DEF AreRows
<1>4. IsGrown(tree)
  BY GrownMeans
<1>5. /\ new[n].path = tree[n].path /\ new[n].share = tree[n].share
      /\ new[n].root = tree[n].root /\ new[n].text = text
  BY <1>1 DEF AreRows, Row, RowsAt
<1>6. \A m \in Nodes \ {n} : new[m] = tree[m]
  BY <1>1 DEF AreRows
<1>7. /\ \A m \in Held(new) : m \in Held(tree)
      /\ \A m \in Held(tree) : m # n => m \in Held(new)
  BY <1>1, <1>6 DEF Held
<1>8. n \in Held(new)
  <2>1. new[n] \in Row
    BY <1>1, <1>2 DEF new, AreRows
  <2> QED BY <2>1, <1>1, NilIsNoRow DEF Held
<1>9. \A m \in Held(tree) : /\ new[m].path = tree[m].path /\ new[m].share = tree[m].share
                            /\ new[m].root = tree[m].root
                            /\ (IsFile(new, m) <=> IsFile(tree, m))
  <2>1. text # Nil
    BY NilIsNoRow
  <2> QED BY <2>1, <1>5, <1>6 DEF Held, IsFile
<1> HIDE DEF new
<1>10. Held(new) = Held(tree)
  BY <1>7, <1>8
<1>11. IsGrown(new)
  BY <1>4, <1>9, <1>10 DEF IsGrown, Rooted
<1> QED BY <1>3, <1>11, GrownMeans DEF new

\* A node moves to a free place in another folder, which is not in it, and
\* everything in it with it.
LEMMA MoveGrows ==
  ASSUME NEW tree, AreRows(tree), IsTree(tree), NEW n \in Held(tree), NEW to \in Paths,
         \A m \in Held(tree) : tree[m].path = to => m = n,
         Parent(to) \in Folders \cup {<<>>},
         ~Within(tree[n].path, Parent(to)),
         IF Parent(to) = <<>> THEN tree[n].root \/ tree[n].share = Nil
         ELSE \E m \in Held(tree) : /\ tree[m].path = Parent(to)
                                    /\ tree[n].root \/ tree[m].share = tree[n].share,
         InBounds(RemapTree(tree, tree[n].path, to))
  PROVE  /\ AreRows(RemapTree(tree, tree[n].path, to))
         /\ IsTree(RemapTree(tree, tree[n].path, to))
<1> DEFINE from == tree[n].path
           new == RemapTree(tree, from, to)
           Path(m) == tree[m].path
           Home(m) == Rehung(tree[m].path, from, to)
<1>1. IsGrown(tree) /\ n \in Nodes
  BY GrownMeans DEF Held
<1>2. ASSUME NEW m \in Held(tree)
      PROVE  /\ m \in Nodes /\ tree[m] \in Row /\ Path(m) \in Folders \cup FilePaths
             /\ Path(m) \in Seq(Names) /\ Path(m) # <<>> /\ Path(m) \in Paths
  BY RowParts DEF Paths
<1>3. /\ from \in Seq(Names) /\ from # <<>> /\ to \in Seq(Names) /\ to # <<>>
      /\ from \in Folders \cup FilePaths
  BY <1>2 DEF Paths
<1>4. ASSUME NEW m \in Held(tree)
      PROVE  /\ new[m] = [tree[m] EXCEPT !.path = Home(m)]
             /\ new[m].path = Home(m) /\ new[m].text = tree[m].text
             /\ new[m].share = tree[m].share /\ new[m].root = tree[m].root
  BY <1>2 DEF RemapTree, Held, Row, RowsAt
<1>5. ASSUME NEW m \in Held(tree) PROVE Home(m) \in Paths
  <2>1. CASE Within(from, Path(m))
    <3>1. Home(m) \in Seq(Names) /\ Within(to, Home(m))
      BY <2>1, <1>2, <1>3, RehungMeans
    <3>2. Home(m) # <<>>
      BY <3>1, <1>3, NothingAboveTop
    <3> QED BY <3>1, <3>2 DEF Paths
  <2>2. CASE ~Within(from, Path(m))
    BY <2>2, <1>2 DEF Rehung, Within
  <2> QED BY <2>1, <2>2
<1>6. Held(new) = Held(tree)
  <2>1. \A m \in Nodes \ Held(tree) : new[m] = Nil
    BY DEF RemapTree, Held
  <2>2. ASSUME NEW m \in Held(tree) PROVE new[m] # Nil
    <3>1. new[m] \in RowsAt(Seq(Names))
      BY <1>2, <1>4, <1>5 DEF Row, RowsAt, Paths
    <3> QED BY <3>1, NilIsApart
  <2> QED BY <2>1, <2>2 DEF Held
<1>7. ASSUME NEW m \in Held(tree)
      PROVE  /\ Home(m) \in IF IsFile(tree, m) THEN FilePaths ELSE Folders
             /\ new[m] \in Row /\ (IsFile(new, m) <=> IsFile(tree, m))
  <2>1. IsFile(new, m) <=> IsFile(tree, m)
    BY <1>4 DEF IsFile
  <2>2. Home(m) \in IF IsFile(tree, m) THEN FilePaths ELSE Folders
    BY <2>1, <1>4, <1>6 DEF InBounds
  <2>3. [tree[m] EXCEPT !.path = Home(m)] \in Row
    BY <2>2, <1>2 DEF Row, RowsAt
  <2> QED BY <2>1, <2>2, <2>3, <1>4
<1>8. AreRows(new)
  <2>1. new = [m \in Nodes |-> new[m]]
    BY DEF RemapTree
  <2>2. \A m \in Nodes : new[m] \in Row \cup {Nil}
    BY <1>6, <1>7 DEF Held
  <2> HIDE DEF new
  <2> QED BY <2>1, <2>2 DEF AreRows
<1>9. ASSUME NEW m \in Held(tree), ~Within(from, Path(m)) PROVE Home(m) = Path(m)
  BY <1>9 DEF Rehung, Within
<1>10. Home(n) = to /\ Within(from, Path(n))
  <2>1. Within(from, from)
    BY DEF Within
  <2>2. Within(to, Home(n)) /\ IsRehung(Home(n), from, from, to) /\ Home(n) \in Seq(Names)
    BY <2>1, <1>3, RehungMeans
  <2>3. Len(to) \in Nat /\ Len(from) \in Nat
    BY <1>3, LenProperties
  <2>4. Len(Home(n)) = Len(to) /\ \A i \in 1..Len(to) : Home(n)[i] = to[i]
    BY <2>2, <2>3 DEF IsRehung
  <2> HIDE DEF Home
  <2>5. Home(n) = to
    BY <2>2, <2>4, <1>3, SeqEqual
  <2> QED BY <2>1, <2>5
<1>11. ASSUME NEW x \in Held(tree), NEW y \in Held(tree), Home(x) = Home(y) PROVE x = y
  <2>1. \A v, w \in Held(tree) : Path(v) = Path(w) => v = w
    BY <1>1 DEF IsGrown, Rooted
  <2>2. ASSUME NEW v \in Held(tree), NEW w \in Held(tree), Home(v) = Home(w),
               Within(from, Path(v)), ~Within(from, Path(w))
        PROVE  FALSE
    <3>1. Within(to, Path(w))
      BY <2>2, <1>2, <1>3, <1>9, RehungMeans
    <3>2. Path(w) # to
      BY <2>2, <1>10
    <3>3. Under(to, Path(w))
      BY <3>1, <3>2 DEF Within
    <3>4. to \in Above(Path(w))
      BY <3>3, <1>2, PrefixesAreFolders
    <3>5. PICK k \in Held(tree) : tree[k].path = to
      BY <3>4, <1>1 DEF IsGrown, Rooted
    <3>6. from = to
      BY <3>5
    <3> QED BY <3>1, <3>6, <2>2
  <2>3. CASE Within(from, Path(x)) /\ Within(from, Path(y))
    BY <2>3, <2>1, <1>2, <1>3, <1>11, RehungApart
  <2>4. CASE ~Within(from, Path(x)) /\ ~Within(from, Path(y))
    BY <2>4, <2>1, <1>9, <1>11
  <2> QED BY <2>2, <2>3, <2>4, <1>11

<1>12. ASSUME NEW k \in Held(tree), Path(k) = Parent(to) PROVE Home(k) = Path(k)
  BY <1>9, <1>12
<1>13. ASSUME NEW m \in Held(tree), NEW d \in Above(Home(m))
       PROVE  \E j \in Held(tree) : Home(j) = d
  <2>1. /\ d \in Folders /\ d \in Seq(Names) /\ d # <<>> /\ d \in Paths
        /\ Under(d, Home(m))
    BY PathsAre DEF Above, Paths
  <2>2. \A x \in Held(tree) : \A e \in Above(Path(x)) : \E j \in Held(tree) : Path(j) = e
    BY <1>1 DEF IsGrown, Rooted
  <2>3. CASE ~Within(from, Path(m))
    <3>1. Under(d, Path(m))
      BY <2>1, <2>3, <1>9
    <3>2. PICK j \in Held(tree) : Path(j) = d
      BY <3>1, <2>1, <2>2 DEF Above
    <3>3. ~Within(from, d)
      <4>1. Within(d, Path(m))
        BY <3>1 DEF Within
      <4> QED BY <4>1, <2>1, <2>3, <1>2, <1>3, WithinChain
    <3> QED BY <3>2, <3>3, <1>9
  <2>4. ASSUME Under(d, to) PROVE \E j \in Held(tree) : Home(j) = d
    <3>1. Within(d, Parent(to))
      BY <2>1, <2>4, AboveMeans
    <3>2. Parent(to) # <<>>
      BY <3>1, <2>1, NothingAboveTop
    <3>3. PICK k \in Held(tree) : Path(k) = Parent(to)
      BY <3>2
    <3>4. PICK j \in Held(tree) : Path(j) = d
      <4>1. CASE d = Parent(to)
        BY <4>1, <3>3
      <4>2. CASE d # Parent(to)
        BY <4>2, <3>1, <3>3, <2>1, <2>2 DEF Within, Above
      <4> QED BY <4>1, <4>2
    <3>5. ~Within(from, d)
      BY <3>1, <3>3, <2>1, <1>2, <1>3, WithinChain
    <3> QED BY <3>4, <3>5, <1>9
  <2>5. CASE Within(from, Path(m)) /\ ~Under(d, to)
    <3>1. PICK x \in Seq(Names) : /\ Within(from, x) /\ Under(x, Path(m))
                                  /\ d = Rehung(x, from, to)
      BY <2>1, <2>5, <1>2, <1>3, RehungAbove
    <3>2. x \in Paths
      BY <3>1, <1>3, NothingAboveTop DEF Paths
    <3>3. x \in Above(Path(m))
      BY <3>1, <3>2, <1>2, PrefixesAreFolders
    <3>4. PICK j \in Held(tree) : Path(j) = x
      BY <3>3, <2>2
    <3> QED BY <3>1, <3>4
  <2> QED BY <2>3, <2>4, <2>5
<1>14. ASSUME NEW m \in Held(tree), ~tree[m].root, Parent(Home(m)) = <<>>
       PROVE  tree[m].share = Nil
  <2>1. Rooted(tree, m)
    BY <1>1 DEF IsGrown
  <2>2. CASE ~Within(from, Path(m))
    BY <2>1, <2>2, <1>9, <1>14 DEF Rooted
  <2>3. CASE Path(m) = from
    <3>1. m = n
      BY <2>3, <1>1 DEF IsGrown, Rooted
    <3>2. Parent(to) = <<>>
      BY <3>1, <1>10, <1>14
    <3> QED BY <3>1, <3>2, <1>14
  <2>4. CASE Under(from, Path(m))
    <3>1. /\ Within(from, Parent(Path(m)))
          /\ Parent(Home(m)) = Rehung(Parent(Path(m)), from, to)
      BY <2>4, <1>2, <1>3, RehungBelow
    <3>2. Parent(Path(m)) \in Seq(Names)
      BY <1>2, ChildOfParent
    <3>3. Within(to, Parent(Home(m)))
      BY <3>1, <3>2, <1>3, RehungMeans
    <3> QED BY <3>3, <1>3, <1>14, NothingAboveTop
  <2> QED BY <2>2, <2>3, <2>4 DEF Within
<1>15. ASSUME NEW m \in Held(tree), ~tree[m].root, Parent(Home(m)) # <<>>,
              NEW j \in Held(tree), Home(j) = Parent(Home(m))
       PROVE  tree[j].share = tree[m].share
  <2>1. Rooted(tree, m)
    BY <1>1 DEF IsGrown
  <2>2. ASSUME Parent(Path(m)) # <<>>
        PROVE  \E k \in Held(tree) : /\ Path(k) = Parent(Path(m))
                                     /\ tree[k].share = tree[m].share
    <3>1. Parent(Path(m)) \in Above(Path(m))
      BY <2>2, <1>2, PathsAre, AboveMeans
    <3>2. PICK k \in Held(tree) : Path(k) = Parent(Path(m))
      BY <3>1, <2>1 DEF Rooted
    <3> QED BY <3>2, <2>1, <2>2, <1>15 DEF Rooted
  <2>3. CASE ~Within(from, Path(m))
    <3>1. Home(m) = Path(m) /\ Parent(Path(m)) # <<>>
      BY <2>3, <1>9, <1>15
    <3>2. PICK k \in Held(tree) : /\ Path(k) = Parent(Path(m))
                                  /\ tree[k].share = tree[m].share
      BY <3>1, <2>2
    <3>3. ~Within(from, Path(k))
      <4>1. Within(Path(k), Path(m))
        <5>1. Path(k) \in Above(Path(m))
          BY <3>2, <3>1, <1>2, PathsAre, AboveMeans
        <5> QED BY <5>1 DEF Above, Within
      <4> QED BY <4>1, <2>3, <1>2, <1>3, WithinChain
    <3>4. Home(k) = Home(j)
      BY <3>1, <3>2, <3>3, <1>9, <1>15
    <3> QED BY <3>2, <3>4, <1>11
  <2>4. CASE Path(m) = from
    <3>1. m = n
      BY <2>4, <1>1 DEF IsGrown, Rooted
    <3>2. Home(m) = to /\ Parent(to) # <<>>
      BY <3>1, <1>10, <1>15
    <3>3. PICK k \in Held(tree) : Path(k) = Parent(to) /\ tree[k].share = tree[m].share
      BY <3>1, <3>2, <1>15
    <3>4. Home(k) = Home(j)
      BY <3>2, <3>3, <1>12, <1>15
    <3> QED BY <3>3, <3>4, <1>11
  <2>5. CASE Under(from, Path(m))
    <3>1. /\ Within(from, Parent(Path(m)))
          /\ Parent(Home(m)) = Rehung(Parent(Path(m)), from, to)
      BY <2>5, <1>2, <1>3, RehungBelow
    <3>2. Parent(Path(m)) # <<>>
      BY <3>1, <1>3, NothingAboveTop
    <3>3. PICK k \in Held(tree) : /\ Path(k) = Parent(Path(m))
                                  /\ tree[k].share = tree[m].share
      BY <3>2, <2>2
    <3>4. Home(k) = Home(j)
      BY <3>1, <3>3, <1>15
    <3> QED BY <3>3, <3>4, <1>11
  <2> QED BY <2>3, <2>4, <2>5 DEF Within
<1>16. \A j \in Held(tree) :
         /\ new[j].path = Home(j) /\ new[j].share = tree[j].share /\ new[j].root = tree[j].root
         /\ Home(j) \in IF IsFile(new, j) THEN FilePaths ELSE Folders
  <2>1. ASSUME NEW j \in Held(tree)
        PROVE  /\ new[j].path = Home(j) /\ new[j].share = tree[j].share
               /\ new[j].root = tree[j].root
    BY <1>4
  <2>2. ASSUME NEW j \in Held(tree)
        PROVE  Home(j) \in IF IsFile(new, j) THEN FilePaths ELSE Folders
    BY <1>7
  <2> HIDE DEF new, Home
  <2> QED BY <2>1, <2>2
<1>17. ASSUME NEW m \in Held(tree) PROVE Rooted(new, m)
  <2> HIDE DEF new, Home
  <2>1. new[m].path \in IF IsFile(new, m) THEN FilePaths ELSE Folders
    BY <1>16
  <2>2. \A j \in Held(new) : new[j].path = new[m].path => j = m
    BY <1>16, <1>6, <1>11
  <2>3. \A d \in Above(new[m].path) : \E j \in Held(new) : new[j].path = d
    BY <1>16, <1>6, <1>13
  <2>4. new[m].root \/
          IF Parent(new[m].path) = <<>> THEN new[m].share = Nil
          ELSE \A j \in Held(new) :
                 new[j].path = Parent(new[m].path) => new[j].share = new[m].share
    <3>1. CASE tree[m].root
      BY <3>1, <1>16
    <3>2. CASE ~tree[m].root /\ Parent(Home(m)) = <<>>
      BY <3>2, <1>16, <1>14
    <3>3. CASE ~tree[m].root /\ Parent(Home(m)) # <<>>
      BY <3>3, <1>16, <1>6, <1>15
    <3> QED BY <3>1, <3>2, <3>3, <1>2 DEF Row, RowsAt
  <2> QED BY <2>1, <2>2, <2>3, <2>4 DEF Rooted
<1>18. IsGrown(new)
  <2> HIDE DEF new
  <2> QED BY <1>6, <1>17 DEF IsGrown
<1> HIDE DEF new
<1>19. AreRows(new) /\ IsTree(new)
  BY <1>8, <1>18, GrownMeans
<1> QED BY <1>19 DEF new

-----------------------------------------------------------------------------
(* What the server does to its rows.                                       *)

\* The ids of files are K, for good: an id is given out once, and its row stays a
\* file, or stays a folder.
Ids(K, top) == top \in 0..MaxNodes /\ K \in SUBSET (1..top)
Kinds(K, top, tree) ==
  \A n \in Held(tree) : n \in 1..top /\ (n \in K <=> IsFile(tree, n))
Grown(K, top, tree) == AreRows(tree) /\ IsTree(tree) /\ Kinds(K, top, tree)

LEMMA IdsAre ==
  ASSUME NEW K, NEW top, Ids(K, top)
  PROVE  /\ top \in Nat /\ K \subseteq Nodes /\ top + 1 \notin K /\ top + 1 # Top
         /\ Top \notin Nodes
         /\ top < MaxNodes => top + 1 \in Nodes /\ Ids(K, top + 1) /\ Ids(K \cup {top + 1}, top + 1)
<1>1. MaxNodes \in Nat
  BY FolderBoundsAreNaturals
<1>2. top \in Nat /\ top <= MaxNodes /\ \A n \in K : n \in 1..top
  BY <1>1 DEF Ids
<1>3. \A n \in K : n \in Nodes /\ n \in 1..top + 1 /\ n # top + 1
  <2>1. TAKE n \in K
  <2>2. n \in 1..top
    BY <1>2
  <2> QED BY <2>2, <1>1, <1>2 DEF Nodes
<1>4. top + 1 # Top /\ Top \notin Nodes
  BY <1>1, <1>2 DEF Top, Nodes
<1>5. ASSUME top < MaxNodes PROVE top + 1 \in Nodes /\ top + 1 \in 0..MaxNodes /\ top + 1 \in 1..top + 1
  BY <1>1, <1>2, <1>5 DEF Nodes
<1> QED BY <1>2, <1>3, <1>4, <1>5 DEF Ids

LEMMA FoldersStand ==
  ASSUME NEW K, Grown(K, issued, nodes), NEW at \in {Top} \cup (Nodes \ K), Stands(at)
  PROVE  \/ at = Top /\ PlaceOf(at) = <<>> /\ ShareIn(at) = Nil
         \/ /\ at \in Held(nodes) /\ at # Top /\ nodes[at].path \in Folders
            /\ PlaceOf(at) = nodes[at].path /\ PlaceOf(at) # <<>>
            /\ ShareIn(at) = nodes[at].share
<1>1. CASE at = Top
  BY <1>1 DEF PlaceOf, ShareIn
<1>2. CASE at # Top
  <2>1. at \in Held(nodes) /\ at \notin K
    BY <1>2 DEF Stands
  <2>2. ~IsFile(nodes, at)
    BY <2>1 DEF Grown, Kinds
  <2>3. nodes[at].path \in Folders
    BY <2>1, <2>2 DEF Grown, IsTree
  <2>4. nodes[at].path # <<>>
    BY <2>3, PathsAre DEF Paths
  <2> QED BY <1>2, <2>1, <2>3, <2>4 DEF PlaceOf, ShareIn
<1> QED BY <1>1, <1>2

LEMMA Creating ==
  ASSUME NEW K, Ids(K, issued), Grown(K, issued, nodes), issued < MaxNodes,
         NEW at \in {Top} \cup (Nodes \ K), NEW name \in Names, NEW text \in Texts \cup {Nil},
         NEW scope, CreateAccepted(at, name, scope),
         InBounds(CreatedNode(at, name, text))
  PROVE  Grown(IF text = Nil THEN K ELSE K \cup {issued + 1}, issued + 1,
               CreatedNode(at, name, text))
<1> DEFINE new == CreatedNode(at, name, text)
           place == Child(PlaceOf(at), name)
           row == [path |-> place, text |-> text, share |-> ShareIn(at), root |-> FALSE]
           L == IF text = Nil THEN K ELSE K \cup {issued + 1}
<1>1. /\ issued \in Nat /\ issued + 1 \in Nodes /\ issued + 1 \notin K
      /\ AreRows(nodes) /\ IsTree(nodes)
      /\ \A n \in Held(nodes) : n \in 1..issued /\ (n \in K <=> IsFile(nodes, n))
  BY IdsAre DEF Grown, Kinds
<1>2. issued + 1 \notin Held(nodes) /\ nodes[issued + 1] = Nil
  <2>1. issued + 1 \notin 1..issued
    BY <1>1
  <2> QED BY <2>1, <1>1 DEF Held
<1>3. new = [nodes EXCEPT ![issued + 1] = row]
  BY DEF CreatedNode, Fresh
<1>4. /\ PlaceOf(at) \in Seq(Names)
      /\ IF PlaceOf(at) = <<>> THEN ShareIn(at) = Nil
         ELSE /\ at \in Held(nodes) /\ nodes[at].path = PlaceOf(at)
              /\ nodes[at].share = ShareIn(at)
  <2>1. <<>> \in Seq(Names) /\ Folders \subseteq Seq(Names)
    BY PathsAre, EmptySeq DEF Paths
  <2>2. Stands(at)
    BY DEF CreateAccepted
  <2> QED BY <2>1, <2>2, FoldersStand
<1>5. Parent(place) = PlaceOf(at) /\ Last(place) = name /\ place \in Paths
  BY <1>4, ChildMeans DEF Paths
<1>6. ShareIn(at) \in Shares \cup {Nil}
  <2>1. CASE PlaceOf(at) = <<>>
    BY <2>1, <1>4
  <2>2. CASE PlaceOf(at) # <<>>
    BY <2>2, <1>4, <1>1, RowParts
  <2> QED BY <2>1, <2>2
<1>7. row \in RowsAt(Paths) /\ row.path = place /\ row.text = text /\ row.share = ShareIn(at)
      /\ row.root = FALSE
  BY <1>5, <1>6 DEF RowsAt
<1> HIDE DEF row, place
<1>8. row # Nil
  <2>1. row \in RowsAt(Seq(Names))
    BY <1>7 DEF RowsAt, Paths
  <2> QED BY <2>1, NilIsApart
<1>9. new[issued + 1] = row /\ \A n \in Nodes \ {issued + 1} : new[n] = nodes[n]
  BY <1>1, <1>3 DEF AreRows
<1>10. issued + 1 \in Held(new) /\ Held(new) = Held(nodes) \cup {issued + 1}
  BY <1>1, <1>8, <1>9 DEF Held
<1>11. place \in IF text # Nil THEN FilePaths ELSE Folders
  <2>1. new[issued + 1].path \in IF IsFile(new, issued + 1) THEN FilePaths ELSE Folders
    BY <1>10 DEF InBounds
  <2> QED BY <2>1, <1>7, <1>9 DEF IsFile
<1>12. row \in Row
  BY <1>7, <1>11 DEF Row, RowsAt
<1>13. \A m \in Held(nodes) : nodes[m].path # place
  BY DEF CreateAccepted, At, place
<1>14. AreRows([nodes EXCEPT ![issued + 1] = row]) /\ IsTree([nodes EXCEPT ![issued + 1] = row])
  BY <1>1, <1>2, <1>4, <1>5, <1>7, <1>11, <1>12, <1>13, CreateGrows
<1>15. AreRows(new) /\ IsTree(new)
  BY <1>3, <1>14
<1> HIDE DEF new
<1>16. ASSUME NEW n \in Held(new) PROVE n \in 1..issued + 1 /\ (n \in L <=> IsFile(new, n))
  <2>1. CASE n = issued + 1
    <3>1. IsFile(new, n) <=> text # Nil
      BY <2>1, <1>7, <1>9 DEF IsFile
    <3>2. n \in L <=> text # Nil
      BY <2>1, <1>1
    <3> QED BY <3>1, <3>2, <2>1, <1>1
  <2>2. CASE n # issued + 1
    <3>1. n \in Held(nodes) /\ n \in Nodes
      BY <2>2, <1>10 DEF Held
    <3>2. (IsFile(new, n) <=> IsFile(nodes, n)) /\ (n \in L <=> n \in K)
      BY <2>2, <3>1, <1>9 DEF IsFile
    <3>3. n \in 1..issued
      BY <3>1, <1>1
    <3> QED BY <3>1, <3>2, <3>3, <1>1
  <2> QED BY <2>1, <2>2
<1>17. Grown(L, issued + 1, new)
  BY <1>15, <1>16 DEF Grown, Kinds
<1> QED BY <1>17 DEF new

LEMMA Moving ==
  ASSUME NEW K, Ids(K, issued), Grown(K, issued, nodes), NEW n \in Nodes,
         NEW at \in {Top} \cup (Nodes \ K), NEW name \in Names,
         MoveAccepted(n, at, name), InBounds(MovedNode(n, at, name))
  PROVE  Grown(K, issued, MovedNode(n, at, name))
<1> DEFINE to == Child(PlaceOf(at), name)
           new == MovedNode(n, at, name)
<1>1. /\ AreRows(nodes) /\ IsTree(nodes) /\ n \in Held(nodes) /\ Stands(at)
      /\ ShareIn(at) = ScopeAt(nodes, nodes[n].path)
      /\ at # n /\ ~Under(nodes[n].path, PlaceOf(at))
      /\ At(nodes, to) \subseteq {n}
  BY DEF Grown, MoveAccepted, Held
<1>2. \/ at = Top /\ PlaceOf(at) = <<>> /\ ShareIn(at) = Nil
      \/ /\ at \in Held(nodes) /\ at # Top /\ nodes[at].path \in Folders
         /\ PlaceOf(at) = nodes[at].path /\ PlaceOf(at) # <<>>
         /\ ShareIn(at) = nodes[at].share
  BY <1>1, FoldersStand
<1>3. PlaceOf(at) \in Seq(Names) /\ PlaceOf(at) \in Folders \cup {<<>>}
  BY <1>2, PathsAre, EmptySeq DEF Paths
<1>4. to \in Paths /\ Parent(to) = PlaceOf(at)
  BY <1>3, ChildMeans DEF Paths
<1>5. nodes[n].root \/ nodes[n].share = ShareIn(at)
  BY <1>1 DEF IsTree
<1>6. ~Within(nodes[n].path, PlaceOf(at))
  <2>1. CASE PlaceOf(at) = nodes[n].path
    <3>1. nodes[n].path # <<>>
      BY <1>1, RowParts DEF Paths
    <3>2. at \in Held(nodes) /\ nodes[at].path = nodes[n].path
      BY <2>1, <3>1, <1>2
    <3>3. At(nodes, nodes[n].path) = {n}
      BY <1>1 DEF IsTree
    <3>4. at \in At(nodes, nodes[n].path)
      BY <3>2 DEF At
    <3> QED BY <3>3, <3>4, <1>1
  <2> QED BY <2>1, <1>1 DEF Within
<1>7. \A m \in Held(nodes) : nodes[m].path = to => m = n
  BY <1>1 DEF At
<1>8. new = RemapTree(nodes, nodes[n].path, to)
  BY DEF MovedNode
<1> HIDE DEF to
<1>9. IF Parent(to) = <<>> THEN nodes[n].root \/ nodes[n].share = Nil
      ELSE \E m \in Held(nodes) : /\ nodes[m].path = Parent(to)
                                  /\ nodes[n].root \/ nodes[m].share = nodes[n].share
  BY <1>2, <1>4, <1>5
<1>10. /\ AreRows(RemapTree(nodes, nodes[n].path, to))
       /\ IsTree(RemapTree(nodes, nodes[n].path, to))
  BY <1>1, <1>3, <1>4, <1>6, <1>7, <1>8, <1>9, MoveGrows
<1>11. /\ Held(new) = Held(nodes)
       /\ \A m \in Held(nodes) : IsFile(new, m) <=> IsFile(nodes, m)
  <2>1. ASSUME NEW m \in Nodes PROVE m \in Held(new) => m \in Held(nodes)
    BY <1>8 DEF RemapTree, Held
  <2>2. ASSUME NEW m \in Held(nodes)
        PROVE  m \in Nodes /\ new[m] \in RowsAt(Seq(Names)) /\ new[m].text = nodes[m].text
    <3>1. m \in Nodes /\ nodes[m] \in Row /\ nodes[m] # Nil /\ nodes[m].path \in Seq(Names)
      BY <1>1, RowParts DEF Paths
    <3>2. new[m] = [nodes[m] EXCEPT !.path = Rehung(@, nodes[n].path, to)]
      BY <3>1, <1>8 DEF RemapTree
    <3>3. Rehung(nodes[m].path, nodes[n].path, to) \in Seq(Names)
      <4>1. nodes[n].path \in Seq(Names) /\ to \in Seq(Names)
        BY <1>1, <1>4, RowParts DEF Paths
      <4>2. CASE Within(nodes[n].path, nodes[m].path)
        BY <4>1, <4>2, <3>1, RehungMeans
      <4>3. CASE ~Within(nodes[n].path, nodes[m].path)
        BY <4>3, <3>1 DEF Rehung, Within
      <4> QED BY <4>2, <4>3
    <3> QED BY <3>1, <3>2, <3>3 DEF Row, RowsAt
  <2> HIDE DEF new
  <2>3. ASSUME NEW m \in Held(nodes)
        PROVE  m \in Held(new) /\ (IsFile(new, m) <=> IsFile(nodes, m))
    BY <2>2, NilIsApart DEF Held, IsFile
  <2>4. Held(new) \subseteq Nodes
    BY DEF Held
  <2> QED BY <2>1, <2>3, <2>4
<1> QED BY <1>8, <1>10, <1>11 DEF Grown, Kinds

LEMMA Deleting ==
  ASSUME NEW K, Grown(K, issued, nodes), NEW n \in Nodes, DeleteAccepted(n)
  PROVE  Grown(K, issued, [nodes EXCEPT ![n] = Nil])
<1> DEFINE new == [nodes EXCEPT ![n] = Nil]
<1>1. AreRows(nodes) /\ IsTree(nodes) /\ n \in Held(nodes) /\ Bare(nodes, nodes[n].path)
  BY DEF Grown, DeleteAccepted, Held
<1>2. AreRows(new) /\ IsTree(new)
  BY <1>1, DeleteGrows
<1>3. \A m \in Held(new) : m \in Held(nodes) /\ new[m] = nodes[m]
  BY <1>1 DEF AreRows, Held
<1> QED BY <1>2, <1>3 DEF Grown, Kinds, IsFile

LEMMA Editing ==
  ASSUME NEW K, Grown(K, issued, nodes), NEW n \in Nodes, nodes[n] # Nil, IsFile(nodes, n),
         NEW text \in Texts
  PROVE  Grown(K, issued, [nodes EXCEPT ![n].text = text])
<1> DEFINE new == [nodes EXCEPT ![n].text = text]
<1>1. AreRows(nodes) /\ IsTree(nodes) /\ n \in Held(nodes)
  BY DEF Grown, Held
<1>2. AreRows(new) /\ IsTree(new)
  BY <1>1, EditGrows
<1>3. \A m \in Nodes : new[m] = IF m = n THEN [nodes[n] EXCEPT !.text = text] ELSE nodes[m]
  BY <1>1 DEF AreRows
<1>4. nodes[n] \in Row
  BY <1>1, RowParts
<1>5. new[n].text = text /\ text # Nil
  BY <1>3, <1>4, NilIsNoRow DEF Row, RowsAt
<1> HIDE DEF new
<1>6. ASSUME NEW m \in Held(new)
      PROVE  m \in Held(nodes) /\ (IsFile(new, m) <=> IsFile(nodes, m))
  <2>1. CASE m = n
    BY <2>1, <1>1, <1>5 DEF IsFile
  <2>2. CASE m # n
    BY <2>2, <1>3 DEF IsFile, Held
  <2> QED BY <2>1, <2>2
<1>7. Grown(K, issued, new)
  BY <1>2, <1>6 DEF Grown, Kinds
<1> QED BY <1>7 DEF new

-----------------------------------------------------------------------------
(* The files and folders here.                                             *)

FilesOf(files) == {p \in FilePaths : files[p] # Nil}
Housed(files, folders) ==
  /\ files \in [FilePaths -> Texts \cup {Nil}] /\ folders \subseteq Folders
  /\ \A p \in FilesOf(files) \cup folders : Above(p) \subseteq folders

LEMMA AboveChain ==
  ASSUME NEW p \in Paths, NEW d \in Above(p)
  PROVE  Above(d) \subseteq Above(p)
<1>1. d \in Folders /\ d \in Seq(Names) /\ p \in Seq(Names) /\ Under(d, p)
  BY PathsAre DEF Above, Paths
<1>2. ASSUME NEW e \in Above(d) PROVE Under(e, p)
  <2>1. e \in Seq(Names) /\ Within(e, d)
    BY <1>2, PathsAre DEF Above, Paths, Within
  <2> QED BY <2>1, <1>1, WithinChain DEF Within
<1> QED BY <1>2 DEF Above

LEMMA StandingHouses ==
  ASSUME NEW folders, folders \subseteq Folders,
         \A d \in folders : Above(d) \subseteq folders,
         NEW p \in Paths, Parent(p) = <<>> \/ Parent(p) \in folders
  PROVE  Above(p) \subseteq folders
<1>1. CASE Parent(p) = <<>>
  BY <1>1, AboveMeans
<1>2. CASE Parent(p) \in folders
  <2>1. Above(p) = {Parent(p)} \cup Above(Parent(p))
    BY <1>2, AboveMeans
  <2> QED BY <2>1, <1>2
<1> QED BY <1>1, <1>2

LEMMA Writing ==
  ASSUME NEW files, NEW folders, Housed(files, folders),
         NEW p \in FilePaths, NEW text \in Texts, Above(p) \subseteq folders
  PROVE  Housed([files EXCEPT ![p] = text], folders)
BY NilIsNoRow DEF Housed, FilesOf

LEMMA Removing ==
  ASSUME NEW files, NEW folders, Housed(files, folders), NEW p
  PROVE  Housed([files EXCEPT ![p] = Nil], folders)
BY DEF Housed, FilesOf

LEMMA Making ==
  ASSUME NEW files, NEW folders, Housed(files, folders),
         NEW p \in Paths
  PROVE  Housed(files, folders \cup Above(p))
<1>1. \A d \in Above(p) : Above(d) \subseteq Above(p)
  BY AboveChain
<1> QED BY <1>1 DEF Housed, Above

\* A rewrite undone.
LEMMA RehungBack ==
  ASSUME NEW S, NEW p \in Seq(S), NEW from \in Seq(S), NEW to \in Seq(S), Within(from, p)
  PROVE  Rehung(Rehung(p, from, to), to, from) = p
<1> DEFINE r == Rehung(p, from, to)
           b == Rehung(r, to, from)
<1>1. Len(p) \in Nat /\ Len(from) \in Nat /\ Len(to) \in Nat
  BY LenProperties
<1>2. r \in Seq(S) /\ IsRehung(r, p, from, to) /\ Within(to, r)
  BY RehungMeans
<1>3. /\ Len(from) <= Len(p) /\ Len(r) = Len(to) + (Len(p) - Len(from))
      /\ \A i \in 1..Len(p) - Len(from) : r[Len(to) + i] = p[Len(from) + i]
  BY <1>2 DEF IsRehung
<1> HIDE DEF r
<1>4. b \in Seq(S) /\ IsRehung(b, r, to, from)
  BY <1>2, RehungMeans
<1>5. /\ Len(b) = Len(from) + (Len(r) - Len(to))
      /\ \A i \in 1..Len(from) : b[i] = from[i]
      /\ \A i \in 1..Len(r) - Len(to) : b[Len(from) + i] = r[Len(to) + i]
  BY <1>4 DEF IsRehung
<1>6. \A i \in 1..Len(from) : from[i] = p[i]
  BY WithinStarts
<1> HIDE DEF b
<1>7. Len(b) = Len(p)
  BY <1>1, <1>3, <1>5
<1>8. \A i \in 1..Len(p) : b[i] = p[i]
  <2>1. TAKE i \in 1..Len(p)
  <2>2. CASE i <= Len(from)
    BY <2>2, <1>1, <1>5, <1>6
  <2>3. CASE ~(i <= Len(from))
    <3> DEFINE j == i - Len(from)
    <3>1. j \in 1..Len(p) - Len(from) /\ j \in 1..Len(r) - Len(to) /\ i = Len(from) + j
      BY <2>3, <1>1, <1>3
    <3> HIDE DEF j
    <3> QED BY <3>1, <1>3, <1>5
  <2> QED BY <2>2, <2>3
<1>9. b = p
  BY <1>4, <1>7, <1>8, SeqEqual
<1> QED BY <1>9 DEF b, r

LEMMA Renaming ==
  ASSUME Housed(disk, dirs), NEW d \in dirs, NEW e \in Folders, e \notin dirs,
         Standing(Parent(e)), d # e, ~Under(d, e),
         \A x \in dirs : Rehung(x, d, e) \in Folders
  PROVE  Housed([p \in FilePaths |->
                   IF Under(e, p) /\ d \o Rel(e, p) \in FilePaths THEN disk[d \o Rel(e, p)]
                   ELSE IF Under(d, p) THEN Nil ELSE disk[p]],
                {Rehung(x, d, e) : x \in dirs})
<1> DEFINE files == [p \in FilePaths |->
                       IF Under(e, p) /\ d \o Rel(e, p) \in FilePaths THEN disk[d \o Rel(e, p)]
                       ELSE IF Under(d, p) THEN Nil ELSE disk[p]]
           folders == {Rehung(x, d, e) : x \in dirs}
<1>1. /\ d \in Folders /\ dirs \subseteq Folders
      /\ disk \in [FilePaths -> Texts \cup {Nil}]
      /\ \A p \in FilesOf(disk) \cup dirs : Above(p) \subseteq dirs
  BY DEF Housed
<1>2. /\ d \in Seq(Names) /\ e \in Seq(Names) /\ d # <<>> /\ e # <<>>
      /\ \A x \in Folders \cup FilePaths : x \in Seq(Names) /\ x # <<>> /\ x \in Paths
  BY <1>1, PathsAre DEF Paths
<1>3. files \in [FilePaths -> Texts \cup {Nil}] /\ folders \subseteq Folders
  BY <1>1
<1>4. ASSUME NEW y \in dirs, ~Within(d, y) PROVE y \in folders
  <2>1. Rehung(y, d, e) = y
    BY <1>4 DEF Rehung, Within
  <2> QED BY <2>1
<1>5. ASSUME NEW y \in Above(e) PROVE y \in folders
  <2>1. Above(e) \subseteq dirs
    BY <1>1, <1>2, StandingHouses DEF Standing
  <2>2. ~Within(d, y)
    <3>1. y \in Seq(Names) /\ Under(y, e)
      BY <1>5, <1>2 DEF Above
    <3>2. Within(y, e)
      BY <3>1 DEF Within
    <3> QED BY <3>1, <3>2, <1>2, WithinChain DEF Within
  <2> QED BY <2>1, <2>2, <1>4, <1>5
<1>6. ASSUME NEW x \in Paths, Within(d, x), Above(x) \subseteq dirs, NEW y \in Folders,
             Under(y, Rehung(x, d, e)), x \in Folders \cup FilePaths
      PROVE  y \in folders
  <2>1. CASE Under(y, e)
    BY <2>1, <1>5 DEF Above
  <2>2. CASE ~Under(y, e)
    <3>1. PICK w \in Seq(Names) : Within(d, w) /\ Under(w, x) /\ y = Rehung(w, d, e)
      BY <2>2, <1>2, <1>6, RehungAbove DEF Paths
    <3>2. w \in Paths
      BY <3>1, <1>2, NothingAboveTop DEF Paths
    <3>3. w \in dirs
      BY <3>1, <3>2, <1>6, PrefixesAreFolders
    <3> QED BY <3>1, <3>3
  <2> QED BY <2>1, <2>2
<1>7. ASSUME NEW x \in Folders \cup FilePaths, ~Within(d, x), Above(x) \subseteq dirs,
             NEW y \in Above(x)
      PROVE  y \in folders
  <2>1. y \in Seq(Names) /\ Within(y, x)
    BY <1>2 DEF Above, Within
  <2>2. ~Within(d, y)
    BY <2>1, <1>2, <1>7, WithinChain
  <2> QED BY <2>2, <1>4, <1>7
<1>8. ASSUME NEW z \in folders PROVE Above(z) \subseteq folders
  <2>1. PICK x \in dirs : z = Rehung(x, d, e)
    OBVIOUS
  <2>2. x \in Folders /\ Above(x) \subseteq dirs
    BY <2>1, <1>1
  <2>3. CASE Within(d, x)
    BY <2>1, <2>2, <2>3, <1>2, <1>6 DEF Above
  <2>4. CASE ~Within(d, x)
    <3>1. z = x
      BY <2>1, <2>4 DEF Rehung, Within
    <3> QED BY <3>1, <2>2, <2>4, <1>7
  <2> QED BY <2>3, <2>4
<1>9. ASSUME NEW p \in FilesOf(files) PROVE Above(p) \subseteq folders
  <2> DEFINE q == d \o Rel(e, p)
  <2>1. p \in FilePaths /\ files[p] # Nil
    BY DEF FilesOf
  <2>2. CASE Under(e, p) /\ q \in FilePaths
    <3>1. disk[q] # Nil
      BY <2>1, <2>2
    <3>2. q = Rehung(p, e, d) /\ Within(e, p)
      BY <2>2 DEF Rehung, Within
    <3>3. Rehung(q, d, e) = p /\ Within(d, q)
      BY <3>2, <2>1, <1>2, RehungBack, RehungMeans
    <3> HIDE DEF q
    <3>4. Above(q) \subseteq dirs
      BY <3>1, <2>2, <1>1 DEF FilesOf
    <3> QED BY <3>3, <3>4, <2>2, <1>2, <1>6 DEF Above
  <2>3. CASE ~(Under(e, p) /\ q \in FilePaths)
    <3>1. disk[p] # Nil /\ ~Under(d, p)
      BY <2>1, <2>3
    <3>2. Above(p) \subseteq dirs
      BY <3>1, <2>1, <1>1 DEF FilesOf
    <3>3. p # d
      BY <2>1, <1>1, FilesAreNotFolders
    <3> QED BY <3>1, <3>2, <3>3, <2>1, <1>7 DEF Within
  <2> QED BY <2>2, <2>3
<1> HIDE DEF files, folders
<1>10. Housed(files, folders)
  BY <1>3, <1>8, <1>9 DEF Housed
<1> QED BY <1>10 DEF files, folders

-----------------------------------------------------------------------------
(* What a pass knows.                                                      *)

Rec(K) == [node : K, hash : Texts, text : Texts]
Van(K) == [path : FilePaths, node : K, hash : Texts, text : Texts]
OnRecord(K, rec) == rec \in [FilePaths -> Rec(K) \cup {Nil}]

\* A picture of the rows: folders moved in it may have taken what is in them to
\* paths beyond the bound.
Named(tree) == \A n \in Held(tree) : IsFile(tree, n) <=> Last(tree[n].path) \in FileNames
Pictured(K, top, tree) ==
  /\ tree \in [Nodes -> RowsAt(Paths) \cup {Nil}]
  /\ Kinds(K, top, tree) /\ Named(tree)

PassFields == {"tree", "ids", "known", "plan", "vanished", "queue", "handled", "crossed",
               "early", "half", "tried", "touched", "held", "quiet"}
PassFits(K, top, files, rec) ==
  /\ DOMAIN rec = PassFields
  /\ Pictured(K, top, rec.tree)
  /\ Pictured(K, top, rec.ids) /\ AreRows(rec.ids)
  /\ OnRecord(K, rec.known)
  /\ \A m \in rec.plan : m.from \in Folders /\ m.to \in Folders /\ m.node \in Nodes
  /\ rec.vanished \subseteq Van(K)
  /\ rec.queue \subseteq FilesOf(files)
  /\ rec.half \in Van(K) \cup {Nil}

LEMMA RowsAreNamed ==
  ASSUME NEW tree, AreRows(tree), IsTree(tree)
  PROVE  Named(tree) /\ tree \in [Nodes -> RowsAt(Paths) \cup {Nil}]
<1>1. Row \subseteq RowsAt(Paths)
  BY PathsAre DEF Row, RowsAt
<1>2. Named(tree)
  BY PathsAre DEF IsTree, Named
<1> QED BY <1>1, <1>2 DEF AreRows

LEMMA PicturedPaths ==
  ASSUME NEW K, NEW top, NEW tree, Pictured(K, top, tree), NEW n \in Held(tree)
  PROVE  /\ n \in Nodes /\ n \in 1..top /\ tree[n] \in RowsAt(Paths) /\ tree[n].path \in Paths
         /\ tree[n].share \in Shares \cup {Nil} /\ tree[n].text \in Texts \cup {Nil}
         /\ n \in K <=> IsFile(tree, n)
         /\ IsFile(tree, n) => tree[n].text \in Texts
         /\ tree[n].path \in FilePaths => IsFile(tree, n)
         /\ tree[n].path \in Folders => ~IsFile(tree, n)
<1>1. n \in Nodes /\ tree[n] \in RowsAt(Paths)
  BY DEF Held, Pictured
<1>2. /\ tree[n].path \in Paths /\ tree[n].share \in Shares \cup {Nil}
      /\ tree[n].text \in Texts \cup {Nil}
  BY <1>1 DEF RowsAt
<1>3. /\ n \in 1..top /\ (n \in K <=> IsFile(tree, n))
      /\ (IsFile(tree, n) <=> Last(tree[n].path) \in FileNames)
  BY DEF Pictured, Kinds, Named
<1>4. IsFile(tree, n) => tree[n].text \in Texts
  BY <1>2 DEF IsFile
<1> QED BY <1>1, <1>2, <1>3, <1>4, PathsAre

LEMMA ScopesAre ==
  ASSUME NEW K, NEW top, NEW tree, Pictured(K, top, tree), NEW p
  PROVE  ScopeAt(tree, p) \in Shares \cup {Nil}
<1>1. \A n \in FolderAt(tree, Parent(p)) : n \in Held(tree)
  BY DEF FolderAt, At
<1> QED BY <1>1, PicturedPaths DEF ScopeAt

\* A new row in a picture, or one at another place.
LEMMA Placing ==
  ASSUME NEW K, NEW top, NEW tree, Pictured(K, top, tree), NEW n \in Nodes, n \in 1..top,
         NEW row \in RowsAt(Paths),
         IF n \in K THEN row.path \in FilePaths /\ row.text \in Texts
         ELSE row.path \in Folders /\ row.text = Nil
  PROVE  Pictured(K, top, [tree EXCEPT ![n] = row])
<1> DEFINE new == [tree EXCEPT ![n] = row]
<1>1. /\ new \in [Nodes -> RowsAt(Paths) \cup {Nil}] /\ new[n] = row
      /\ \A m \in Nodes \ {n} : new[m] = tree[m]
  BY DEF Pictured
<1>2. IF n \in K THEN row.text # Nil /\ Last(row.path) \in FileNames
      ELSE row.text = Nil /\ Last(row.path) \notin FileNames
  BY PathsAre, NilIsNoRow
<1> HIDE DEF new
<1>3. ASSUME NEW m \in Held(new)
      PROVE  /\ m \in 1..top /\ (m \in K <=> IsFile(new, m))
             /\ IsFile(new, m) <=> Last(new[m].path) \in FileNames
  <2>1. CASE m = n
    BY <2>1, <1>1, <1>2 DEF IsFile
  <2>2. CASE m # n
    <3>1. m \in Held(tree) /\ new[m] = tree[m]
      BY <2>2, <1>1 DEF Held
    <3> QED BY <3>1 DEF Pictured, Kinds, Named, IsFile
  <2> QED BY <2>1, <2>2
<1>4. Pictured(K, top, new)
  BY <1>1, <1>3 DEF Pictured, Kinds, Named
<1> QED BY <1>4 DEF new

\* Rows taken out of a picture.
LEMMA Clearing ==
  ASSUME NEW K, NEW top, NEW tree, Pictured(K, top, tree),
         NEW new, DOMAIN new = Nodes, \A n \in Nodes : new[n] \in {tree[n], Nil},
         new = [n \in Nodes |-> new[n]]
  PROVE  Pictured(K, top, new)
<1>1. \A n \in Held(new) : n \in Held(tree) /\ new[n] = tree[n]
  BY DEF Held
<1>2. new \in [Nodes -> RowsAt(Paths) \cup {Nil}]
  <2>1. \A n \in Nodes : new[n] \in RowsAt(Paths) \cup {Nil}
    BY DEF Pictured
  <2> QED BY <2>1
<1> QED BY <1>1, <1>2 DEF Pictured, Kinds, Named, IsFile

LEMMA Remapping ==
  ASSUME NEW K, NEW top, NEW tree, Pictured(K, top, tree), NEW from \in Folders, NEW to \in Folders
  PROVE  Pictured(K, top, RemapTree(tree, from, to))
<1> DEFINE new == RemapTree(tree, from, to)
<1>1. /\ from \in Seq(Names) /\ to \in Seq(Names) /\ from # <<>> /\ to # <<>>
      /\ Last(from) \notin FileNames /\ Last(to) \notin FileNames
  BY PathsAre DEF Paths
<1>2. ASSUME NEW n \in Held(tree)
      PROVE  /\ Rehung(tree[n].path, from, to) \in Paths
             /\ (Last(Rehung(tree[n].path, from, to)) \in FileNames)
                  <=> (Last(tree[n].path) \in FileNames)
  <2>1. tree[n].path \in Seq(Names) /\ tree[n].path # <<>>
    BY PicturedPaths DEF Paths
  <2>2. CASE tree[n].path = from
    <3>1. Within(from, from)
      BY DEF Within
    <3>2. /\ Rehung(from, from, to) \in Seq(Names)
          /\ IsRehung(Rehung(from, from, to), from, from, to)
      BY <3>1, <1>1, RehungMeans
    <3>3. Len(from) \in Nat /\ Len(to) \in Nat
      BY <1>1, LenProperties
    <3>4. /\ Len(Rehung(from, from, to)) = Len(to)
          /\ \A i \in 1..Len(to) : Rehung(from, from, to)[i] = to[i]
      BY <3>2, <3>3 DEF IsRehung
    <3>5. Rehung(from, from, to) = to
      BY <3>2, <3>4, <1>1, SeqEqual
    <3> QED BY <3>5, <2>2, <1>1 DEF Paths
  <2>3. CASE Under(from, tree[n].path)
    <3>1. Within(from, tree[n].path)
      BY <2>3 DEF Within
    <3> QED BY <3>1, <2>1, <2>3, <1>1, RehungMeans, RehungBelow DEF Paths
  <2>4. CASE ~Within(from, tree[n].path)
    BY <2>1, <2>4 DEF Rehung, Within, Paths
  <2> QED BY <2>2, <2>3, <2>4 DEF Within
<1>3. ASSUME NEW n \in Held(tree)
      PROVE  /\ new[n] \in RowsAt(Paths) /\ n \in Nodes
             /\ new[n].path = Rehung(tree[n].path, from, to) /\ new[n].text = tree[n].text
  <2>1. n \in Nodes /\ tree[n] \in RowsAt(Paths) /\ tree[n] # Nil
    BY PicturedPaths DEF Held
  <2> QED BY <2>1, <1>2 DEF RemapTree, RowsAt
<1>4. ASSUME NEW n \in Nodes, n \notin Held(tree) PROVE new[n] = Nil
  BY <1>4 DEF RemapTree, Held
<1>5. new \in [Nodes -> RowsAt(Paths) \cup {Nil}]
  <2>1. new = [n \in Nodes |-> new[n]]
    BY DEF RemapTree
  <2>2. \A n \in Nodes : new[n] \in RowsAt(Paths) \cup {Nil}
    BY <1>3, <1>4
  <2> HIDE DEF new
  <2> QED BY <2>1, <2>2
<1> HIDE DEF new
<1>6. ASSUME NEW n \in Held(new)
      PROVE  /\ n \in 1..top /\ (n \in K <=> IsFile(new, n))
             /\ IsFile(new, n) <=> Last(new[n].path) \in FileNames
  <2>1. n \in Held(tree)
    BY <1>4 DEF Held
  <2>2. IsFile(new, n) <=> IsFile(tree, n)
    BY <2>1, <1>3 DEF IsFile
  <2>3. Last(new[n].path) \in FileNames <=> Last(tree[n].path) \in FileNames
    BY <2>1, <1>2, <1>3
  <2> QED BY <2>1, <2>2, <2>3 DEF Pictured, Kinds, Named
<1>7. Pictured(K, top, new)
  BY <1>5, <1>6 DEF Pictured, Kinds, Named
<1> QED BY <1>7 DEF new

\* A file with a new id: what is recorded, and what is pictured, is what it was.
LEMMA IdIssued ==
  ASSUME NEW K, NEW top, Ids(K, top), NEW L, L = K \/ L = K \cup {top + 1}
  PROVE  top \in Nat /\ K \subseteq L /\ \A n \in L \ K : n = top + 1
BY IdsAre

LEMMA RecordIssued ==
  ASSUME NEW K, NEW top, Ids(K, top), NEW L, L = K \/ L = K \cup {top + 1},
         NEW rec, OnRecord(K, rec)
  PROVE  OnRecord(L, rec)
<1>1. K \subseteq L
  BY IdIssued
<1>2. Rec(K) \subseteq Rec(L)
  BY <1>1 DEF Rec
<1> QED BY <1>2 DEF OnRecord

LEMMA PictureIssued ==
  ASSUME NEW K, NEW top, Ids(K, top), NEW L, L = K \/ L = K \cup {top + 1},
         NEW tree, Pictured(K, top, tree)
  PROVE  Pictured(L, top + 1, tree)
<1>1. top \in Nat /\ K \subseteq L /\ \A n \in L \ K : n = top + 1
  BY IdIssued
<1>2. ASSUME NEW n \in Held(tree)
      PROVE  n \in 1..top + 1 /\ (n \in L <=> IsFile(tree, n))
  <2>1. n \in 1..top /\ (n \in K <=> IsFile(tree, n))
    BY DEF Pictured, Kinds
  <2>2. n # top + 1 /\ n \in 1..top + 1
    BY <2>1, <1>1
  <2>3. n \in L <=> n \in K
    BY <2>2, <1>1
  <2> QED BY <2>1, <2>2, <2>3
<1> QED BY <1>2 DEF Pictured, Kinds

LEMMA PassIssued ==
  ASSUME NEW K, NEW top, Ids(K, top), NEW L, L = K \/ L = K \cup {top + 1},
         NEW files, NEW rec, PassFits(K, top, files, rec)
  PROVE  PassFits(L, top + 1, files, rec)
<1>1. Pictured(L, top + 1, rec.tree) /\ Pictured(L, top + 1, rec.ids)
  BY PictureIssued DEF PassFits
<1>2. OnRecord(L, rec.known)
  BY RecordIssued DEF PassFits
<1>3. K \subseteq L
  BY IdIssued
<1>4. Van(K) \subseteq Van(L)
  BY <1>3 DEF Van
<1>5. rec.vanished \subseteq Van(L) /\ rec.half \in Van(L) \cup {Nil}
  BY <1>4 DEF PassFits
<1> QED BY <1>1, <1>2, <1>5 DEF PassFits

LEMMA Learning ==
  ASSUME NEW K, NEW top, NEW files, NEW rec, PassFits(K, top, files, rec),
         NEW p, NEW r \in Rec(K) \cup {Nil}
  PROVE  PassFits(K, top, files, Learnt(rec, p, r))
<1>1. OnRecord(K, [rec.known EXCEPT ![p] = r])
  BY DEF PassFits, OnRecord
<1> HIDE DEF Pictured, AreRows, OnRecord
<1> QED BY <1>1 DEF PassFits, Learnt, PassFields

LEMMA Disturbance ==
  ASSUME NEW K, NEW top, NEW files, NEW rec, PassFits(K, top, files, rec)
  PROVE  PassFits(K, top, files, Disturbed(rec))
BY DEF PassFits, Disturbed, PassFields

LEMMA Taking ==
  ASSUME NEW K, NEW top, NEW files, PassFits(K, top, files, pass), NEW p
  PROVE  /\ PassFits(K, top, files, Taken(p)) /\ PassFits(K, top, files, Consumed(p))
         /\ Taken(p).queue = pass.queue \ {p}
         /\ Taken(p).known = pass.known /\ Taken(p).ids = pass.ids
<1>1. PassFits(K, top, files, Taken(p))
  BY DEF PassFits, Taken, PassFields
<1>2. PassFits(K, top, files, Consumed(p))
  BY <1>1 DEF PassFits, Consumed, PassFields
<1>3. /\ Taken(p).queue = pass.queue \ {p}
      /\ Taken(p).known = pass.known /\ Taken(p).ids = pass.ids
  BY DEF PassFits, Taken, PassFields
<1> QED BY <1>1, <1>2, <1>3

LEMMA PlacingRow ==
  ASSUME NEW K, NEW top, NEW files, NEW rec, PassFits(K, top, files, rec),
         NEW n \in Nodes, n \in 1..top, NEW path, NEW text,
         NEW scope \in Shares \cup {Nil},
         IF n \in K THEN path \in FilePaths /\ text \in Texts
         ELSE path \in Folders /\ text = Nil
  PROVE  PassFits(K, top, files, Placed(rec, n, path, text, scope))
<1> DEFINE row == [path |-> path, text |-> text, share |-> scope, root |-> FALSE]
           new == Placed(rec, n, path, text, scope)
<1>1. row \in Row /\ row \in RowsAt(Paths) /\ row.path = path /\ row.text = text
  BY PathsAre DEF Row, RowsAt
<1> HIDE DEF row
<1>2. Pictured(K, top, [rec.tree EXCEPT ![n] = row]) /\ Pictured(K, top, [rec.ids EXCEPT ![n] = row])
  BY <1>1, Placing DEF PassFits
<1>3. AreRows([rec.ids EXCEPT ![n] = row])
  BY <1>1 DEF PassFits, AreRows
<1>4. new = [rec EXCEPT !.tree = [rec.tree EXCEPT ![n] = row], !.ids = [rec.ids EXCEPT ![n] = row]]
  BY DEF Placed, row, PassFits, PassFields
<1>5. /\ DOMAIN new = DOMAIN rec
      /\ new.tree = [rec.tree EXCEPT ![n] = row] /\ new.ids = [rec.ids EXCEPT ![n] = row]
      /\ new.known = rec.known /\ new.plan = rec.plan /\ new.vanished = rec.vanished
      /\ new.queue = rec.queue /\ new.half = rec.half
  BY <1>4 DEF PassFits, PassFields
<1> HIDE DEF new
<1>6. PassFits(K, top, files, new)
  BY <1>2, <1>3, <1>5 DEF PassFits
<1> QED BY <1>6 DEF new

\* The node of a row seen leaves the picture and the index.
LEMMA Dropping ==
  ASSUME NEW K, NEW top, NEW files, NEW rec, PassFits(K, top, files, rec), NEW n
  PROVE  PassFits(K, top, files, [rec EXCEPT !.tree[n] = Nil, !.ids[n] = Nil])
<1> DEFINE new == [rec EXCEPT !.tree[n] = Nil, !.ids[n] = Nil]
<1>1. Pictured(K, top, [rec.tree EXCEPT ![n] = Nil]) /\ Pictured(K, top, [rec.ids EXCEPT ![n] = Nil])
  <2>1. ASSUME NEW tree, Pictured(K, top, tree) PROVE Pictured(K, top, [tree EXCEPT ![n] = Nil])
    <3> DEFINE t == [tree EXCEPT ![n] = Nil]
    <3>1. /\ DOMAIN t = Nodes /\ (\A m \in Nodes : t[m] \in {tree[m], Nil})
          /\ t = [m \in Nodes |-> t[m]]
      BY <2>1 DEF Pictured
    <3> HIDE DEF t
    <3>2. Pictured(K, top, t)
      BY <3>1, <2>1, Clearing
    <3> QED BY <3>2 DEF t
  <2> QED BY <2>1 DEF PassFits
<1>2. AreRows([rec.ids EXCEPT ![n] = Nil])
  BY DEF PassFits, AreRows
<1>3. /\ DOMAIN new = DOMAIN rec
      /\ new.tree = [rec.tree EXCEPT ![n] = Nil] /\ new.ids = [rec.ids EXCEPT ![n] = Nil]
      /\ new.known = rec.known /\ new.plan = rec.plan /\ new.vanished = rec.vanished
      /\ new.queue = rec.queue /\ new.half = rec.half
  BY DEF PassFits, PassFields
<1> HIDE DEF new
<1>4. PassFits(K, top, files, new)
  BY <1>1, <1>2, <1>3 DEF PassFits
<1> QED BY <1>4 DEF new

LEMMA DeletingVanished ==
  ASSUME NEW K, NEW top, NEW files, NEW rec, PassFits(K, top, files, rec), NEW v
  PROVE  PassFits(K, top, files, Deleted(rec, v))
<1> DEFINE new == Deleted(rec, v)
           tree == [n \in Nodes |-> IF n \in At(rec.tree, rec.ids[v.node].path) THEN Nil
                                    ELSE rec.tree[n]]
<1>1. Pictured(K, top, rec.tree) /\ Pictured(K, top, rec.ids)
  BY DEF PassFits
<1>2. Pictured(K, top, tree)
  <2>1. /\ DOMAIN tree = Nodes /\ (\A m \in Nodes : tree[m] \in {rec.tree[m], Nil})
        /\ tree = [m \in Nodes |-> tree[m]]
    OBVIOUS
  <2> HIDE DEF tree
  <2> QED BY <2>1, <1>1, Clearing
<1>3. Pictured(K, top, [rec.ids EXCEPT ![v.node] = Nil])
  <2> DEFINE t == [rec.ids EXCEPT ![v.node] = Nil]
  <2>1. /\ DOMAIN t = Nodes /\ (\A m \in Nodes : t[m] \in {rec.ids[m], Nil})
        /\ t = [m \in Nodes |-> t[m]]
    BY <1>1 DEF Pictured
  <2> HIDE DEF t
  <2>2. Pictured(K, top, t)
    BY <2>1, <1>1, Clearing
  <2> QED BY <2>2 DEF t
<1>4. AreRows([rec.ids EXCEPT ![v.node] = Nil])
  BY DEF PassFits, AreRows
<1>5. OnRecord(K, [rec.known EXCEPT ![v.path] = Nil])
  BY DEF PassFits, OnRecord
<1>6. /\ DOMAIN new = DOMAIN rec
      /\ new.tree = tree /\ new.ids = [rec.ids EXCEPT ![v.node] = Nil]
      /\ new.known = [rec.known EXCEPT ![v.path] = Nil]
      /\ new.plan = rec.plan /\ new.vanished = rec.vanished
      /\ new.queue = rec.queue /\ new.half = rec.half
  BY DEF PassFits, PassFields, Deleted
<1> HIDE DEF new, tree
<1>7. PassFits(K, top, files, new)
  BY <1>2, <1>3, <1>4, <1>5, <1>6 DEF PassFits
<1> QED BY <1>7 DEF new

LEMMA Holding ==
  ASSUME NEW K, NEW top, NEW files, PassFits(K, top, files, pass), NEW m
  PROVE  PassFits(K, top, files, HeldBack(m))
<1> DEFINE new == HeldBack(m)
<1>1. /\ DOMAIN new = PassFields
      /\ new.tree = pass.tree /\ new.ids = pass.ids /\ new.known = pass.known
      /\ new.plan = pass.plan \ {m} /\ new.half = pass.half
      /\ new.vanished = pass.vanished \ Gone(pass.vanished, m.from)
      /\ new.queue = {p \in pass.queue : ~Under(m.to, p)}
  BY DEF PassFits, PassFields, HeldBack, Disturbed
<1> HIDE DEF new
<1>2. PassFits(K, top, files, new)
  BY <1>1 DEF PassFits
<1> QED BY <1>2 DEF new

LEMMA Carrying ==
  ASSUME NEW K, NEW top, NEW files, PassFits(K, top, files, pass), NEW m \in pass.plan
  PROVE  PassFits(K, top, files, Carried(m))
<1> DEFINE new == Carried(m)
<1>1. m.from \in Folders /\ m.to \in Folders
  BY DEF PassFits
<1>2. Pictured(K, top, RemapTree(pass.tree, m.from, m.to))
  BY <1>1, Remapping DEF PassFits
<1>3. OnRecord(K, RemapState(pass.known, m.from, m.to))
  <2>1. \A q \in FilePaths : pass.known[q] \in Rec(K) \cup {Nil}
    BY DEF PassFits, OnRecord
  <2> QED BY <2>1 DEF OnRecord, RemapState
<1>4. /\ DOMAIN new = PassFields
      /\ new.tree = RemapTree(pass.tree, m.from, m.to) /\ new.ids = pass.ids
      /\ new.known = RemapState(pass.known, m.from, m.to)
      /\ new.plan = pass.plan \ {m} /\ new.half = pass.half
      /\ new.vanished \subseteq pass.vanished
      /\ new.queue = pass.queue
  BY DEF PassFits, PassFields, Carried
<1> HIDE DEF new
<1>5. PassFits(K, top, files, new)
  BY <1>2, <1>3, <1>4 DEF PassFits
<1> QED BY <1>5 DEF new

-----------------------------------------------------------------------------
(* The invariant, and its steps.                                           *)

FoldersInvOf(K) ==
  /\ Ids(K, issued) /\ Grown(K, issued, nodes)
  /\ Housed(disk, dirs) /\ OnRecord(K, known)
  /\ pass # Nil => PassFits(K, issued, disk, pass)
FoldersInv == \E K \in SUBSET Nodes : FoldersInvOf(K)

LEMMA InvImplies ==
  ASSUME NEW K, FoldersInvOf(K)
  PROVE  FoldersInv /\ FoldersTypeOK
<1>1. K \in SUBSET Nodes
  BY IdsAre DEF FoldersInvOf
<1>2. FoldersTypeOK
  BY DEF FoldersInvOf, FoldersTypeOK, Ids, Grown, AreRows, Housed, FilesOf, Here
<1> QED BY <1>1, <1>2 DEF FoldersInv

LEMMA DecideMeans ==
  ASSUME NEW p
  PROVE  /\ Decide(p) \in {"pull", "adopt", "conflict", "push-edit"} => On(p) # {}
         /\ Decide(p) = "remote-rename" => /\ pass.known[p] # Nil
                                           /\ pass.ids[pass.known[p].node] # Nil
<1> DEFINE k == pass.known[p]
           same == On(p) # {} /\ k # Nil /\ k.node \in On(p)
<1>1. CASE On(p) # {}
  <2>1. CASE same
    <3>1. Decide(p) \in {"nothing", "pull", "push-edit"}
      BY <1>1, <2>1 DEF Decide
    <3> QED BY <3>1, <1>1
  <2>2. CASE ~same
    <3>1. Decide(p) \in {"adopt", "conflict"}
      BY <1>1, <2>2 DEF Decide
    <3> QED BY <3>1, <1>1
  <2> QED BY <2>1, <2>2
<1>2. CASE On(p) = {} /\ k # Nil
  <2>1. CASE pass.ids[k.node] # Nil
    <3>1. Decide(p) = "remote-rename"
      BY <1>2, <2>1 DEF Decide
    <3> QED BY <3>1, <1>2, <2>1
  <2>2. CASE pass.ids[k.node] = Nil
    <3>1. Decide(p) \in {"remove-local", "push-new"}
      BY <1>2, <2>2 DEF Decide
    <3> QED BY <3>1
  <2> QED BY <2>1, <2>2
<1>3. CASE On(p) = {} /\ k = Nil
  <2>1. Decide(p) \in {"push-move", "push-new"}
    BY <1>3 DEF Decide
  <2> QED BY <2>1
<1> QED BY <1>1, <1>2, <1>3

\* The parent a call names is the top, or was pictured as a folder.
LEMMA ParentsAre ==
  ASSUME NEW K, NEW top, NEW tree, Pictured(K, top, tree), NEW p \in Folders \cup FilePaths,
         Parent(p) = <<>> \/ At(tree, Parent(p)) # {}
  PROVE  ParentId(tree, p) \in {Top} \cup (Nodes \ K)
<1>1. Parent(p) \in Folders \cup {<<>>}
  BY PathsAre
<1>2. CASE Parent(p) = <<>>
  BY <1>2 DEF ParentId
<1>3. CASE Parent(p) # <<>>
  <2>1. Parent(p) \in Folders
    BY <1>1, <1>3
  <2>2. \A n \in At(tree, Parent(p)) : n \in Nodes \ K /\ n \in FolderAt(tree, Parent(p))
    <3>1. TAKE n \in At(tree, Parent(p))
    <3>2. n \in Held(tree) /\ tree[n].path = Parent(p)
      BY DEF At
    <3> QED BY <3>2, <2>1, PicturedPaths DEF FolderAt
  <2>3. FolderAt(tree, Parent(p)) # {} /\ FolderAt(tree, Parent(p)) \subseteq Nodes \ K
    BY <2>2, <1>3 DEF FolderAt
  <2> QED BY <2>3, <1>3 DEF ParentId
<1> QED BY <1>2, <1>3

LEMMA NoneMissing ==
  ASSUME NEW p \in FilePaths, Missing(p) = {}
  PROVE  Parent(p) = <<>> \/ At(pass.tree, Parent(p)) # {}
<1>1. p \in Paths /\ Parent(p) \in Folders \cup {<<>>}
  BY PathsAre
<1>2. ASSUME Parent(p) # <<>> PROVE Parent(p) \in Above(p)
  BY <1>1, <1>2, AboveMeans
<1> QED BY <1>2 DEF Missing

LEMMA FirstMissing ==
  ASSUME NEW p \in FilePaths, NEW d \in Missing(p), \A e \in Missing(p) : Len(d) <= Len(e)
  PROVE  /\ d \in Folders /\ Last(d) \in Names
         /\ Parent(d) = <<>> \/ At(pass.tree, Parent(d)) # {}
<1>1. d \in Folders /\ d \in Above(p) /\ d \in Paths /\ p \in Paths
  BY PathsAre DEF Missing, Above
<1>2. Parent(d) \in Folders \cup {<<>>} /\ Last(d) \in Names
  BY <1>1, PathsAre DEF Names
<1>3. ASSUME Parent(d) # <<>> PROVE At(pass.tree, Parent(d)) # {}
  <2>1. Parent(d) \in Above(p)
    BY <1>1, <1>2, <1>3, AboveMeans, AboveChain
  <2>2. Len(Parent(d)) = Len(d) - 1 /\ Len(d) \in Nat \ {0}
    BY <1>1, FrontMeans DEF Parent, Paths
  <2>3. ~(Len(d) <= Len(Parent(d)))
    BY <2>2
  <2>4. Parent(d) \notin Missing(p)
    BY <2>3
  <2> QED BY <2>1, <2>4 DEF Missing
<1> QED BY <1>1, <1>2, <1>3

\* The files a pass looks at.
LEMMA DueAre ==
  ASSUME NEW K, FoldersInvOf(K), NEW p \in Foremost
  PROVE  /\ pass # Nil /\ PassFits(K, issued, disk, pass)
         /\ p \in FilePaths /\ disk[p] \in Texts /\ p \in pass.queue
         /\ Above(p) \subseteq dirs /\ Last(p) \in Names
<1>1. pass # Nil /\ p \in pass.queue
  BY DEF Foremost, Due
<1>2. PassFits(K, issued, disk, pass)
  BY <1>1 DEF FoldersInvOf
<1>3. p \in FilesOf(disk)
  BY <1>1, <1>2 DEF PassFits
<1>4. p \in FilePaths /\ disk[p] # Nil /\ disk[p] \in Texts \cup {Nil} /\ Above(p) \subseteq dirs
  BY <1>3 DEF FoldersInvOf, Housed, FilesOf
<1>5. Last(p) \in Names
  BY <1>4 DEF Names
<1> QED BY <1>1, <1>2, <1>4, <1>5

LEMMA OnesAre ==
  ASSUME NEW K, NEW top, Pictured(K, top, pass.tree), NEW p \in FilePaths, On(p) # {}
  PROVE  /\ TheOne(p) \in K /\ TheOne(p) \in Nodes /\ ServerText(p) \in Texts
<1>1. TheOne(p) \in Held(pass.tree) /\ pass.tree[TheOne(p)].path = p
  BY DEF TheOne, On, At
<1> QED BY <1>1, PicturedPaths DEF ServerText

LEMMA Later ==
  ASSUME NEW L, Ids(L, issued'), Grown(L, issued', nodes'), Housed(disk', dirs'),
         OnRecord(L, known'), pass' # Nil => PassFits(L, issued', disk', pass')
  PROVE  FoldersInv'
<1>1. L \in SUBSET Nodes
  BY IdsAre
<1>2. FoldersInvOf(L)'
  BY DEF FoldersInvOf
<1> QED BY <1>1, <1>2 DEF FoldersInv

LEMMA OtherFiles ==
  ASSUME NEW K, NEW top, NEW files, NEW rec, PassFits(K, top, files, rec),
         NEW new, rec.queue \subseteq FilesOf(new)
  PROVE  PassFits(K, top, new, rec)
BY DEF PassFits

LEMMA Resolving ==
  ASSUME NEW K, NEW files, NEW folders, Housed(files, folders), NEW rec,
         PassFits(K, issued, files, rec), NEW p \in FilesOf(files), NEW n \in K, NEW text \in Texts,
         Resolved(files, p, rec, n, text)
  PROVE  Housed(disk', folders) /\ PassFits(K, issued, disk', pass')
<1> DEFINE learnt == Learnt(rec, p, Record(n, text, text))
           beside == CopyPath(p)
<1>1. Record(n, text, text) \in Rec(K)
  BY DEF Record, Rec
<1>2. PassFits(K, issued, files, learnt)
  BY <1>1, Learning
<1> HIDE DEF learnt
<1>3. CASE files[p] = text
  BY <1>2, <1>3 DEF Resolved, learnt
<1>4. CASE files[p] # text
  <2>1. /\ CopyOf[Last(p)] # Nil
        /\ disk' = [files EXCEPT ![p] = text, ![beside] = files[p]]
        /\ pass' = [learnt EXCEPT !.queue = @ \cup {beside}]
    BY <1>4 DEF Resolved, learnt
  <2>2. p \in FilePaths /\ files[p] \in Texts /\ Above(p) \subseteq folders
    BY DEF Housed, FilesOf
  <2>3. Parent(p) \in Folders \cup {<<>>} /\ Last(p) \in FileNames /\ p \in Paths
    BY <2>2, PathsAre
  <2>4. CopyOf[Last(p)] \in FileNames
    BY <2>1, <2>3, CopiesAreNamed
  <2>5. beside \in FilePaths /\ beside \in Paths
    BY <2>3, <2>4, PathsAre DEF CopyPath, FilePaths
  <2>6. Parent(beside) = Parent(p)
    <3>1. Parent(p) \in Seq(Names) /\ CopyOf[Last(p)] \in Names
      BY <2>3, <2>4, PathsAre, EmptySeq DEF Paths
    <3> QED BY <3>1, ChildMeans DEF CopyPath
  <2>7. Above(beside) = Above(p)
    BY <2>3, <2>5, <2>6, AboveMeans
  <2> HIDE DEF beside
  <2>8. Housed([files EXCEPT ![p] = text], folders)
    BY <2>2, Writing
  <2>9. Housed([[files EXCEPT ![p] = text] EXCEPT ![beside] = files[p]], folders)
    BY <2>2, <2>5, <2>7, <2>8, Writing
  <2>10. disk' = [[files EXCEPT ![p] = text] EXCEPT ![beside] = files[p]]
    BY <2>1
  <2>11. FilesOf(disk') = FilesOf(files) \cup {beside}
    <3>1. /\ files \in [FilePaths -> Texts \cup {Nil}] /\ text # Nil /\ files[p] # Nil
      BY <2>2, NilIsNoRow DEF Housed
    <3> QED BY <3>1, <2>1, <2>2, <2>5 DEF FilesOf
  <2>12. PassFits(K, issued, disk', pass')
    <3>1. /\ DOMAIN pass' = DOMAIN learnt /\ pass'.queue = learnt.queue \cup {beside}
          /\ pass'.tree = learnt.tree /\ pass'.ids = learnt.ids /\ pass'.known = learnt.known
          /\ pass'.plan = learnt.plan /\ pass'.vanished = learnt.vanished
          /\ pass'.half = learnt.half
      BY <2>1, <1>2 DEF PassFits, PassFields
    <3> QED BY <3>1, <1>2, <2>11 DEF PassFits
  <2> QED BY <2>9, <2>10, <2>12
<1> QED BY <1>3, <1>4

LEMMA Putting ==
  ASSUME NEW K, K \subseteq Nodes, Grown(K, issued, nodes),
         NEW files, NEW folders, Housed(files, folders), NEW rec, PassFits(K, issued, files, rec),
         NEW p \in FilesOf(files), NEW n \in K, NEW base, Put(files, p, rec, n, base)
  PROVE  Grown(K, issued, nodes') /\ Housed(disk', folders) /\ PassFits(K, issued, disk', pass')
<1>1. files[p] \in Texts /\ n \in Nodes
  BY DEF Housed, FilesOf
<1>2. ASSUME nodes[n] # Nil PROVE IsFile(nodes, n) /\ nodes[n].text \in Texts
  <2>1. n \in Held(nodes)
    BY <1>1, <1>2 DEF Held
  <2>2. IsFile(nodes, n)
    BY <2>1 DEF Grown, Kinds
  <2>3. nodes[n].text \in Texts \cup {Nil}
    BY <2>1, RowParts DEF Grown
  <2> QED BY <2>2, <2>3 DEF IsFile
<1>3. PassFits(K, issued, files, Disturbed(rec))
  BY Disturbance
<1>4. CASE /\ PutAccepted(n, base)
           /\ nodes' = [nodes EXCEPT ![n].text = files[p]]
           /\ Answered(Learnt(rec, p, Record(n, files[p], files[p])), Disturbed(rec))
           /\ disk' = files
  <2>1. Grown(K, issued, nodes')
    BY <1>1, <1>2, <1>4, Editing DEF PutAccepted
  <2>2. Record(n, files[p], files[p]) \in Rec(K)
    BY <1>1 DEF Record, Rec
  <2>3. PassFits(K, issued, files, pass')
    BY <2>2, <1>3, <1>4, Learning DEF Answered
  <2> QED BY <2>1, <2>3, <1>4
<1>5. CASE /\ nodes[n] # Nil /\ ~PutAccepted(n, base)
           /\ Resolved(files, p, Disturbed(rec), n, nodes[n].text)
           /\ UNCHANGED <<nodes, done>>
  BY <1>2, <1>3, <1>5, Resolving
<1>6. CASE /\ Failed(nodes[n] = Nil) /\ pass' = Disturbed(rec) /\ disk' = files
           /\ UNCHANGED nodes
  BY <1>3, <1>6
<1> QED BY <1>4, <1>5, <1>6 DEF Put

\* What a pass does with one file here.
LEMMA FileSteps ==
  ASSUME NEW K, FoldersInvOf(K), NEW p \in Foremost,
         Pull(p) \/ Adopt(p) \/ Conflict(p) \/ PushEdit(p) \/ RemoveLocal(p)
  PROVE  FoldersInv'
<1>1. /\ pass # Nil /\ PassFits(K, issued, disk, pass)
      /\ p \in FilePaths /\ disk[p] \in Texts /\ Above(p) \subseteq dirs
  BY DueAre
<1>2. /\ Ids(K, issued) /\ Grown(K, issued, nodes) /\ Housed(disk, dirs)
      /\ OnRecord(K, known) /\ Pictured(K, issued, pass.tree) /\ K \subseteq Nodes
  BY <1>1, IdsAre DEF FoldersInvOf, PassFits
<1>3. /\ PassFits(K, issued, disk, Taken(p)) /\ Taken(p).queue = pass.queue \ {p}
      /\ p \in FilesOf(disk)
  BY <1>1, Taking, NilIsNoRow DEF FilesOf
<1>4. CASE Pull(p)
  <2>1. TheOne(p) \in K /\ ServerText(p) \in Texts
    BY <1>1, <1>2, <1>4, DecideMeans, OnesAre DEF Pull, Turn
  <2>2. Housed(disk', dirs)
    BY <2>1, <1>1, <1>2, <1>4, Writing DEF Pull
  <2>3. FilesOf(disk') = FilesOf(disk)
    BY <2>1, <1>1, <1>2, <1>3, <1>4, NilIsNoRow DEF Pull, FilesOf, Housed
  <2>4. Record(TheOne(p), ServerText(p), ServerText(p)) \in Rec(K)
    BY <2>1 DEF Record, Rec
  <2>5. PassFits(K, issued, disk, pass')
    BY <2>4, <1>3, <1>4, Learning DEF Pull
  <2>6. PassFits(K, issued, disk', pass')
    BY <2>3, <2>5 DEF PassFits
  <2> QED BY <2>2, <2>6, <1>2, <1>4, Later DEF Pull
<1>5. CASE Adopt(p)
  <2>1. TheOne(p) \in K /\ ServerText(p) \in Texts
    BY <1>1, <1>2, <1>5, DecideMeans, OnesAre DEF Adopt, Turn
  <2>2. Record(TheOne(p), disk[p], ServerText(p)) \in Rec(K)
    BY <2>1, <1>1 DEF Record, Rec
  <2>3. PassFits(K, issued, disk, pass')
    BY <2>2, <1>3, <1>5, Learning DEF Adopt
  <2> QED BY <2>3, <1>2, <1>5, Later DEF Adopt
<1>6. CASE Conflict(p)
  <2>1. TheOne(p) \in K /\ ServerText(p) \in Texts
    BY <1>1, <1>2, <1>6, DecideMeans, OnesAre DEF Conflict, Turn
  <2>2. Housed(disk', dirs) /\ PassFits(K, issued, disk', pass')
    BY <2>1, <1>2, <1>3, <1>6, Resolving DEF Conflict
  <2> QED BY <2>2, <1>2, <1>6, Later DEF Conflict
<1>7. CASE PushEdit(p)
  <2>1. TheOne(p) \in K
    BY <1>1, <1>2, <1>7, DecideMeans, OnesAre DEF PushEdit, Turn
  <2>2. Grown(K, issued, nodes') /\ Housed(disk', dirs) /\ PassFits(K, issued, disk', pass')
    BY <2>1, <1>2, <1>3, <1>7, Putting DEF PushEdit
  <2> QED BY <2>2, <1>2, <1>7, Later DEF PushEdit
<1>8. CASE RemoveLocal(p)
  <2>1. Housed(disk', dirs)
    BY <1>2, <1>8, Removing DEF RemoveLocal
  <2>2. FilesOf(disk) \ {p} \subseteq FilesOf(disk')
    BY <1>2, <1>8 DEF RemoveLocal, FilesOf, Housed
  <2>3. pass' = Learnt(Taken(p), p, Nil)
    BY <1>8 DEF RemoveLocal
  <2>4. PassFits(K, issued, disk, pass')
    BY <2>3, <1>3, Learning
  <2>5. pass'.queue = pass.queue \ {p}
    BY <2>3, <1>3 DEF Learnt, PassFits, PassFields
  <2>6. pass'.queue \subseteq FilesOf(disk')
    BY <2>2, <2>5, <1>1 DEF PassFits
  <2>7. PassFits(K, issued, disk', pass')
    BY <2>4, <2>6, OtherFiles
  <2> QED BY <2>1, <2>7, <1>2, <1>8, Later DEF RemoveLocal
<1> QED BY <1>4, <1>5, <1>6, <1>7, <1>8

LEMMA FollowStep ==
  ASSUME NEW K, FoldersInvOf(K), NEW p \in Foremost, FollowRename(p)
  PROVE  FoldersInv'
<1> DEFINE k == pass.known[p]
           to == pass.ids[k.node].path
           files == [disk EXCEPT ![p] = Nil, ![to] = disk[p]]
           rec == [Learnt(Learnt(Taken(p), p, Nil), to,
                          Record(k.node, disk[p], pass.ids[k.node].text))
                     EXCEPT !.handled = @ \cup {to}]
           folders == dirs \cup Above(to)
<1>1. /\ pass # Nil /\ PassFits(K, issued, disk, pass)
      /\ p \in FilePaths /\ disk[p] \in Texts /\ Above(p) \subseteq dirs
  BY DueAre
<1>2. /\ Ids(K, issued) /\ Grown(K, issued, nodes) /\ Housed(disk, dirs)
      /\ OnRecord(K, known) /\ Pictured(K, issued, pass.ids) /\ AreRows(pass.ids)
      /\ OnRecord(K, pass.known) /\ K \subseteq Nodes
  BY <1>1, IdsAre DEF FoldersInvOf, PassFits
<1>3. PassFits(K, issued, disk, Taken(p)) /\ Taken(p).queue = pass.queue \ {p}
  BY <1>1, Taking
<1>4. k # Nil /\ pass.ids[k.node] # Nil
  BY DecideMeans DEF FollowRename, Turn
<1>5. k \in Rec(K) /\ k.node \in K /\ k.node \in Nodes /\ k.node \in Held(pass.ids)
  <2>1. k \in Rec(K)
    BY <1>1, <1>2, <1>4 DEF OnRecord
  <2>2. k.node \in K
    BY <2>1 DEF Rec
  <2> QED BY <2>1, <2>2, <1>2, <1>4 DEF Held
<1>6. to \in FilePaths /\ pass.ids[k.node].text \in Texts
  <2>1. IsFile(pass.ids, k.node)
    BY <1>2, <1>5, PicturedPaths
  <2>2. to \in Folders \cup FilePaths
    BY <1>2, <1>5, RowParts
  <2>3. to \notin Folders
    BY <2>1, <1>2, <1>5, PicturedPaths
  <2> QED BY <2>1, <2>2, <2>3, <1>2, <1>5, PicturedPaths
<1>7. Record(k.node, disk[p], pass.ids[k.node].text) \in Rec(K)
  BY <1>1, <1>5, <1>6 DEF Record, Rec
<1>8. /\ dirs' = folders
      /\ IF k.hash = disk[p]
         THEN pass' = rec /\ disk' = files /\ UNCHANGED <<nodes, done>>
         ELSE Put(files, to, rec, k.node, k.text)
      /\ UNCHANGED <<issued, known, shelf, meant>>
  BY DEF FollowRename
<1> HIDE DEF k, to
<1>9. Housed(files, folders)
  <2>1. Housed(disk, folders)
    BY <1>2, <1>6, Making, PathsAre
  <2>2. Housed([disk EXCEPT ![p] = Nil], folders)
    BY <2>1, Removing
  <2>3. Housed([[disk EXCEPT ![p] = Nil] EXCEPT ![to] = disk[p]], folders)
    BY <2>2, <1>1, <1>6, Writing
  <2> QED BY <2>3
<1>10. to \in FilesOf(files) /\ FilesOf(disk) \ {p} \subseteq FilesOf(files)
  BY <1>1, <1>2, <1>6, NilIsNoRow DEF FilesOf, Housed
<1> HIDE DEF files, folders
<1>11. PassFits(K, issued, files, rec)
  <2> DEFINE a == Learnt(Taken(p), p, Nil)
             b == Learnt(a, to, Record(k.node, disk[p], pass.ids[k.node].text))
  <2>1. PassFits(K, issued, disk, a) /\ a.queue = pass.queue \ {p}
    <3>1. PassFits(K, issued, disk, a)
      BY <1>3, Learning
    <3> QED BY <3>1, <1>3 DEF Learnt, PassFits, PassFields
  <2> HIDE DEF a
  <2>2. PassFits(K, issued, disk, b) /\ b.queue = pass.queue \ {p}
    <3>1. PassFits(K, issued, disk, b)
      BY <2>1, <1>7, Learning
    <3> QED BY <3>1, <2>1 DEF Learnt, PassFits, PassFields
  <2>3. rec = [b EXCEPT !.handled = b.handled \cup {to}]
    BY DEF a
  <2> HIDE DEF b, rec
  <2>4. b.queue \subseteq FilesOf(files)
    BY <2>2, <1>10, <1>1 DEF PassFits
  <2>5. PassFits(K, issued, files, b)
    BY <2>2, <2>4, OtherFiles
  <2> QED BY <2>3, <2>5 DEF PassFits, PassFields
<1> HIDE DEF rec
<1>12. CASE k.hash = disk[p]
  BY <1>2, <1>8, <1>9, <1>11, <1>12, Later
<1>13. CASE k.hash # disk[p]
  <2>1. Grown(K, issued, nodes') /\ Housed(disk', folders) /\ PassFits(K, issued, disk', pass')
    BY <1>2, <1>5, <1>8, <1>9, <1>10, <1>11, <1>13, Putting
  <2> QED BY <2>1, <1>2, <1>8, Later
<1> QED BY <1>12, <1>13

\* A file that is given an id.
LEMMA NewFile ==
  ASSUME NEW K, FoldersInvOf(K), NEW p \in Foremost, Missing(p) = {},
         NEW scope \in Shares \cup {Nil}, NEW rec, PassFits(K, issued, disk, rec),
         NEW after \in Van(K) \cup {Nil}, Upload(p, scope, rec, after),
         UNCHANGED <<disk, dirs, known, shelf, meant>>
  PROVE  FoldersInv'
<1> DEFINE at == ParentId(pass.tree, p)
           L == K \cup {issued + 1}
           ok == CreateAccepted(at, Last(p), scope)
           r == Record(issued + 1, disk[p], disk[p])
           placed == Placed(rec, issued + 1, p, disk[p], scope)
           learnt == [Learnt(placed, p, r) EXCEPT !.half = after]
<1>1. /\ pass # Nil /\ PassFits(K, issued, disk, pass)
      /\ p \in FilePaths /\ disk[p] \in Texts /\ Last(p) \in Names
  BY DueAre
<1>2. /\ Ids(K, issued) /\ Grown(K, issued, nodes) /\ Housed(disk, dirs)
      /\ OnRecord(K, known) /\ Pictured(K, issued, pass.tree)
  BY <1>1 DEF FoldersInvOf, PassFits
<1>3. PassFits(K, issued, disk, Disturbed(rec))
  BY Disturbance
<1>4. at \in {Top} \cup (Nodes \ K)
  BY <1>1, <1>2, NoneMissing, ParentsAre
<1>5. CASE /\ ok /\ issued < MaxNodes
           /\ nodes' = CreatedNode(at, Last(p), disk[p]) /\ InBounds(nodes')
           /\ issued' = issued + 1
           /\ Answered(learnt, Disturbed(rec))
  <2>1. Ids(L, issued') /\ issued + 1 \in Nodes /\ issued + 1 \in 1..issued + 1 /\ issued + 1 \in L
    <3>1. issued \in Nat /\ issued + 1 \in Nodes /\ Ids(L, issued + 1)
      BY <1>2, <1>5, IdsAre
    <3>2. issued + 1 \in 1..issued + 1
      BY <3>1
    <3> QED BY <3>1, <3>2, <1>5
  <2>2. Grown(L, issued', nodes')
    <3>1. disk[p] # Nil
      BY <1>1, NilIsNoRow
    <3> QED BY <3>1, <1>1, <1>2, <1>4, <1>5, Creating
  <2>3. /\ OnRecord(L, known') /\ PassFits(L, issued + 1, disk, rec)
        /\ PassFits(L, issued + 1, disk, Disturbed(rec))
    <3>1. L = K \cup {issued + 1} /\ known' = known
      OBVIOUS
    <3> HIDE DEF L
    <3>2. OnRecord(L, known)
      BY <1>2, <3>1, RecordIssued
    <3>3. PassFits(L, issued + 1, disk, rec)
      BY <1>2, <3>1, PassIssued
    <3>4. PassFits(L, issued + 1, disk, Disturbed(rec))
      BY <1>2, <1>3, <3>1, PassIssued
    <3> QED BY <3>1, <3>2, <3>3, <3>4
  <2>4. PassFits(L, issued + 1, disk, placed)
    BY <2>1, <2>3, <1>1, PlacingRow
  <2>5. r \in Rec(L)
    BY <2>1, <1>1 DEF Record, Rec
  <2> HIDE DEF placed, r
  <2>6. PassFits(L, issued + 1, disk, Learnt(placed, p, r))
    BY <2>4, <2>5, Learning
  <2>7. after \in Van(L) \cup {Nil}
    BY DEF Van
  <2> HIDE DEF L
  <2>8. PassFits(L, issued + 1, disk, learnt)
    BY <2>6, <2>7 DEF PassFits, PassFields
  <2>9. PassFits(L, issued', disk', pass')
    BY <2>3, <2>8, <1>5 DEF Answered
  <2> QED BY <2>1, <2>2, <2>3, <2>9, <1>2, Later
<1>6. CASE Failed(~ok) /\ pass' = Disturbed(rec) /\ UNCHANGED <<nodes, issued>>
  BY <1>2, <1>3, <1>6, Later
<1>7. \/ /\ ok /\ issued < MaxNodes
         /\ nodes' = CreatedNode(at, Last(p), disk[p]) /\ InBounds(nodes')
         /\ issued' = issued + 1
         /\ Answered(learnt, Disturbed(rec))
      \/ Failed(~ok) /\ pass' = Disturbed(rec) /\ UNCHANGED <<nodes, issued>>
  BY DEF Upload, Fresh
<1> QED BY <1>5, <1>6, <1>7

LEMMA NewStep ==
  ASSUME NEW K, FoldersInvOf(K), NEW p \in Foremost, PushNew(p)
  PROVE  FoldersInv'
<1> DEFINE scope == IF p \in pass.early THEN Nil ELSE ScopeAt(pass.tree, p)
<1>1. PassFits(K, issued, disk, Taken(p)) /\ Pictured(K, issued, pass.tree)
  BY DueAre, Taking DEF PassFits
<1>2. scope \in Shares \cup {Nil}
  BY <1>1, ScopesAre
<1>3. /\ Missing(p) = {} /\ Upload(p, scope, Taken(p), Nil)
      /\ UNCHANGED <<disk, dirs, known, shelf, meant>>
  BY DEF PushNew
<1> HIDE DEF scope
<1> QED BY <1>1, <1>2, <1>3, NewFile

LEMMA SourcesAre ==
  ASSUME NEW K, NEW top, NEW files, PassFits(K, top, files, pass), NEW p, NEW v \in SourcesOf(p)
  PROVE  v \in Van(K) /\ pass.ids[v.node] # Nil
BY DEF SourcesOf, PassFits

LEMMA CrossStep ==
  ASSUME NEW K, FoldersInvOf(K), NEW p \in Foremost, NEW v \in SourcesOf(p), CrossFile(p, v)
  PROVE  FoldersInv'
<1>1. /\ PassFits(K, issued, disk, Consumed(p)) /\ Pictured(K, issued, pass.tree)
      /\ PassFits(K, issued, disk, pass)
  BY DueAre, Taking DEF PassFits
<1>2. ScopeAt(pass.tree, p) \in Shares \cup {Nil}
  BY <1>1, ScopesAre
<1>3. v \in Van(K)
  BY <1>1, SourcesAre
<1>4. /\ Missing(p) = {} /\ Upload(p, ScopeAt(pass.tree, p), Consumed(p), v)
      /\ UNCHANGED <<disk, dirs, known, shelf, meant>>
  BY DEF CrossFile
<1> QED BY <1>1, <1>2, <1>3, <1>4, NewFile

LEMMA MakeStep ==
  ASSUME NEW K, FoldersInvOf(K), NEW p \in Foremost, NEW d \in Folders, MakeFolder(p, d)
  PROVE  FoldersInv'
<1> DEFINE at == ParentId(pass.tree, d)
           scope == ScopeAt(pass.tree, d)
           ok == CreateAccepted(at, Last(d), scope)
           placed == Placed(pass, issued + 1, d, Nil, scope)
           made == [placed EXCEPT !.early = IF Decide(p) = "push-new" THEN @ \cup {p} ELSE @]
           failed == Disturbed(Consumed(p))
<1>1. /\ pass # Nil /\ PassFits(K, issued, disk, pass) /\ p \in FilePaths
  BY DueAre
<1>2. /\ Ids(K, issued) /\ Grown(K, issued, nodes) /\ Housed(disk, dirs)
      /\ OnRecord(K, known) /\ Pictured(K, issued, pass.tree)
  BY <1>1 DEF FoldersInvOf, PassFits
<1>3. PassFits(K, issued, disk, failed)
  BY <1>1, Taking, Disturbance
<1>4. d \in Missing(p) /\ \A e \in Missing(p) : Len(d) <= Len(e)
  BY DEF MakeFolder
<1>5. Last(d) \in Names /\ (Parent(d) = <<>> \/ At(pass.tree, Parent(d)) # {})
  BY <1>1, <1>4, FirstMissing
<1>6. at \in {Top} \cup (Nodes \ K)
  BY <1>2, <1>5, ParentsAre
<1>7. scope \in Shares \cup {Nil}
  BY <1>2, ScopesAre
<1>8. /\ \/ /\ ok /\ issued < MaxNodes
            /\ nodes' = CreatedNode(at, Last(d), Nil) /\ InBounds(nodes')
            /\ issued' = issued + 1
            /\ Answered(made, failed)
         \/ Failed(~ok) /\ pass' = failed /\ UNCHANGED <<nodes, issued>>
      /\ UNCHANGED <<disk, dirs, known, shelf, meant>>
  BY DEF MakeFolder, Fresh
<1> HIDE DEF at, scope, failed
<1>9. CASE /\ ok /\ issued < MaxNodes
           /\ nodes' = CreatedNode(at, Last(d), Nil) /\ InBounds(nodes')
           /\ issued' = issued + 1
           /\ Answered(made, failed)
  <2>1. /\ Ids(K, issued') /\ issued + 1 \in Nodes /\ issued + 1 \in 1..issued + 1
        /\ issued + 1 \notin K
    <3>1. /\ issued \in Nat /\ issued + 1 \in Nodes /\ Ids(K, issued + 1)
          /\ issued + 1 \notin K
      BY <1>2, <1>9, IdsAre
    <3>2. issued + 1 \in 1..issued + 1
      BY <3>1
    <3> QED BY <3>1, <3>2, <1>9
  <2>2. Grown(K, issued', nodes')
    BY <1>2, <1>5, <1>6, <1>9, Creating
  <2>3. /\ OnRecord(K, known') /\ PassFits(K, issued + 1, disk, pass)
        /\ PassFits(K, issued + 1, disk, failed)
    <3>1. OnRecord(K, known')
      BY <1>2, <1>8
    <3>2. PassFits(K, issued + 1, disk, pass)
      BY <1>1, <1>2, PassIssued
    <3>3. PassFits(K, issued + 1, disk, failed)
      BY <1>2, <1>3, PassIssued
    <3> QED BY <3>1, <3>2, <3>3
  <2>4. PassFits(K, issued + 1, disk, placed)
    BY <2>1, <2>3, <1>7, PlacingRow
  <2> HIDE DEF placed
  <2>5. PassFits(K, issued + 1, disk, made)
    BY <2>4 DEF PassFits, PassFields
  <2>6. PassFits(K, issued', disk', pass')
    BY <2>3, <2>5, <1>8, <1>9 DEF Answered
  <2> QED BY <2>1, <2>2, <2>3, <2>6, <1>2, <1>8, Later
<1>10. CASE Failed(~ok) /\ pass' = failed /\ UNCHANGED <<nodes, issued>>
  BY <1>2, <1>3, <1>8, <1>10, Later
<1> QED BY <1>8, <1>9, <1>10

LEMMA MoveFileStep ==
  ASSUME NEW K, FoldersInvOf(K), NEW p \in Foremost, NEW v \in SourcesOf(p), PushMove(p, v)
  PROVE  FoldersInv'
<1> DEFINE at == ParentId(pass.tree, p)
           scope == ScopeAt(pass.tree, p)
           rec == Consumed(p)
           ok == MoveAccepted(v.node, at, Last(p)) /\ Unchanged(v.node)
           unmoved == [Disturbed(rec) EXCEPT !.handled = @ \cup {v.path}]
           learnt == Learnt(Learnt(rec, v.path, Nil), p, Record(v.node, disk[p], v.text))
           placed == Placed(learnt, v.node, p, v.text, scope)
           moved == [placed EXCEPT !.ids[v.node] = [pass.ids[v.node] EXCEPT !.path = p]]
<1>1. /\ pass # Nil /\ PassFits(K, issued, disk, pass)
      /\ p \in FilePaths /\ disk[p] \in Texts /\ Last(p) \in Names
  BY DueAre
<1>2. /\ Ids(K, issued) /\ Grown(K, issued, nodes) /\ Housed(disk, dirs)
      /\ OnRecord(K, known) /\ Pictured(K, issued, pass.tree)
      /\ Pictured(K, issued, pass.ids) /\ AreRows(pass.ids)
  BY <1>1 DEF FoldersInvOf, PassFits
<1>3. v \in Van(K) /\ pass.ids[v.node] # Nil
  BY <1>1, SourcesAre
<1>4. /\ v.node \in K /\ v.text \in Texts /\ v.path \in FilePaths
      /\ v.node \in Nodes /\ v.node \in 1..issued
  <2>1. v.node \in K /\ v.text \in Texts /\ v.path \in FilePaths
    BY <1>3 DEF Van
  <2> QED BY <2>1, <1>2, IdsAre DEF Ids
<1>5. at \in {Top} \cup (Nodes \ K) /\ scope \in Shares \cup {Nil}
  <2>1. Missing(p) = {}
    BY DEF PushMove
  <2> QED BY <2>1, <1>1, <1>2, NoneMissing, ParentsAre, ScopesAre
<1>6. PassFits(K, issued, disk, rec)
  BY <1>1, Taking
<1>7. /\ \/ /\ ok /\ nodes' = MovedNode(v.node, at, Last(p)) /\ InBounds(nodes')
            /\ Answered(moved, unmoved)
         \/ Failed(~ok) /\ pass' = unmoved /\ UNCHANGED nodes
      /\ UNCHANGED <<issued, disk, dirs, known, shelf, meant>>
  BY DEF PushMove
<1> HIDE DEF at, scope, rec
<1>8. PassFits(K, issued, disk, unmoved)
  <2>1. PassFits(K, issued, disk, Disturbed(rec))
    BY <1>6, Disturbance
  <2> QED BY <2>1 DEF PassFits, PassFields
<1>9. PassFits(K, issued, disk, moved)
  <2>1. Record(v.node, disk[p], v.text) \in Rec(K)
    BY <1>1, <1>4 DEF Record, Rec
  <2>2. PassFits(K, issued, disk, learnt)
    BY <2>1, <1>6, Learning
  <2> HIDE DEF learnt
  <2>3. PassFits(K, issued, disk, placed)
    BY <2>2, <1>1, <1>4, <1>5, PlacingRow
  <2> HIDE DEF placed
  <2> DEFINE row == [pass.ids[v.node] EXCEPT !.path = p]
             ids == [placed.ids EXCEPT ![v.node] = row]
  <2>4. pass.ids[v.node] \in Row /\ pass.ids[v.node].text \in Texts
    <3>1. v.node \in Held(pass.ids)
      BY <1>3, <1>4 DEF Held
    <3> QED BY <3>1, <1>2, <1>4, RowParts, PicturedPaths
  <2>5. row \in Row /\ row \in RowsAt(Paths) /\ row.path = p /\ row.text \in Texts
    BY <2>4, <1>1, PathsAre DEF Row, RowsAt
  <2> HIDE DEF row
  <2>6. Pictured(K, issued, ids) /\ AreRows(ids)
    <3>1. Pictured(K, issued, placed.ids) /\ AreRows(placed.ids)
      BY <2>3 DEF PassFits
    <3>2. Pictured(K, issued, ids)
      BY <3>1, <2>5, <1>1, <1>4, Placing
    <3>3. AreRows(ids)
      BY <3>1, <2>5 DEF AreRows
    <3> QED BY <3>2, <3>3
  <2>7. moved = [placed EXCEPT !.ids = ids]
    BY <2>3 DEF PassFits, PassFields, row
  <2> HIDE DEF ids, moved
  <2>8. /\ DOMAIN moved = DOMAIN placed /\ moved.ids = ids
        /\ moved.tree = placed.tree /\ moved.known = placed.known /\ moved.plan = placed.plan
        /\ moved.vanished = placed.vanished /\ moved.queue = placed.queue
        /\ moved.half = placed.half
    BY <2>3, <2>7 DEF PassFits, PassFields
  <2> QED BY <2>3, <2>6, <2>8 DEF PassFits
<1> HIDE DEF moved, unmoved
<1>10. PassFits(K, issued, disk, pass')
  BY <1>7, <1>8, <1>9 DEF Answered
<1>11. Grown(K, issued, nodes')
  <2>1. CASE /\ ok /\ nodes' = MovedNode(v.node, at, Last(p)) /\ InBounds(nodes')
    BY <2>1, <1>1, <1>2, <1>4, <1>5, Moving
  <2>2. CASE UNCHANGED nodes
    BY <2>2, <1>2
  <2> QED BY <2>1, <2>2, <1>7
<1> QED BY <1>2, <1>7, <1>10, <1>11, Later

\* What a pass does with a folder that moved.
LEMMA FolderMoveSteps ==
  ASSUME NEW K, FoldersInvOf(K), pass # Nil, NEW m \in pass.plan,
         CrossFolder(m) \/ MoveFolder(m) \/ \E n \in Nodes : ReplaceLeftover(m, n)
  PROVE  FoldersInv'
<1>1. /\ Ids(K, issued) /\ Grown(K, issued, nodes) /\ Housed(disk, dirs)
      /\ OnRecord(K, known) /\ PassFits(K, issued, disk, pass)
      /\ Pictured(K, issued, pass.tree)
      /\ m.from \in Folders /\ m.to \in Folders /\ m.node \in Nodes
  BY DEF FoldersInvOf, PassFits
<1>2. PassFits(K, issued, disk, HeldBack(m)) /\ PassFits(K, issued, disk, Carried(m))
  BY <1>1, Holding, Carrying
<1>3. CASE CrossFolder(m)
  <2> DEFINE rec == [pass EXCEPT !.plan = @ \ {m}, !.crossed = @ \cup {m.from}]
  <2>1. PassFits(K, issued, disk, rec)
    BY <1>1 DEF PassFits, PassFields
  <2>2. /\ pass' = IF pass.tree[m.node].root THEN HeldBack(m) ELSE rec
        /\ UNCHANGED <<nodes, issued, disk, dirs, known, shelf, meant, done>>
    BY <1>3 DEF CrossFolder
  <2> HIDE DEF rec
  <2> QED BY <2>1, <2>2, <1>1, <1>2, Later
<1>4. CASE MoveFolder(m)
  <2> DEFINE at == ParentId(pass.tree, m.to)
             ok == MoveAccepted(m.node, at, Last(m.to)) /\ Unchanged(m.node)
  <2>1. /\ \/ /\ ok /\ nodes' = MovedNode(m.node, at, Last(m.to)) /\ InBounds(nodes')
              /\ Answered(Carried(m), HeldBack(m))
           \/ Failed(~ok) /\ pass' = HeldBack(m) /\ UNCHANGED nodes
        /\ UNCHANGED <<issued, disk, dirs, known, shelf, meant>>
        /\ Parented(pass.tree, m.to)
    BY <1>4 DEF MoveFolder, Ready
  <2>2. at \in {Top} \cup (Nodes \ K)
    <3>1. Parent(m.to) = <<>> \/ At(pass.tree, Parent(m.to)) # {}
      BY <2>1 DEF Parented, FolderAt
    <3> QED BY <3>1, <1>1, ParentsAre
  <2>3. Last(m.to) \in Names
    BY <1>1 DEF Names
  <2> HIDE DEF at
  <2>4. Grown(K, issued, nodes')
    BY <2>1, <2>2, <2>3, <1>1, Moving
  <2>5. PassFits(K, issued, disk, pass')
    BY <2>1, <1>2 DEF Answered
  <2> QED BY <2>1, <2>4, <2>5, <1>1, Later
<1>5. ASSUME NEW n \in Nodes, ReplaceLeftover(m, n) PROVE FoldersInv'
  <2> DEFINE rec == [pass EXCEPT !.tree[n] = Nil, !.ids[n] = Nil]
  <2>1. PassFits(K, issued, disk, rec)
    BY <1>1, Dropping
  <2> HIDE DEF rec
  <2>2. /\ \/ /\ DeleteAccepted(n) /\ nodes' = [nodes EXCEPT ![n] = Nil]
              /\ Answered(rec, HeldBack(m))
           \/ pass' = HeldBack(m) /\ UNCHANGED nodes
        /\ UNCHANGED <<issued, disk, dirs, known, shelf, meant>>
    BY <1>5 DEF ReplaceLeftover, rec
  <2>3. Grown(K, issued, nodes')
    BY <2>2, <1>1, Deleting
  <2>4. PassFits(K, issued, disk, pass')
    BY <2>1, <2>2, <1>2 DEF Answered
  <2> QED BY <2>2, <2>3, <2>4, <1>1, Later
<1> QED BY <1>3, <1>4, <1>5

\* After the files: what vanished, and what nothing is left in.
LEMMA DeletingFile ==
  ASSUME NEW K, Grown(K, issued, nodes), K \subseteq Nodes, NEW v \in Van(K),
         NEW rec, PassFits(K, issued, disk, rec), PushDelete(v, rec)
  PROVE  Grown(K, issued, nodes') /\ PassFits(K, issued, disk, pass')
<1>1. v.node \in Nodes
  BY DEF Van
<1>2. CASE pass.ids[v.node] = Nil
  <2>1. pass' = [rec EXCEPT !.known[v.path] = Nil] /\ nodes' = nodes
    BY <1>2 DEF PushDelete
  <2>2. pass' = Learnt(rec, v.path, Nil)
    BY <2>1 DEF Learnt
  <2> QED BY <2>1, <2>2, Learning
<1>3. CASE pass.ids[v.node] # Nil
  <2>1. \/ /\ DeleteAccepted(v.node) /\ nodes' = [nodes EXCEPT ![v.node] = Nil]
           /\ Answered(Deleted(rec, v), Disturbed(rec))
        \/ pass' = Disturbed(rec) /\ UNCHANGED nodes
    BY <1>3 DEF PushDelete
  <2>2. Grown(K, issued, nodes')
    BY <2>1, <1>1, Deleting
  <2>3. PassFits(K, issued, disk, pass')
    BY <2>1, DeletingVanished, Disturbance DEF Answered
  <2> QED BY <2>2, <2>3
<1> QED BY <1>2, <1>3

LEMMA DeleteSteps ==
  ASSUME NEW K, FoldersInvOf(K), pass # Nil,
         \/ DropSource
         \/ \E v \in pass.vanished : DeleteVanished(v)
         \/ \E d \in Folders : RemoveFolder(d)
  PROVE  FoldersInv'
<1>1. /\ Ids(K, issued) /\ Grown(K, issued, nodes) /\ Housed(disk, dirs)
      /\ OnRecord(K, known) /\ PassFits(K, issued, disk, pass) /\ K \subseteq Nodes
  BY IdsAre DEF FoldersInvOf
<1>2. CASE DropSource
  <2> DEFINE rec == [pass EXCEPT !.half = Nil]
  <2>1. PassFits(K, issued, disk, rec)
    BY <1>1 DEF PassFits, PassFields
  <2>2. /\ pass.half \in Van(K) /\ PushDelete(pass.half, rec)
        /\ UNCHANGED <<issued, disk, dirs, known, shelf, meant>>
    BY <1>1, <1>2 DEF DropSource, PassFits
  <2> HIDE DEF rec
  <2> QED BY <2>1, <2>2, <1>1, DeletingFile, Later
<1>3. ASSUME NEW v \in pass.vanished, DeleteVanished(v) PROVE FoldersInv'
  <2> DEFINE rec == [pass EXCEPT !.vanished = @ \ {v}, !.handled = @ \cup {v.path}]
  <2>1. PassFits(K, issued, disk, rec) /\ v \in Van(K)
    BY <1>1 DEF PassFits, PassFields
  <2>2. /\ \/ pass' = Learnt(rec, v.path, Nil) /\ UNCHANGED <<nodes, done>>
           \/ PushDelete(v, rec)
        /\ UNCHANGED <<issued, disk, dirs, known, shelf, meant>>
    BY <1>3 DEF DeleteVanished, Learnt
  <2> HIDE DEF rec
  <2>3. PassFits(K, issued, disk, Learnt(rec, v.path, Nil))
    BY <2>1, Learning
  <2> QED BY <2>1, <2>2, <2>3, <1>1, DeletingFile, Later
<1>4. ASSUME NEW d \in Folders, RemoveFolder(d) PROVE FoldersInv'
  <2>1. PICK n \in FolderAt(pass.tree, d) :
          LET ok  == DeleteAccepted(n) /\ Unchanged(n)
              rec == [pass EXCEPT !.crossed = @ \ {d},
                                  !.tried = IF CrossedDue # {} THEN @ ELSE @ \cup {d}]
          IN  \/ /\ ok /\ nodes' = [nodes EXCEPT ![n] = Nil]
                 /\ Answered([rec EXCEPT !.tree[n] = Nil, !.ids[n] = Nil], Disturbed(rec))
              \/ Failed(~ok) /\ pass' = Disturbed(rec) /\ UNCHANGED nodes
    BY <1>4 DEF RemoveFolder
  <2> DEFINE rec == [pass EXCEPT !.crossed = @ \ {d},
                                 !.tried = IF CrossedDue # {} THEN @ ELSE @ \cup {d}]
             less == [rec EXCEPT !.tree[n] = Nil, !.ids[n] = Nil]
  <2>2. /\ \/ /\ DeleteAccepted(n) /\ nodes' = [nodes EXCEPT ![n] = Nil]
              /\ Answered(less, Disturbed(rec))
           \/ pass' = Disturbed(rec) /\ UNCHANGED nodes
        /\ UNCHANGED <<issued, disk, dirs, known, shelf, meant>>
    BY <2>1, <1>4 DEF RemoveFolder
  <2>3. n \in Nodes
    BY DEF FolderAt, At, Held
  <2>4. PassFits(K, issued, disk, rec)
    BY <1>1 DEF PassFits, PassFields
  <2> HIDE DEF rec
  <2>5. PassFits(K, issued, disk, less) /\ PassFits(K, issued, disk, Disturbed(rec))
    BY <2>4, Dropping, Disturbance
  <2> HIDE DEF less
  <2>6. Grown(K, issued, nodes')
    BY <2>2, <2>3, <1>1, Deleting
  <2>7. PassFits(K, issued, disk, pass')
    BY <2>2, <2>5 DEF Answered
  <2> QED BY <2>2, <2>6, <2>7, <1>1, Later
<1> QED BY <1>2, <1>3, <1>4

LEMMA FinishStep ==
  ASSUME NEW K, FoldersInvOf(K), FinishPass
  PROVE  FoldersInv'
<1>1. pass # Nil
  BY DEF FinishPass, FilesDone
<1>2. /\ Ids(K, issued) /\ Grown(K, issued, nodes) /\ Housed(disk, dirs)
      /\ OnRecord(K, known) /\ PassFits(K, issued, disk, pass)
      /\ Pictured(K, issued, pass.tree) /\ OnRecord(K, pass.known)
  BY <1>1 DEF FoldersInvOf, PassFits
<1>3. ASSUME NEW n \in ServerOnly
      PROVE  n \in K /\ pass.tree[n].text \in Texts /\ pass.tree[n].path \in Paths
  BY <1>2, PicturedPaths DEF ServerOnly
<1> DEFINE files == [p \in FilePaths |->
                       IF PulledAt(p) = {} THEN disk[p]
                       ELSE pass.tree[CHOOSE n \in PulledAt(p) : TRUE].text]
           recs == [p \in FilePaths |->
                      IF PulledAt(p) = {} THEN pass.known[p]
                      ELSE LET n == CHOOSE n \in PulledAt(p) : TRUE
                           IN  Record(n, pass.tree[n].text, pass.tree[n].text)]
           folders == dirs \cup UNION {Above(pass.tree[n].path) : n \in ServerOnly}
<1>4. /\ disk' = files /\ known' = recs /\ dirs' = folders /\ pass' = Nil
      /\ UNCHANGED <<nodes, issued>>
  BY DEF FinishPass
<1>5. ASSUME NEW p \in FilePaths, PulledAt(p) # {}
      PROVE  LET n == CHOOSE n \in PulledAt(p) : TRUE
             IN  n \in ServerOnly /\ pass.tree[n].path = p
  BY <1>5 DEF PulledAt
<1>6. files \in [FilePaths -> Texts \cup {Nil}]
  <2>1. ASSUME NEW p \in FilePaths
        PROVE  (IF PulledAt(p) = {} THEN disk[p]
                ELSE pass.tree[CHOOSE n \in PulledAt(p) : TRUE].text) \in Texts \cup {Nil}
    BY <1>2, <1>3, <1>5 DEF Housed
  <2> QED BY <2>1
<1>7. OnRecord(K, recs)
  <2>1. ASSUME NEW p \in FilePaths
        PROVE  (IF PulledAt(p) = {} THEN pass.known[p]
                ELSE LET n == CHOOSE n \in PulledAt(p) : TRUE
                     IN  Record(n, pass.tree[n].text, pass.tree[n].text)) \in Rec(K) \cup {Nil}
    BY <1>2, <1>3, <1>5 DEF OnRecord, Record, Rec
  <2> QED BY <2>1 DEF OnRecord
<1>8. Housed(files, folders)
  <2>1. folders \subseteq Folders
    BY <1>2 DEF Housed, Above
  <2>2. ASSUME NEW d \in folders PROVE Above(d) \subseteq folders
    <3>1. CASE d \in dirs
      BY <3>1, <1>2 DEF Housed
    <3>2. CASE d \notin dirs
      <4>1. PICK n \in ServerOnly : d \in Above(pass.tree[n].path)
        BY <3>2
      <4>2. Above(d) \subseteq Above(pass.tree[n].path)
        BY <4>1, <1>3, AboveChain
      <4> QED BY <4>2
    <3> QED BY <3>1, <3>2
  <2>3. ASSUME NEW p \in FilesOf(files) PROVE Above(p) \subseteq folders
    <3>1. p \in FilePaths /\ files[p] # Nil
      BY DEF FilesOf
    <3>2. CASE PulledAt(p) = {}
      <4>1. p \in FilesOf(disk)
        BY <3>1, <3>2 DEF FilesOf
      <4> QED BY <4>1, <1>2 DEF Housed
    <3>3. CASE PulledAt(p) # {}
      BY <3>1, <3>3, <1>5
    <3> QED BY <3>2, <3>3
  <2> HIDE DEF files, folders
  <2> QED BY <2>1, <2>2, <2>3, <1>6 DEF Housed
<1> HIDE DEF files, folders, recs
<1> QED BY <1>2, <1>4, <1>7, <1>8, Later

LEMMA StartStep ==
  ASSUME NEW K, FoldersInvOf(K), StartPass
  PROVE  FoldersInv'
<1>1. /\ Ids(K, issued) /\ Grown(K, issued, nodes) /\ Housed(disk, dirs) /\ OnRecord(K, known)
  BY DEF FoldersInvOf
<1>2. PICK chosen \in Plans(nodes, Vanished) :
        LET plan     == FolderMoves(nodes, Vanished, chosen)
            held     == HeldRoots(nodes, known, Vanished, plan)
            gone     == UNION {Gone(Vanished, nodes[s].path) : s \in held}
            apart    == UNION {CouldBe(known, nodes[s].path,
                                       Gone(Vanished, nodes[s].path)) : s \in held}
            restored == UNION {RestoredFrom(nodes, known, Vanished \ gone, plan, s)
                                 : s \in Roots(nodes)}
        IN  pass' =
              [ tree     |-> nodes,
                ids      |-> nodes,
                known    |-> [p \in FilePaths |->
                                IF p \in {v.path : v \in restored} THEN Nil ELSE known[p]],
                plan     |-> plan,
                vanished |-> Vanished \ (gone \cup restored),
                queue    |-> Here \ apart,
                handled  |-> Here \cup {v.path : v \in gone},
                crossed  |-> {},
                early    |-> {},
                half     |-> Nil,
                tried    |-> {},
                touched  |-> {},
                held     |-> held,
                quiet    |-> TRUE ]
  BY DEF StartPass
<1> DEFINE plan     == FolderMoves(nodes, Vanished, chosen)
           held     == HeldRoots(nodes, known, Vanished, plan)
           gone     == UNION {Gone(Vanished, nodes[s].path) : s \in held}
           restored == UNION {RestoredFrom(nodes, known, Vanished \ gone, plan, s)
                                : s \in Roots(nodes)}
           recs == [p \in FilePaths |->
                      IF p \in {v.path : v \in restored} THEN Nil ELSE known[p]]
<1>3. /\ DOMAIN pass' = PassFields
      /\ pass'.tree = nodes /\ pass'.ids = nodes /\ pass'.known = recs /\ pass'.plan = plan
      /\ pass'.vanished \subseteq Vanished /\ pass'.queue \subseteq Here /\ pass'.half = Nil
  BY <1>2 DEF PassFields
<1>4. OnRecord(K, recs)
  BY <1>1 DEF OnRecord
<1>5. Vanished \subseteq Van(K)
  <2>1. ASSUME NEW p \in FilePaths, known[p] # Nil
        PROVE  known[p].node \in K /\ known[p].hash \in Texts /\ known[p].text \in Texts
    BY <1>1, <2>1 DEF OnRecord, Rec
  <2> QED BY <2>1 DEF Vanished, Van
<1>6. Pictured(K, issued, nodes) /\ AreRows(nodes)
  BY <1>1, RowsAreNamed DEF Grown, Pictured
<1>7. \A m \in plan : m.from \in Folders /\ m.to \in Folders /\ m.node \in Nodes
  <2>1. TAKE m \in plan
  <2>2. PICK d \in chosen \ dirs :
          m = [from |-> d, to |-> To(nodes, Vanished, d),
               node |-> CHOOSE n \in FolderAt(nodes, d) : TRUE,
               gone |-> {v.hash : v \in Gone(Vanished, d)}]
    BY DEF FolderMoves
  <2>3. d \in Folders /\ MayMove(nodes, Vanished, d)
    BY <2>2 DEF Plans
  <2>4. FolderAt(nodes, d) # {} /\ FolderAt(nodes, d) \subseteq Nodes
    BY <2>3 DEF MayMove, FolderAt, At, Held
  <2>5. MovesOf(nodes, Vanished, d) # {} /\ MovesOf(nodes, Vanished, d) \subseteq Folders
    BY <2>3 DEF MayMove, MovesOf, DestinationOf, FitsUnder
  <2>6. To(nodes, Vanished, d) \in Folders
    BY <2>5 DEF To
  <2>7. (CHOOSE n \in FolderAt(nodes, d) : TRUE) \in Nodes
    BY <2>4
  <2> QED BY <2>2, <2>3, <2>6, <2>7
<1> HIDE DEF recs, plan
<1>8. Here = FilesOf(disk)
  BY DEF Here, FilesOf
<1>9. PassFits(K, issued, disk, pass')
  BY <1>3, <1>4, <1>5, <1>6, <1>7, <1>8 DEF PassFits
<1>10. UNCHANGED <<nodes, issued, disk, dirs, known>>
  BY DEF StartPass
<1> QED BY <1>1, <1>9, <1>10, Later

\* Writes of others.
LEMMA OtherSteps ==
  ASSUME NEW K, FoldersInvOf(K),
         \/ \E n \in Nodes :
               \/ OtherDelete(n) \/ \E t \in Texts : OtherEdit(n, t)
               \/ \E at \in Nodes \cup {Top}, x \in Names : OtherMove(n, at, x)
         \/ \E at \in Nodes \cup {Top}, x \in Names, t \in Texts \cup {Nil} : OtherCreate(at, x, t)
  PROVE  FoldersInv'
<1>1. /\ Ids(K, issued) /\ Grown(K, issued, nodes) /\ Housed(disk, dirs) /\ OnRecord(K, known)
      /\ pass # Nil => PassFits(K, issued, disk, pass)
  BY DEF FoldersInvOf
<1>2. ASSUME NEW ns, Disturbing(ns)
      PROVE  /\ pass' # Nil => pass # Nil /\ PassFits(K, issued, disk, pass')
             /\ disk' = disk /\ dirs' = dirs /\ known' = known
  <2>1. CASE pass = Nil
    BY <2>1, <1>2 DEF Disturbing
  <2>2. CASE pass # Nil
    <3>1. pass' = [pass EXCEPT !.touched = @ \cup ns, !.quiet = FALSE]
      BY <2>2, <1>2 DEF Disturbing
    <3>2. PassFits(K, issued, disk, pass)
      BY <2>2, <1>1
    <3>3. PassFits(K, issued, disk, pass')
      BY <3>1, <3>2 DEF PassFits, PassFields
    <3> QED BY <3>3, <2>2, <1>2 DEF Disturbing
  <2> QED BY <2>1, <2>2
<1>3. ASSUME NEW at \in StandingFolders PROVE at \in {Top} \cup (Nodes \ K)
  <2>1. CASE at = Top
    BY <2>1
  <2>2. CASE at # Top
    <3>1. at \in Held(nodes) /\ ~IsFile(nodes, at)
      BY <2>2 DEF StandingFolders
    <3>2. at \in Nodes /\ at \notin K
      BY <3>1, <1>1 DEF Grown, Kinds, Held
    <3> QED BY <3>2
  <2> QED BY <2>1, <2>2
<1>4. ASSUME NEW n \in Nodes, OtherDelete(n) PROVE FoldersInv'
  <2>1. /\ Disturbing({n}) /\ DeleteAccepted(n) /\ nodes' = [nodes EXCEPT ![n] = Nil]
        /\ issued' = issued
    BY <1>4 DEF OtherDelete
  <2> QED BY <2>1, <1>1, <1>2, Deleting, Later
<1>5. ASSUME NEW n \in Nodes, NEW t \in Texts, OtherEdit(n, t) PROVE FoldersInv'
  <2>1. /\ Disturbing({n}) /\ nodes[n] # Nil /\ IsFile(nodes, n)
        /\ nodes' = [nodes EXCEPT ![n].text = t] /\ issued' = issued
    BY <1>5 DEF OtherEdit
  <2> QED BY <2>1, <1>1, <1>2, Editing, Later
<1>6. ASSUME NEW n \in Nodes, NEW at \in Nodes \cup {Top}, NEW x \in Names, OtherMove(n, at, x)
      PROVE  FoldersInv'
  <2>1. /\ Disturbing({n}) /\ at \in StandingFolders /\ MoveAccepted(n, at, x)
        /\ nodes' = MovedNode(n, at, x) /\ InBounds(nodes') /\ issued' = issued
    BY <1>6 DEF OtherMove
  <2>2. Grown(K, issued, nodes')
    BY <2>1, <1>1, <1>3, Moving
  <2> QED BY <2>1, <2>2, <1>1, <1>2, Later
<1>7. ASSUME NEW at \in Nodes \cup {Top}, NEW x \in Names, NEW t \in Texts \cup {Nil},
             OtherCreate(at, x, t)
      PROVE  FoldersInv'
  <2> DEFINE L == IF t = Nil THEN K ELSE K \cup {issued + 1}
  <2>1. /\ Disturbing({}) /\ at \in StandingFolders /\ issued < MaxNodes
        /\ CreateAccepted(at, x, ShareIn(at))
        /\ nodes' = CreatedNode(at, x, t) /\ InBounds(nodes') /\ issued' = issued + 1
    BY <1>7 DEF OtherCreate
  <2>2. Grown(L, issued + 1, nodes')
    BY <2>1, <1>1, <1>3, Creating
  <2>3. Ids(L, issued + 1)
    BY <2>1, <1>1, IdsAre
  <2>4. L \in {K, K \cup {issued + 1}}
    OBVIOUS
  <2> HIDE DEF L
  <2>5. L = K \/ L = K \cup {issued + 1}
    BY <2>4
  <2>6. Ids(L, issued') /\ Grown(L, issued', nodes')
    BY <2>1, <2>2, <2>3
  <2>7. disk' = disk /\ dirs' = dirs /\ known' = known
    BY <2>1, <1>2
  <2>8. Housed(disk', dirs') /\ OnRecord(L, known')
    <3>1. Housed(disk', dirs')
      BY <2>7, <1>1
    <3>2. OnRecord(L, known)
      BY <2>5, <1>1, RecordIssued
    <3> QED BY <3>1, <3>2, <2>7
  <2>9. pass' # Nil => PassFits(L, issued', disk', pass')
    <3>1. pass' # Nil => PassFits(K, issued, disk, pass')
      BY <2>1, <1>2
    <3>2. pass' # Nil => PassFits(L, issued + 1, disk, pass')
      BY <3>1, <2>5, <1>1, PassIssued
    <3> QED BY <3>2, <2>1, <2>7
  <2> QED BY <2>6, <2>8, <2>9, Later
<1> QED BY <1>4, <1>5, <1>6, <1>7

\* What the person does.
LEMMA PersonSteps ==
  ASSUME NEW K, FoldersInvOf(K),
         \/ \E d \in Folders : DeleteFolder(d) \/ CreateFolder(d)
         \/ \E d, e \in Folders : RenameFolder(d, e)
         \/ \E p \in FilePaths : DeleteFile(p) \/ \E t \in Texts : Write(p, t)
         \/ \E p, q \in FilePaths : MoveFile(p, q)
  PROVE  FoldersInv'
<1>1. /\ Ids(K, issued) /\ Grown(K, issued, nodes) /\ Housed(disk, dirs) /\ OnRecord(K, known)
  BY DEF FoldersInvOf
<1>2. ASSUME Acting, Housed(disk', dirs') PROVE FoldersInv'
  <2>1. UNCHANGED <<nodes, issued, known>> /\ pass' = Nil
    BY <1>2 DEF Acting
  <2> QED BY <2>1, <1>1, <1>2, Later
<1>3. /\ disk \in [FilePaths -> Texts \cup {Nil}] /\ dirs \subseteq Folders
      /\ \A d \in dirs : Above(d) \subseteq dirs
      /\ \A p \in FilesOf(disk) : Above(p) \subseteq dirs
  BY <1>1 DEF Housed
<1>4. ASSUME NEW p \in FilePaths \cup Folders, Standing(Parent(p)) PROVE Above(p) \subseteq dirs
  BY <1>3, <1>4, PathsAre, StandingHouses DEF Standing
<1>5. ASSUME NEW d \in Folders, DeleteFolder(d) PROVE FoldersInv'
  <2>1. /\ Acting
        /\ disk' = [p \in FilePaths |-> IF Under(d, p) THEN Nil ELSE disk[p]]
        /\ dirs' = {x \in dirs : x # d /\ ~Under(d, x)}
    BY <1>5 DEF DeleteFolder
  <2>2. ASSUME NEW x \in Paths, ~Within(d, x), Above(x) \subseteq dirs
        PROVE  Above(x) \subseteq dirs'
    <3>1. ASSUME NEW y \in Above(x) PROVE ~Within(d, y)
      <4>1. y \in Seq(Names) /\ x \in Seq(Names) /\ d \in Seq(Names) /\ Within(y, x)
        BY <3>1, PathsAre DEF Above, Paths, Within
      <4> QED BY <4>1, <2>2, WithinChain
    <3> QED BY <3>1, <2>1, <2>2 DEF Within
  <2>3. ASSUME NEW x \in dirs' PROVE Above(x) \subseteq dirs'
    <3>1. x \in dirs /\ ~Within(d, x)
      BY <2>1 DEF Within
    <3> QED BY <3>1, <2>2, <1>3, PathsAre
  <2>4. ASSUME NEW x \in FilesOf(disk') PROVE Above(x) \subseteq dirs'
    <3>1. x \in FilePaths /\ ~Under(d, x) /\ x \in FilesOf(disk)
      BY <2>1 DEF FilesOf
    <3>2. ~Within(d, x)
      BY <3>1, FilesAreNotFolders DEF Within
    <3> QED BY <3>1, <3>2, <2>2, <1>3, PathsAre
  <2>5. disk' \in [FilePaths -> Texts \cup {Nil}] /\ dirs' \subseteq Folders
    BY <2>1, <1>3
  <2>6. Housed(disk', dirs')
    BY <2>3, <2>4, <2>5 DEF Housed
  <2> QED BY <2>1, <2>6, <1>2
<1>6. ASSUME NEW d \in Folders, CreateFolder(d) PROVE FoldersInv'
  <2>1. /\ Acting /\ Standing(Parent(d)) /\ dirs' = dirs \cup {d} /\ disk' = disk
    BY <1>6 DEF CreateFolder
  <2>2. Above(d) \subseteq dirs
    BY <2>1, <1>4
  <2>3. Housed(disk', dirs')
    BY <2>1, <2>2, <1>1 DEF Housed
  <2> QED BY <2>1, <2>3, <1>2
<1>7. ASSUME NEW d \in Folders, NEW e \in Folders, RenameFolder(d, e) PROVE FoldersInv'
  <2>1. /\ Acting /\ d \in dirs /\ e \notin dirs /\ Standing(Parent(e)) /\ d # e /\ ~Under(d, e)
        /\ \A x \in dirs : Rehung(x, d, e) \in Folders
        /\ disk' = [p \in FilePaths |->
                      IF Under(e, p) /\ d \o Rel(e, p) \in FilePaths THEN disk[d \o Rel(e, p)]
                      ELSE IF Under(d, p) THEN Nil ELSE disk[p]]
        /\ dirs' = {Rehung(x, d, e) : x \in dirs}
    BY <1>7 DEF RenameFolder
  <2>2. Housed(disk', dirs')
    BY <2>1, <1>1, Renaming
  <2> QED BY <2>1, <2>2, <1>2
<1>8. ASSUME NEW p \in FilePaths, DeleteFile(p) PROVE FoldersInv'
  <2>1. Acting /\ disk' = [disk EXCEPT ![p] = Nil] /\ dirs' = dirs
    BY <1>8 DEF DeleteFile
  <2>2. Housed(disk', dirs')
    BY <2>1, <1>1, Removing
  <2> QED BY <2>1, <2>2, <1>2
<1>9. ASSUME NEW p \in FilePaths, NEW t \in Texts, Write(p, t) PROVE FoldersInv'
  <2>1. Acting /\ Standing(Parent(p)) /\ disk' = [disk EXCEPT ![p] = t] /\ dirs' = dirs
    BY <1>9 DEF Write
  <2>2. Above(p) \subseteq dirs
    BY <2>1, <1>4
  <2>3. Housed(disk', dirs')
    BY <2>1, <2>2, <1>1, Writing
  <2> QED BY <2>1, <2>3, <1>2
<1>10. ASSUME NEW p \in FilePaths, NEW q \in FilePaths, MoveFile(p, q) PROVE FoldersInv'
  <2>1. /\ Acting /\ disk[p] # Nil /\ Standing(Parent(q)) /\ dirs' = dirs
        /\ disk' = [[disk EXCEPT ![q] = disk[p]] EXCEPT ![p] = Nil]
    BY <1>10 DEF MoveFile
  <2>2. Above(q) \subseteq dirs /\ disk[p] \in Texts
    BY <2>1, <1>3, <1>4
  <2>3. Housed([disk EXCEPT ![q] = disk[p]], dirs)
    BY <2>2, <1>1, Writing
  <2>4. Housed(disk', dirs')
    BY <2>1, <2>3, Removing
  <2> QED BY <2>1, <2>4, <1>2
<1> QED BY <1>5, <1>6, <1>7, <1>8, <1>9, <1>10

LEMMA FoldersStart ==
  FoldersInit => FoldersInv
<1>1. SUFFICES ASSUME FoldersInit PROVE FoldersInv
  OBVIOUS
<1> DEFINE K == {n \in Held(nodes) : IsFile(nodes, n)}
<1>2. /\ nodes = StartTree /\ issued = Len(Start) /\ pass = Nil
      /\ disk = [p \in FilePaths |->
                   IF At(nodes, p) = {} THEN Nil
                   ELSE nodes[CHOOSE n \in At(nodes, p) : TRUE].text]
      /\ dirs = {d \in Folders : At(nodes, d) # {}}
      /\ known = [p \in FilePaths |->
                    IF At(nodes, p) = {} THEN Nil
                    ELSE LET n == CHOOSE n \in At(nodes, p) : TRUE
                         IN  [node |-> n, hash |-> nodes[n].text, text |-> nodes[n].text]]
  BY <1>1 DEF FoldersInit
<1>3. /\ issued \in 0..MaxNodes /\ DOMAIN Start = 1..issued
      /\ \A n \in 1..issued : Start[n] \in Row
  <2>1. Len(Start) \in Nat /\ MaxNodes \in Nat /\ Len(Start) <= MaxNodes
    BY StartIsOfRows, LenProperties, FolderBoundsAreNaturals
  <2>2. DOMAIN Start = 1..Len(Start) /\ \A n \in 1..Len(Start) : Start[n] \in Row
    BY StartIsOfRows, LenProperties, ElementOfSeq
  <2> QED BY <2>1, <2>2, <1>2
<1>4. AreRows(nodes) /\ IsTree(nodes) /\ \A n \in Held(nodes) : n \in 1..issued
  <2>1. \A n \in Nodes : nodes[n] = IF n \in 1..issued THEN Start[n] ELSE Nil
    BY <1>2, <1>3 DEF StartTree
  <2>2. AreRows(nodes)
    BY <2>1, <1>2, <1>3 DEF AreRows, StartTree
  <2>3. IsTree(nodes)
    BY <1>2, StartIsATree
  <2> QED BY <2>1, <2>2, <2>3 DEF Held
<1>5. Ids(K, issued) /\ Grown(K, issued, nodes)
  BY <1>3, <1>4 DEF Ids, Grown, Kinds
<1>6. Pictured(K, issued, nodes)
  BY <1>4, <1>5, RowsAreNamed DEF Grown, Pictured
<1> HIDE DEF K
<1>7. ASSUME NEW p \in FilePaths, At(nodes, p) # {}
      PROVE  LET n == CHOOSE n \in At(nodes, p) : TRUE
             IN  /\ n \in K /\ nodes[n].text \in Texts
                 /\ \A d \in Above(p) : At(nodes, d) # {}
  <2> DEFINE n == CHOOSE n \in At(nodes, p) : TRUE
  <2>1. n \in Held(nodes) /\ nodes[n].path = p
    BY <1>7 DEF At
  <2> HIDE DEF n
  <2>2. n \in K /\ nodes[n].text \in Texts
    BY <2>1, <1>6, PicturedPaths
  <2>3. \A d \in Above(p) : At(nodes, d) # {}
    BY <2>1, <1>4 DEF IsTree, FolderAt
  <2> QED BY <2>2, <2>3 DEF n
<1>8. OnRecord(K, known)
  <2>1. ASSUME NEW p \in FilePaths
        PROVE  (IF At(nodes, p) = {} THEN Nil
                ELSE LET n == CHOOSE n \in At(nodes, p) : TRUE
                     IN  [node |-> n, hash |-> nodes[n].text, text |-> nodes[n].text])
                 \in Rec(K) \cup {Nil}
    BY <1>7 DEF Rec
  <2> QED BY <2>1, <1>2 DEF OnRecord
<1>9. Housed(disk, dirs)
  <2>1. disk \in [FilePaths -> Texts \cup {Nil}]
    <3>1. ASSUME NEW p \in FilePaths
          PROVE  (IF At(nodes, p) = {} THEN Nil
                  ELSE nodes[CHOOSE n \in At(nodes, p) : TRUE].text) \in Texts \cup {Nil}
      BY <1>7
    <3> QED BY <3>1, <1>2
  <2>2. ASSUME NEW d \in dirs PROVE Above(d) \subseteq dirs
    <3>1. PICK n \in Held(nodes) : nodes[n].path = d
      BY <1>2 DEF At
    <3>2. \A e \in Above(d) : At(nodes, e) # {}
      BY <3>1, <1>4 DEF IsTree, FolderAt
    <3> QED BY <3>2, <1>2 DEF Above
  <2>3. ASSUME NEW p \in FilesOf(disk) PROVE Above(p) \subseteq dirs
    <3>1. p \in FilePaths /\ At(nodes, p) # {}
      BY <1>2 DEF FilesOf
    <3>2. \A d \in Above(p) : At(nodes, d) # {}
      BY <3>1, <1>7
    <3> QED BY <3>2, <1>2 DEF Above
  <2> QED BY <2>1, <2>2, <2>3, <1>2 DEF Housed
<1>10. FoldersInvOf(K)
  BY <1>2, <1>5, <1>8, <1>9 DEF FoldersInvOf
<1> QED BY <1>10, InvImplies

LEMMA FoldersStep ==
  FoldersInv /\ [FoldersNext]_folderVars => FoldersInv'
<1>1. SUFFICES ASSUME FoldersInv, [FoldersNext]_folderVars PROVE FoldersInv'
  OBVIOUS
<1>2. PICK K \in SUBSET Nodes : FoldersInvOf(K)
  BY <1>1 DEF FoldersInv
<1>3. CASE UNCHANGED folderVars
  <2>1. FoldersInvOf(K)'
    BY <1>2, <1>3 DEF FoldersInvOf, folderVars
  <2> QED BY <2>1 DEF FoldersInv
<1>4. CASE StartPass
  BY <1>2, <1>4, StartStep
<1>5. CASE /\ pass # Nil
           /\ \E m \in pass.plan :
                 CrossFolder(m) \/ MoveFolder(m) \/ \E n \in Nodes : ReplaceLeftover(m, n)
  BY <1>2, <1>5, FolderMoveSteps
<1>6. ASSUME NEW p \in Foremost,
             \/ Pull(p) \/ Adopt(p) \/ Conflict(p) \/ PushEdit(p) \/ FollowRename(p)
             \/ RemoveLocal(p) \/ PushNew(p)
             \/ \E d \in Folders : MakeFolder(p, d)
             \/ \E v \in SourcesOf(p) : PushMove(p, v) \/ CrossFile(p, v)
      PROVE  FoldersInv'
  BY <1>2, <1>6, FileSteps, FollowStep, NewStep, MakeStep, MoveFileStep, CrossStep
<1>7. CASE \/ pass # Nil /\ \E v \in pass.vanished : DeleteVanished(v)
           \/ DropSource
           \/ \E d \in Folders : RemoveFolder(d)
  <2>1. pass # Nil
    BY <1>7 DEF DropSource, RemoveFolder, FilesDone
  <2> QED BY <2>1, <1>2, <1>7, DeleteSteps
<1>8. CASE FinishPass
  BY <1>2, <1>8, FinishStep
<1>9. CASE Crash
  <2>1. UNCHANGED <<nodes, issued, disk, dirs, known>> /\ pass' = Nil
    BY <1>9 DEF Crash
  <2> QED BY <2>1, <1>2, Later DEF FoldersInvOf
<1>10. CASE \/ \E d \in Folders : DeleteFolder(d) \/ CreateFolder(d)
            \/ \E d, e \in Folders : RenameFolder(d, e)
            \/ \E p \in FilePaths : DeleteFile(p) \/ \E t \in Texts : Write(p, t)
            \/ \E p, q \in FilePaths : MoveFile(p, q)
  BY <1>2, <1>10, PersonSteps
<1>11. CASE \/ \E n \in Nodes :
                 \/ OtherDelete(n) \/ \E t \in Texts : OtherEdit(n, t)
                 \/ \E at \in Nodes \cup {Top}, x \in Names : OtherMove(n, at, x)
            \/ \E at \in Nodes \cup {Top}, x \in Names, t \in Texts \cup {Nil} :
                 OtherCreate(at, x, t)
  BY <1>2, <1>11, OtherSteps
<1> QED BY <1>1, <1>3, <1>4, <1>5, <1>6, <1>7, <1>8, <1>9, <1>10, <1>11 DEF FoldersNext

\* At every moment the rows of the vault form one tree of folders with files in them,
\* in which everything that is not the root of a share has the scope of the folder it
\* is in, whatever passes, other devices and members do to it; and every file and
\* folder here is in folders that are here.
THEOREM FoldersTypeCorrect == FoldersSpec => []FoldersTypeOK
<1>1. FoldersInit => FoldersInv
  BY FoldersStart
<1>2. FoldersInv /\ [FoldersNext]_folderVars => FoldersInv'
  BY FoldersStep
<1>3. FoldersInv => FoldersTypeOK
  BY InvImplies DEF FoldersInv
<1> QED BY <1>1, <1>2, <1>3, PTL DEF FoldersSpec

=============================================================================
