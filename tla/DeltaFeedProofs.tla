--------------------------- MODULE DeltaFeedProofs ---------------------------
(***************************************************************************)
(* Proofs about module DeltaFeed, for any number of nodes, readers,        *)
(* revisions, resets, restores and rotations, and pages of any size: a     *)
(* reader past a revision has what the journal tells up to it, and it only *)
(* ever takes for deleted what the server once trashed or reset.  Both    *)
(* need that no copy is served under the epoch in use (Unraised).          *)
(***************************************************************************)
EXTENDS DeltaFeed, FiniteSetTheorems, WellFoundedInduction, TLAPS

-----------------------------------------------------------------------------
(* Numbers.                                                                 *)

\* There is a smallest one.  The sets of what is below each are finite, and
\* these have a least one.
LEMMA SmallestNat ==
    ASSUME NEW S \in SUBSET Nat, S # {}
    PROVE  \E x \in S : \A y \in S : x <= y
<1> DEFINE below(x) == {y \in S : y < x}
           F == {below(x) : x \in S}
<1>1. ASSUME NEW x \in S PROVE IsFiniteSet(below(x))
  BY FS_BoundedSetOfNaturals
<1>2. F \subseteq FiniteSubsetsOf(S) /\ F # {}
  BY <1>1 DEF FiniteSubsetsOf
<1>3. PICK T \in F : \A U \in F : ~(<<U, T>> \in StrictSubsetOrdering(S))
  BY <1>2, FS_StrictSubsetOrderingWellFounded, WFMin
<1>4. PICK x \in S : T = below(x)
  OBVIOUS
<1>5. ASSUME NEW y \in S, y < x PROVE FALSE
  <2>1. x \in Nat /\ y \in Nat
    OBVIOUS
  <2>2. below(y) \subseteq below(x) /\ y \in below(x) /\ y \notin below(y)
    <3>1. \A z \in S : z \in Nat
      OBVIOUS
    <3>2. \A z \in S : z < y => z < x
      BY <1>5, <2>1, <3>1
    <3>3. ~(y < y)
      BY <2>1
    <3> HIDE DEF F
    <3> QED
      BY ONLY <1>5, <3>2, <3>3, y \in S
  <2>3. <<below(y), below(x)>> \in StrictSubsetOrdering(S)
    BY <2>2 DEF StrictSubsetOrdering
  <2> QED
    BY <2>3, <1>3, <1>4
<1> QED
  BY <1>5

\* There is a largest one where they have a bound.
LEMMA LargestNat ==
    ASSUME NEW S \in SUBSET Nat, S # {}, NEW b \in Nat, \A x \in S : x <= b
    PROVE  Max(S) \in S /\ \A y \in S : y <= Max(S)
<1> DEFINE short == {b - x : x \in S}
<1>1. short \in SUBSET Nat /\ short # {}
  <2>1. ASSUME NEW x \in S PROVE b - x \in Nat
    <3>1. x \in Nat /\ x <= b
      OBVIOUS
    <3> QED
      BY <3>1
  <2> QED
    BY <2>1
<1>2. PICK d \in short : \A e \in short : d <= e
  BY <1>1, SmallestNat
<1>3. PICK x \in S : d = b - x
  OBVIOUS
<1>4. \A y \in S : x >= y
  <2> SUFFICES ASSUME NEW y \in S PROVE x >= y
    OBVIOUS
  <2>1. b - x <= b - y /\ x \in Nat /\ y \in Nat
    BY <1>2, <1>3
  <2> QED
    BY <2>1
<1>5. Max(S) \in S /\ \A y \in S : Max(S) >= y
  BY <1>4 DEF Max
<1> QED
  BY <1>5

-----------------------------------------------------------------------------
(* Pages.                                                                   *)

Revised(rows) == /\ IsFiniteSet(rows)
                 /\ \A j \in rows : j.rev \in Nat
                 /\ \A j, k \in rows : j.rev = k.rev => j = k

\* A page is the first of the rows: whatever comes before one of its rows is
\* on it, and it is short only when there are no more.
LEMMA CutProperties ==
    ASSUME NEW rows, Revised(rows), NEW limit \in Nat
    PROVE  /\ Cut(rows, limit) \subseteq rows /\ Revised(Cut(rows, limit))
           /\ \A k \in Cut(rows, limit) : \A j \in rows :
                j.rev <= k.rev => j \in Cut(rows, limit)
           /\ Cardinality(rows) <= limit => Cut(rows, limit) = rows
           /\ Cardinality(Cut(rows, limit)) < limit => Cut(rows, limit) = rows
           /\ Cardinality(Cut(rows, limit)) <= limit
           /\ limit > 0 /\ rows # {} => Cut(rows, limit) # {}
<1> DEFINE before(j) == {k \in rows : k.rev < j.rev}
           C == Cut(rows, limit)
<1>1. ASSUME NEW T \in SUBSET rows
      PROVE  IsFiniteSet(T) /\ Cardinality(T) \in Nat /\ Cardinality(T) <= Cardinality(rows)
  BY FS_Subset, FS_CardinalityType DEF Revised
<1>2. \A j \in rows : j \in C <=> Cardinality(before(j)) < limit
  BY DEF Cut
<1>3. C \subseteq rows /\ Revised(C)
  BY <1>1 DEF Cut, Revised
<1> HIDE DEF C
<1>4. ASSUME NEW k \in C, NEW j \in rows, j.rev <= k.rev
      PROVE  j \in C
  <2>1. before(j) \in SUBSET before(k) /\ IsFiniteSet(before(k))
    BY <1>1, <1>3, <1>4 DEF Revised
  <2>2. Cardinality(before(j)) <= Cardinality(before(k))
    BY <2>1, FS_Subset
  <2> QED
    BY <1>1, <1>2, <1>3, <1>4, <2>2
\* Something of the rest comes first there.
<1>5. ASSUME C # rows
      PROVE  /\ limit <= Cardinality(C)
             /\ limit < Cardinality(rows)
             /\ limit > 0 => C # {}
  <2> DEFINE late == {j.rev : j \in rows \ C}
  <2>1. late \in SUBSET Nat /\ late # {}
    BY <1>3, <1>5 DEF Revised
  <2>2. PICK m \in late : \A e \in late : m <= e
    BY <2>1, SmallestNat
  <2>3. PICK j \in rows \ C : j.rev = m
    OBVIOUS
  <2>4. before(j) \in SUBSET C
    <3> SUFFICES ASSUME NEW k \in before(j), k \notin C PROVE FALSE
      OBVIOUS
    <3>1. m <= k.rev
      BY <2>2
    <3> QED
      BY <2>3, <3>1 DEF Revised
  <2>5. limit <= Cardinality(before(j))
    BY <1>1, <1>2, <2>3
  <2>6. Cardinality(before(j)) <= Cardinality(C) /\ Cardinality(C) \in Nat
    BY <1>1, <1>3, <2>4, FS_Subset
  <2>7. Cardinality(C) < Cardinality(rows)
    <3>1. Cardinality(C) <= Cardinality(rows) /\ Cardinality(rows) # Cardinality(C)
      BY <1>3, <1>5, FS_Subset DEF Revised
    <3> QED
      BY <1>1, <2>6, <3>1
  <2>8. Cardinality(rows) \in Nat /\ Cardinality(before(j)) \in Nat
    BY <1>1
  <2>9. limit > 0 => C # {}
    <3>1. limit > 0 => Cardinality(C) # 0
      BY <2>5, <2>6, <2>8
    <3> QED
      BY <3>1, FS_EmptySet
  <2> QED
    BY <2>5, <2>6, <2>7, <2>8, <2>9
<1>6. Cardinality(C) <= limit
  <2>1. CASE C = {}
    BY <2>1, FS_EmptySet
  <2>2. CASE C # {}
    <3> DEFINE revs == {j.rev : j \in C}
               all == {j.rev : j \in rows}
    <3>1. revs \in SUBSET Nat /\ revs # {}
      BY <1>3, <2>2 DEF Revised
    <3>2. PICK k \in C : \A j \in C : j.rev <= k.rev
      <4>1. PICK j0 \in C : TRUE
        BY <2>2
      <4>2. PICK c \in C : \A d \in C : Cardinality(before(d)) <= Cardinality(before(c))
        <5> DEFINE sizes == {Cardinality(before(d)) : d \in C}
        <5>1. sizes \in SUBSET Nat /\ sizes # {}
          BY <1>1, <1>3, <2>2
        <5>2. \A x \in sizes : x <= limit
          <6>1. ASSUME NEW d \in C PROVE Cardinality(before(d)) <= limit
            <7>1. before(d) \in SUBSET rows /\ d \in rows
              BY <1>3
            <7>2. Cardinality(before(d)) < limit /\ Cardinality(before(d)) \in Nat
              BY <1>1, <1>2, <7>1
            <7> QED
              BY <7>2
          <6> QED
            BY <6>1
        <5>3. Max(sizes) \in sizes /\ \A y \in sizes : y <= Max(sizes)
          BY <5>1, <5>2, LargestNat
        <5> QED
          BY <5>3
      <4>3. ASSUME NEW j \in C, c.rev < j.rev PROVE FALSE
        <5>1. before(c) \cup {c} \in SUBSET before(j) /\ c \notin before(c)
          BY <1>3, <4>3 DEF Revised
        <5>2. Cardinality(before(c) \cup {c}) = Cardinality(before(c)) + 1
          BY <1>1, <5>1, FS_AddElement
        <5>3. Cardinality(before(c) \cup {c}) <= Cardinality(before(j))
          BY <1>1, <5>1, FS_Subset
        <5> QED
          BY <1>1, <4>2, <5>2, <5>3
      <4> QED
        BY <1>3, <4>3 DEF Revised
    <3>3. C \in SUBSET (before(k) \cup {k})
      <4> SUFFICES ASSUME NEW j \in C, j # k PROVE j.rev < k.rev
        BY <1>3
      <4>1. j.rev <= k.rev /\ j.rev # k.rev /\ j.rev \in Nat /\ k.rev \in Nat
        BY <1>3, <3>2 DEF Revised
      <4> QED
        BY <4>1
    <3>4. /\ IsFiniteSet(before(k) \cup {k})
          /\ Cardinality(before(k) \cup {k}) <= Cardinality(before(k)) + 1
      <4>1. IsFiniteSet(before(k)) /\ Cardinality(before(k)) \in Nat
        BY <1>1
      <4>2. /\ IsFiniteSet(before(k) \cup {k})
            /\ Cardinality(before(k) \cup {k}) =
                 IF k \in before(k) THEN Cardinality(before(k)) ELSE Cardinality(before(k)) + 1
        BY <4>1, FS_AddElement
      <4> HIDE DEF before
      <4> QED
        BY <4>1, <4>2
    <3>5. Cardinality(C) <= Cardinality(before(k) \cup {k})
      BY <3>3, <3>4, FS_Subset
    <3>6. Cardinality(before(k)) < limit
      BY <1>2, <1>3
    <3>7. Cardinality(before(k)) \in Nat /\ Cardinality(C) \in Nat
      BY <1>1, <1>3
    <3>8. Cardinality(before(k) \cup {k}) \in Nat
      BY <3>4, FS_CardinalityType
    <3> QED
      BY <3>4, <3>5, <3>6, <3>7, <3>8
  <2> QED
    BY <2>1, <2>2
<1>7. Cardinality(rows) \in Nat /\ Cardinality(C) \in Nat
  BY <1>1, <1>3
<1>8. limit > 0 /\ rows # {} => C # {}
  BY <1>5
<1> QED
  BY <1>3, <1>4, <1>5, <1>6, <1>7, <1>8 DEF C

\* The rows a page is cut from: of each node that is still there, its last
\* entry within the bounds.
Changes(after, upTo) ==
    {j \in journal : /\ after < j.rev /\ j.rev <= upTo /\ j.node \in Present
                     /\ \A l \in journal : after < l.rev /\ l.rev <= upTo /\ l.node = j.node
                                              => l.rev <= j.rev}

PageOf(after, upTo) == Cut(ReadChanges(after, upTo, Limit + 1), Limit)
More(after, upTo) == Cardinality(ReadChanges(after, upTo, Limit + 1)) > Limit

\* A page leaves out what comes after its last row and nothing else, and where
\* there is more, that row is before the bound.
LEMMA PageProperties ==
    ASSUME Revised(journal), NEW after \in Nat, NEW upTo \in Nat
    PROVE  /\ PageOf(after, upTo) \subseteq Changes(after, upTo)
           /\ ~More(after, upTo) => PageOf(after, upTo) = Changes(after, upTo)
           /\ More(after, upTo) =>
                LET pos == Max({j.rev : j \in PageOf(after, upTo)}) IN
                /\ pos \in Nat /\ after < pos /\ pos < upTo
                /\ \A j \in Changes(after, upTo) : j.rev <= pos => j \in PageOf(after, upTo)
<1> DEFINE S == Changes(after, upTo)
           R == ReadChanges(after, upTo, Limit + 1)
           P == PageOf(after, upTo)
           pos == Max({j.rev : j \in P})
<1>1. Limit \in Nat /\ Limit > 0 /\ Limit + 1 \in Nat
  BY ConstantsAssumption
<1>2. /\ S \subseteq journal /\ Revised(S)
      /\ \A j \in S : j.rev \in Nat /\ after < j.rev /\ j.rev <= upTo
  BY FS_Subset DEF Changes, Revised
<1>3. R = Cut(S, Limit + 1) /\ P = Cut(R, Limit)
  BY DEF ReadChanges, Changes, PageOf
<1>4. More(after, upTo) <=> Cardinality(R) > Limit
  BY DEF More
<1> HIDE DEF S, R, P
<1>5. /\ R \subseteq S /\ Revised(R)
      /\ \A k \in R : \A j \in S : j.rev <= k.rev => j \in R
      /\ Cardinality(R) < Limit + 1 => R = S
  BY <1>1, <1>2, <1>3, CutProperties
<1>6. /\ P \subseteq R /\ Revised(P)
      /\ \A k \in P : \A j \in R : j.rev <= k.rev => j \in P
      /\ Cardinality(R) <= Limit => P = R
      /\ Cardinality(P) <= Limit
      /\ R # {} => P # {}
  BY <1>1, <1>3, <1>5, CutProperties
<1>7. Cardinality(R) \in Nat
  BY <1>5, FS_CardinalityType DEF Revised
<1>8. ASSUME Cardinality(R) > Limit
      PROVE  /\ pos \in Nat /\ after < pos /\ pos < upTo
             /\ \A j \in S : j.rev <= pos => j \in P
  <2>1. P # R
    BY <1>1, <1>6, <1>7, <1>8
  <2>2. PICK x \in R : x \notin P
    BY <1>6, <2>1
  <2>3. P # {}
    BY <1>6, <2>2
  <2> DEFINE revs == {j.rev : j \in P}
  <2>4. revs \in SUBSET Nat /\ revs # {} /\ \A m \in revs : m <= upTo
    BY <1>2, <1>5, <1>6, <2>3 DEF Revised
  <2>5. pos \in revs /\ \A m \in revs : m <= pos
    BY <2>4, LargestNat
  <2> HIDE DEF pos, revs
  <2>6. PICK k \in P : k.rev = pos
    BY <2>5 DEF revs
  <2>7. k.rev < x.rev /\ x.rev <= upTo /\ after < k.rev /\ k.rev \in Nat /\ x.rev \in Nat
    BY <1>2, <1>5, <1>6, <2>2
  <2>8. ASSUME NEW j \in S, j.rev <= pos
        PROVE  j \in P
    BY <1>5, <1>6, <2>6, <2>8
  <2> QED
    BY <2>6, <2>7, <2>8
<1>9. Cardinality(R) <= Limit => P = S
  BY <1>1, <1>5, <1>6, <1>7
<1> QED
  BY <1>1, <1>4, <1>5, <1>6, <1>7, <1>8, <1>9 DEF S, P

-----------------------------------------------------------------------------
(* The invariant.                                                           *)

\* What a journal says of the rows of the same database: nothing ahead of
\* head_rev, one entry a revision, and of each node at most what its row says.
JournalOf(rows, entries, last) ==
    /\ IsFiniteSet(entries)
    /\ \A j, k \in entries : j.rev = k.rev => j = k
    /\ \A j \in entries :
        /\ 0 < j.rev /\ j.rev <= last
        /\ j.op = "del" => j.node \in removed
        /\ j.node \in DOMAIN rows =>
            /\ j.rev <= rows[j.node].rev
            /\ j.rev = rows[j.node].rev => (j.op = "del" <=> rows[j.node].deleted)
    /\ \A n \in DOMAIN rows : rows[n].deleted => n \in removed

JournalHolds ==
    /\ JournalOf(nodes, journal, head)
    /\ backup # None => JournalOf(backup.nodes, backup.journal, backup.head)

\* An epoch was, or is: none comes again.
Past(e) == e.restore < epoch.restore \/ (e.restore = epoch.restore /\ e.reset <= epoch.reset)

EpochsPass ==
    \A r \in Readers :
        /\ cursor[r] # None => Past(cursor[r].epoch)
        /\ request[r].kind \in {"page", "list"} => Past(request[r].epoch)

\* In the history it was given in, a cursor is not ahead of head_rev, and
\* neither is the bound of a request.
PositionsAreReached ==
    \A r \in Readers :
        /\ SameHistory(r) => /\ cursor[r].rev <= head
                             /\ cursor[r].hwm # None => cursor[r].hwm <= head
        /\ request[r].kind = "page" /\ request[r].epoch = epoch =>
                /\ request[r].hwm <= head
                /\ cursor[r] # None => cursor[r].epoch = epoch
        /\ request[r].kind = "list" /\ request[r].epoch = epoch => request[r].rev <= head

FeedInv == TypeOK /\ JournalHolds /\ EpochsPass /\ PositionsAreReached

-----------------------------------------------------------------------------
(* The types.                                                               *)

ServerTyped ==
    /\ Present \subseteq Nodes /\ nodes \in [Present -> Row]
    /\ head \in Nat /\ journal \subseteq Entry /\ epoch \in Epoch /\ secret \in Nat
    /\ removed \subseteq Nodes

BackupTyped ==
    backup # None =>
        /\ DOMAIN backup.nodes \subseteq Nodes
        /\ backup.nodes \in [DOMAIN backup.nodes -> Row]
        /\ backup.head \in Nat /\ backup.journal \subseteq Entry
        /\ backup.restore \in Nat /\ backup.reset \in Nat

ReadersTyped ==
    /\ cursor \in [Readers -> Cursor \cup {None}]
    /\ \A r \in Readers : cursor[r] # None =>
            (cursor[r].hwm # None => cursor[r].rev < cursor[r].hwm)
    /\ mirror \in [Readers -> Mirror]
    /\ request \in [Readers -> Requests]
    /\ taken \subseteq Nodes

LEMMA TypeParts == TypeOK <=> ServerTyped /\ BackupTyped /\ ReadersTyped
BY DEF TypeOK, ServerTyped, BackupTyped, ReadersTyped

LEMMA MirrorType ==
    ASSUME NEW m
    PROVE  m \in Mirror <=> DOMAIN m \subseteq Nodes /\ m \in [DOMAIN m -> Contents]
<1>1. ASSUME m \in Mirror
      PROVE  DOMAIN m \subseteq Nodes /\ m \in [DOMAIN m -> Contents]
  <2>1. PICK known \in SUBSET Nodes : m \in [known -> Contents]
    BY <1>1 DEF Mirror
  <2> QED
    BY <2>1
<1>2. ASSUME DOMAIN m \subseteq Nodes, m \in [DOMAIN m -> Contents]
      PROVE  m \in Mirror
  BY <1>2 DEF Mirror
<1> QED
  BY <1>1, <1>2

\* What a request of each kind carries.
LEMMA RequestType ==
    ASSUME ReadersTyped, NEW r \in Readers
    PROVE  /\ request[r].kind \in {"page", "probe"} =>
                request[r].epoch \in Epoch /\ request[r].hwm \in Nat
           /\ request[r].kind \in {"walk", "list"} => request[r].reading \in {"apply", "keep"}
           /\ request[r].kind = "list" => request[r].epoch \in Epoch /\ request[r].rev \in Nat
BY DEF ReadersTyped, Requests, Idle

\* What a reader presents.
LEMMA PresentedType ==
    ASSUME ServerTyped, ReadersTyped, NEW r \in Readers
    PROVE  /\ Presented(r) \in Cursor /\ Presented(r).rev \in Nat
           /\ Presented(r).hwm \in Nat \cup {None}
           /\ Bound(Presented(r)) \in Nat
<1>1. FreshCursor \in Cursor
  BY DEF FreshCursor, Cursor, ServerTyped
<1>2. Presented(r) \in Cursor
  BY <1>1 DEF Presented, ReadersTyped
<1> QED
  BY <1>2 DEF Cursor, Bound, ServerTyped

LEMMA ServerTypeStep ==
    ASSUME TypeOK, Server
    PROVE  ServerTyped' /\ BackupTyped'
<1>0. ServerTyped /\ BackupTyped
  BY TypeParts
<1> USE DEF ServerTyped, BackupTyped
<1>1. ASSUME NEW n \in Nodes, NEW sha \in Contents, Put(n, sha)
      PROVE  ServerTyped' /\ BackupTyped'
  <2>1. [rev |-> head + 1, sha |-> sha, deleted |-> FALSE] \in Row
    BY <1>0 DEF Row
  <2>2. [rev |-> head + 1, node |-> n, op |-> "put"] \in Entry
    BY <1>0 DEF Entry
  <2>3. Present' = Present \cup {n} /\ nodes' \in [Present' -> Row]
    BY <1>0, <1>1, <2>1 DEF Put, Present
  <2>4. head' \in Nat /\ journal' \subseteq Entry
    BY <1>0, <1>1, <2>2 DEF Put, Journalled
  <2>5. Present' \subseteq Nodes /\ UNCHANGED <<epoch, secret, removed, backup>>
    BY <1>0, <1>1, <2>3 DEF Put
  <2> QED
    BY <1>0, <2>3, <2>4, <2>5
<1>2. ASSUME NEW n \in Nodes, Trash(n)
      PROVE  ServerTyped' /\ BackupTyped'
  <2>1. n \in Present /\ nodes[n] \in Row /\ head + 1 \in Nat
    BY <1>0, <1>2 DEF Trash, Live
  <2> DEFINE row == nodes[n]
             rev == head + 1
  <2>2. [row EXCEPT !.deleted = TRUE, !.rev = rev] \in Row
    <3>1. row \in Row /\ rev \in Nat
      BY <2>1
    <3> HIDE DEF row, rev
    <3> QED
      BY ONLY <3>1 DEF Row
  <2>3. Present' = Present /\ nodes' \in [Present -> Row]
    BY <1>0, <1>2, <2>1, <2>2 DEF Trash, Present
  <2>4. [rev |-> head + 1, node |-> n, op |-> "del"] \in Entry
    BY <1>0 DEF Entry
  <2> QED
    BY <1>0, <1>2, <2>3, <2>4 DEF Trash, Journalled
<1>3. ASSUME NEW n \in Nodes, Purge(n)
      PROVE  ServerTyped' /\ BackupTyped'
  BY <1>0, <1>3 DEF Purge, Present
<1>4. CASE Reset
  <2>1. Present' = {} /\ nodes' \in [{} -> Row]
    BY <1>4 DEF Reset, Present
  <2> QED
    BY <1>0, <1>4, <2>1 DEF Reset, Epoch
<1>5. ASSUME NEW upTo \in 1..MaxRev, Prune(upTo)
      PROVE  ServerTyped' /\ BackupTyped'
  BY <1>0, <1>5 DEF Prune, Present
<1>6. CASE BackUp
  BY <1>0, <1>6 DEF BackUp, Present, Epoch
<1>7. CASE Restore
  <2>1. PICK next \in RestoreEpochs : epoch' = [restore |-> next, reset |-> backup.reset]
    BY <1>7 DEF Restore
  <2>2. backup # None /\ UNCHANGED <<backup, secret, removed>>
        /\ nodes' = backup.nodes /\ head' = backup.head /\ journal' = backup.journal
    BY <1>7 DEF Restore
  <2>3. next \in Nat
    BY <1>0, <2>2 DEF RestoreEpochs, Epoch
  <2> QED
    BY <1>0, <2>1, <2>2, <2>3 DEF Present, Epoch
<1>8. CASE Rotate
  BY <1>0, <1>8 DEF Rotate, Present
<1> QED
  BY <1>1, <1>2, <1>3, <1>4, <1>5, <1>6, <1>7, <1>8 DEF Server

-----------------------------------------------------------------------------
(* What each step of a reader does, in the terms of the invariant.          *)

\* Where a page leaves the reader.
Reached(r) == Position(Page(r), Cardinality(RowsFor(r)) > Limit, request[r].hwm)

\* A page has every change up to where it leaves the reader, which is short of
\* the bound while there is more.
LEMMA PageAnswered ==
    ASSUME ServerTyped, ReadersTyped, JournalHolds,
           NEW r \in Readers, request[r].kind = "page"
    PROVE  /\ Page(r) \subseteq Changes(Presented(r).rev, request[r].hwm)
           /\ Reached(r) \in Nat /\ Reached(r) <= request[r].hwm
           /\ Cardinality(RowsFor(r)) > Limit => Reached(r) < request[r].hwm
           /\ \A j \in Changes(Presented(r).rev, request[r].hwm) :
                j.rev <= Reached(r) => j \in Page(r)
<1> DEFINE after == Presented(r).rev
           upTo == request[r].hwm
<1>1. after \in Nat /\ upTo \in Nat
  BY PresentedType, RequestType
<1>2. Revised(journal)
  BY DEF JournalHolds, JournalOf, Revised, ServerTyped, Entry
<1>3. /\ Page(r) = PageOf(after, upTo)
      /\ Cardinality(RowsFor(r)) > Limit <=> More(after, upTo)
  BY DEF Page, RowsFor, PageOf, More
<1>4. \A j \in Changes(after, upTo) : j.rev \in Nat /\ j.rev <= upTo
  BY <1>2 DEF Changes, Revised
<1> HIDE DEF after, upTo
<1>5. CASE More(after, upTo)
  <2>1. Reached(r) = Max({j.rev : j \in PageOf(after, upTo)})
    BY <1>3, <1>5 DEF Reached, Position
  <2>2. /\ Reached(r) \in Nat /\ Reached(r) < upTo
        /\ \A j \in Changes(after, upTo) : j.rev <= Reached(r) => j \in PageOf(after, upTo)
        /\ PageOf(after, upTo) \subseteq Changes(after, upTo)
    BY <1>1, <1>2, <1>5, <2>1, PageProperties
  <2> QED
    BY <1>1, <1>3, <2>2 DEF after, upTo
<1>6. CASE ~More(after, upTo)
  <2>1. PageOf(after, upTo) = Changes(after, upTo)
    BY <1>1, <1>2, <1>6, PageProperties
  <2>2. Reached(r) = upTo
    BY <1>3, <1>6 DEF Reached, Position, upTo
  <2> QED
    BY <1>1, <1>3, <1>6, <2>1, <2>2 DEF after, upTo
<1> QED
  BY <1>5, <1>6

\* The answer goes on from the history and to the position, and the mirror
\* takes the page.
LEMMA PageTaken ==
    ASSUME ServerTyped, ReadersTyped, JournalHolds, NEW r \in Readers, AnswerPage(r)
    PROVE  LET gone == {j.node : j \in {k \in Page(r) : k.op = "del"}}
               here == {j.node : j \in Page(r)} \ gone
           IN
           /\ cursor' = [cursor EXCEPT ![r] =
                [epoch |-> request[r].epoch, signed |-> secret, rev |-> Reached(r),
                 hwm |-> IF Cardinality(RowsFor(r)) > Limit THEN request[r].hwm ELSE None]]
           /\ mirror' = [mirror EXCEPT ![r] = mirror'[r]]
           /\ mirror'[r] = [n \in (DOMAIN mirror[r] \ gone) \cup here |->
                                IF n \in here THEN nodes[n].sha ELSE mirror[r][n]]
           /\ taken' = taken \cup (gone \cap DOMAIN mirror[r])
           /\ here \subseteq Present /\ gone \subseteq Present \cap removed
           /\ request[r].kind = "page"
           /\ request' = [request EXCEPT ![r] = Idle]
           /\ UNCHANGED server
<1> DEFINE gone == {j.node : j \in {k \in Page(r) : k.op = "del"}}
           here == {j.node : j \in Page(r)} \ gone
<1>1. request[r].kind = "page"
  BY DEF AnswerPage
<1>2. Page(r) \subseteq Changes(Presented(r).rev, request[r].hwm)
  BY <1>1, PageAnswered
<1>3. \A j \in Page(r) : /\ j.node \in Present
                         /\ j.op = "del" => j.node \in removed
  BY <1>2 DEF Changes, JournalHolds, JournalOf
<1>4. here \subseteq Present /\ gone \subseteq Present \cap removed
  BY <1>3
<1>5. mirror'[r] = [n \in (DOMAIN mirror[r] \ gone) \cup here |->
                        IF n \in here THEN nodes[n].sha ELSE mirror[r][n]]
  BY DEF AnswerPage, ReadersTyped
<1> QED
  BY <1>1, <1>4, <1>5 DEF AnswerPage, Reached

\* A reader is answered in the history of its cursor or is sent to walk, and
\* it believes the walk's absences only where the histories are one.
LEMMA AskedOf ==
    ASSUME ServerTyped, ReadersTyped, NEW r \in Readers, NEW kind, Ask(r, kind)
    PROVE  /\ UNCHANGED <<server, cursor, mirror, taken>>
           /\ request[r] = Idle
           /\ \/ /\ request' = [request EXCEPT ![r] =
                        [kind |-> kind, epoch |-> epoch, hwm |-> Bound(Presented(r))]]
                 /\ kind = "probe" => cursor[r] # None
                 /\ cursor[r] # None => cursor[r].epoch = epoch
              \/ \E reading \in {"apply", "keep"} :
                 /\ request' = [request EXCEPT ![r] = [kind |-> "walk", reading |-> reading]]
                 /\ reading = "apply" /\ cursor[r] # None => cursor[r].epoch = epoch
<1> DEFINE c == Presented(r)
           verdict == IF c.signed # secret THEN "unverifiable" ELSE Rejection(c)
<1>1. c.epoch \in Epoch /\ epoch \in Epoch
  BY PresentedType DEF Cursor, ServerTyped
<1>2. cursor[r] # None => c = cursor[r]
  BY DEF Presented
<1>3. verdict \in {"none", "journal_ttl"} => c.epoch = epoch
  <2>1. c.epoch.restore # epoch.restore => Rejection(c) = "restore"
    BY DEF Rejection
  <2>2. c.epoch.restore = epoch.restore /\ c.epoch.reset # epoch.reset => Rejection(c) = "reset"
    BY DEF Rejection
  <2>3. c.epoch.restore = epoch.restore /\ c.epoch.reset = epoch.reset => c.epoch = epoch
    BY <1>1 DEF Epoch
  <2> HIDE DEF c
  <2> QED
    BY <2>1, <2>2, <2>3
<1>4. /\ UNCHANGED <<server, cursor, mirror, taken>>
      /\ request[r] = Idle
      /\ kind = "probe" => cursor[r] # None
      /\ request' = [request EXCEPT ![r] =
                        IF verdict = "none"
                        THEN [kind |-> kind, epoch |-> epoch, hwm |-> Bound(c)]
                        ELSE [kind |-> "walk", reading |-> Reading(verdict)]]
  BY DEF Ask
<1>5. Reading(verdict) \in {"apply", "keep"}
  BY DEF Reading
<1>6. Reading(verdict) = "apply" /\ cursor[r] # None => cursor[r].epoch = epoch
  BY <1>2, <1>3 DEF Reading
<1> HIDE DEF verdict
<1>7. CASE verdict = "none"
  BY <1>2, <1>3, <1>4, <1>7
<1>8. CASE verdict # "none"
  BY <1>4, <1>5, <1>6, <1>8
<1> QED
  BY <1>7, <1>8

-----------------------------------------------------------------------------
(* Every step keeps the invariant, one part at a time.                      *)

\* A restore drops every request but a walk.
LEMMA RestoreDrops ==
    ASSUME ReadersTyped, Restore, NEW r \in Readers
    PROVE  /\ request'[r].kind # "idle" => request'[r] = request[r] /\ request[r].kind = "walk"
           /\ request'[r].kind \in {"walk", "idle"}
  BY DEF Restore, ReadersTyped, Requests, Idle

LEMMA ReadersTypeStep ==
    ASSUME TypeOK, JournalHolds, [Next]_vars
    PROVE  ReadersTyped'
<1>0. ServerTyped /\ ReadersTyped
  BY TypeParts
<1>1. ASSUME UNCHANGED client
      PROVE  ReadersTyped'
  BY <1>0, <1>1 DEF client, ReadersTyped
<1>2. CASE Restore
  <2>1. request' \in [Readers -> Requests]
    BY <1>0, <1>2 DEF Restore, ReadersTyped, Requests
  <2> QED
    BY <1>0, <1>2, <2>1 DEF Restore, ReadersTyped
<1>3. CASE Server /\ ~Restore
  BY <1>1, <1>3 DEF Server, Put, Trash, Purge, Reset, Prune, BackUp, Rotate
<1>4. ASSUME NEW r \in Readers, NEW q \in Requests,
             request' = [request EXCEPT ![r] = q], UNCHANGED <<cursor, mirror, taken>>
      PROVE  ReadersTyped'
  BY <1>0, <1>4 DEF ReadersTyped
<1>5. ASSUME NEW r \in Readers, NEW kind \in Kinds, Ask(r, kind)
      PROVE  ReadersTyped'
  <2>1. kind \in {"page", "probe"}
    BY ConstantsAssumption
  <2>2. [kind |-> kind, epoch |-> epoch, hwm |-> Bound(Presented(r))] \in Requests
    BY <1>0, <2>1, PresentedType DEF Requests, ServerTyped
  <2>3. \A reading \in {"apply", "keep"} : [kind |-> "walk", reading |-> reading] \in Requests
    BY DEF Requests
  <2> QED
    BY <1>0, <1>4, <1>5, <2>2, <2>3, AskedOf
<1>6. ASSUME NEW r \in Readers, FirstWalk(r)
      PROVE  ReadersTyped'
  BY <1>4, <1>6 DEF FirstWalk, Requests
<1>7. ASSUME NEW r \in Readers, AnswerPage(r)
      PROVE  ReadersTyped'
  <2> DEFINE gone == {j.node : j \in {k \in Page(r) : k.op = "del"}}
             here == {j.node : j \in Page(r)} \ gone
             answer == [epoch |-> request[r].epoch, signed |-> secret, rev |-> Reached(r),
                        hwm |-> IF Cardinality(RowsFor(r)) > Limit THEN request[r].hwm ELSE None]
  <2>1. /\ cursor' = [cursor EXCEPT ![r] = answer]
        /\ mirror' = [mirror EXCEPT ![r] = mirror'[r]]
        /\ mirror'[r] = [n \in (DOMAIN mirror[r] \ gone) \cup here |->
                                IF n \in here THEN nodes[n].sha ELSE mirror[r][n]]
        /\ taken' = taken \cup (gone \cap DOMAIN mirror[r])
        /\ here \subseteq Present /\ gone \subseteq Present
        /\ request[r].kind = "page"
        /\ request' = [request EXCEPT ![r] = Idle]
    BY <1>0, <1>7, PageTaken
  <2>2. /\ request[r].epoch \in Epoch /\ request[r].hwm \in Nat /\ secret \in Nat
        /\ Reached(r) \in Nat
        /\ Cardinality(RowsFor(r)) > Limit => Reached(r) < request[r].hwm
    BY <1>0, <2>1, RequestType, PageAnswered DEF ServerTyped
  <2>3. answer \in Cursor /\ (answer.hwm # None => answer.rev < answer.hwm)
    BY <2>2 DEF Cursor
  <2>4. DOMAIN mirror[r] \subseteq Nodes /\ mirror[r] \in [DOMAIN mirror[r] -> Contents]
    BY <1>0, MirrorType DEF ReadersTyped
  <2>5. \A n \in Present : n \in Nodes /\ nodes[n].sha \in Contents
    BY <1>0 DEF ServerTyped, Row
  <2> HIDE DEF gone, here, answer
  <2>6. /\ DOMAIN mirror'[r] = (DOMAIN mirror[r] \ gone) \cup here
        /\ mirror'[r] \in [(DOMAIN mirror[r] \ gone) \cup here -> Contents]
    BY <2>1, <2>4, <2>5
  <2>7. mirror'[r] \in Mirror
    BY <2>1, <2>4, <2>5, <2>6, MirrorType
  <2>8. mirror' \in [Readers -> Mirror]
    BY <1>0, <2>1, <2>7 DEF ReadersTyped
  <2>9. cursor' \in [Readers -> Cursor \cup {None}]
    BY <1>0, <2>1, <2>3 DEF ReadersTyped
  <2>10. \A s \in Readers : cursor'[s] # None =>
            (cursor'[s].hwm # None => cursor'[s].rev < cursor'[s].hwm)
    BY <1>0, <2>1, <2>3 DEF ReadersTyped
  <2>11. request' \in [Readers -> Requests] /\ taken' \subseteq Nodes
    BY <1>0, <2>1, <2>4 DEF ReadersTyped, Requests
  <2> QED
    BY <2>8, <2>9, <2>10, <2>11 DEF ReadersTyped
<1>8. ASSUME NEW r \in Readers, AnswerProbe(r)
      PROVE  ReadersTyped'
  <2>1. {Idle, [kind |-> "walk", reading |-> "apply"]} \subseteq Requests
    BY DEF Requests
  <2> QED
    BY <1>4, <1>8, <2>1 DEF AnswerProbe
<1>9. ASSUME NEW r \in Readers, StartList(r)
      PROVE  ReadersTyped'
  <2>1. [kind |-> "list", reading |-> request[r].reading, epoch |-> epoch, rev |-> head]
            \in Requests
    BY <1>0, <1>9, RequestType DEF StartList, Requests, ServerTyped
  <2>2. request' = [request EXCEPT ![r] =
            [kind |-> "list", reading |-> request[r].reading, epoch |-> epoch, rev |-> head]]
    BY <1>0, <1>9 DEF StartList, ReadersTyped
  <2> QED
    BY <1>4, <1>9, <2>1, <2>2 DEF StartList
<1>10. ASSUME NEW r \in Readers, Listed(r)
       PROVE  ReadersTyped'
  <2>1. Listing \in Mirror
    <3>1. DOMAIN Listing \subseteq Nodes /\ Listing \in [DOMAIN Listing -> Contents]
      BY <1>0 DEF Listing, Live, ServerTyped, Row
    <3> QED
      BY <3>1, MirrorType
  <2>2. [epoch |-> request[r].epoch, rev |-> request[r].rev, hwm |-> None, signed |-> secret]
            \in Cursor
    BY <1>0, <1>10, RequestType DEF Listed, Cursor, ServerTyped
  <2>3. DOMAIN mirror[r] \subseteq Nodes
    BY <1>0, MirrorType DEF ReadersTyped
  <2>4. cursor' \in [Readers -> Cursor \cup {None}] /\ mirror' \in [Readers -> Mirror]
    BY <1>0, <1>10, <2>1, <2>2 DEF Listed, ReadersTyped
  <2>5. \A s \in Readers : cursor'[s] # None =>
            (cursor'[s].hwm # None => cursor'[s].rev < cursor'[s].hwm)
    BY <1>0, <1>10 DEF Listed, ReadersTyped
  <2>6. request' \in [Readers -> Requests] /\ taken' \subseteq Nodes
    BY <1>0, <1>10, <2>3 DEF Listed, ReadersTyped, Requests
  <2> QED
    BY <2>4, <2>5, <2>6 DEF ReadersTyped
<1>11. ASSUME NEW r \in Readers, GiveUp(r)
       PROVE  ReadersTyped'
  BY <1>4, <1>11 DEF GiveUp, Requests
<1>12. CASE UNCHANGED vars
  BY <1>1, <1>12 DEF vars
<1> QED
  BY <1>2, <1>3, <1>5, <1>6, <1>7, <1>8, <1>9, <1>10, <1>11, <1>12 DEF Next, Reader

\* What was taken away once is not forgotten.
LEMMA RemovedOnlyGrows == [Next]_vars => removed \subseteq removed'
BY DEF Next, Server, Reader, Put, Trash, Purge, Reset, Prune, BackUp, Restore, Rotate, Ask,
       FirstWalk, AnswerPage, AnswerProbe, StartList, Listed, GiveUp, server, vars

LEMMA JournalStep ==
    ASSUME TypeOK, JournalHolds, [Next]_vars
    PROVE  JournalHolds'
<1>0. ServerTyped /\ BackupTyped /\ JournalOf(nodes, journal, head) /\ removed \subseteq removed'
  BY TypeParts, RemovedOnlyGrows DEF JournalHolds
<1>1. ASSUME UNCHANGED backup
      PROVE  (backup # None => JournalOf(backup.nodes, backup.journal, backup.head))'
  BY <1>0, <1>1 DEF JournalHolds, JournalOf
<1>2. ASSUME UNCHANGED <<nodes, journal, head, backup>>
      PROVE  JournalHolds'
  BY <1>0, <1>1, <1>2 DEF JournalHolds, JournalOf
\* A revision is given out to a node, whose row says it.
<1>3. ASSUME NEW n \in Nodes, NEW op \in {"put", "del"}, UNCHANGED backup,
             head' = head + 1, journal' = Journalled(n, op),
             \A j \in journal : j.node = n => n \in Present,
             Present' = Present \cup {n},
             \A m \in Present \ {n} : nodes'[m] = nodes[m],
             nodes'[n].rev = head + 1, nodes'[n].deleted <=> op = "del",
             op = "del" => n \in removed'
      PROVE  JournalHolds'
  <2>1. head \in Nat /\ \A j \in journal : j.rev \in Nat /\ j.rev <= head
    BY <1>0 DEF ServerTyped, Entry, JournalOf
  <2> DEFINE new == [rev |-> head + 1, node |-> n, op |-> op]
  <2>2. journal' = journal \cup {new}
    BY <1>3 DEF Journalled
  <2>3. new.rev = head + 1 /\ new.node = n /\ new.op = op
    OBVIOUS
  <2> HIDE DEF new
  <2>4. IsFiniteSet(journal')
    <3>1. IsFiniteSet(journal)
      BY <1>0 DEF JournalOf
    <3>2. IsFiniteSet(journal \cup {new})
      BY <3>1, FS_AddElement
    <3> QED
      BY <2>2, <3>2
  <2>5. \A j, k \in journal' : j.rev = k.rev => j = k
    BY <1>0, <2>1, <2>2, <2>3 DEF JournalOf
  <2>6. ASSUME NEW j \in journal'
        PROVE  /\ 0 < j.rev /\ j.rev <= head'
               /\ j.op = "del" => j.node \in removed'
               /\ j.node \in Present' =>
                    /\ j.rev <= nodes'[j.node].rev
                    /\ j.rev = nodes'[j.node].rev => (j.op = "del" <=> nodes'[j.node].deleted)
    <3>1. CASE j = new
      BY <1>3, <2>1, <2>3, <3>1
    <3>2. CASE j \in journal /\ j.node = n
      BY <1>0, <1>3, <2>1, <3>2 DEF JournalOf
    <3>3. CASE j \in journal /\ j.node # n
      BY <1>0, <1>3, <2>1, <3>3 DEF JournalOf, Present
    <3> QED
      BY <2>2, <3>1, <3>2, <3>3
  <2>7. \A m \in Present' : nodes'[m].deleted => m \in removed'
    BY <1>0, <1>3 DEF JournalOf, Present
  <2>8. JournalOf(nodes, journal, head)'
    BY <2>4, <2>5, <2>6, <2>7 DEF JournalOf, Present
  <2> QED
    BY <1>1, <1>3, <2>8 DEF JournalHolds
<1>4. ASSUME NEW n \in Nodes, NEW sha \in Contents, Put(n, sha)
      PROVE  JournalHolds'
  <2>1. /\ Present' = Present \cup {n}
        /\ nodes'[n].rev = head + 1 /\ nodes'[n].deleted = FALSE
        /\ \A m \in Present \ {n} : nodes'[m] = nodes[m]
    BY <1>4 DEF Put, Present
  <2> QED
    BY <1>3, <1>4, <2>1 DEF Put
<1>5. ASSUME NEW n \in Nodes, Trash(n)
      PROVE  JournalHolds'
  <2>1. n \in Present /\ nodes[n] \in Row
    BY <1>0, <1>5 DEF ServerTyped, Trash, Live
  <2>2. /\ Present' = Present \cup {n}
        /\ \A m \in Present \ {n} : nodes'[m] = nodes[m]
    BY <1>0, <1>5, <2>1 DEF Trash, Present, ServerTyped
  <2>3. nodes'[n].rev = head + 1 /\ nodes'[n].deleted
    BY <1>0, <1>5, <2>1 DEF Trash, Present, ServerTyped, Row
  <2>4. n \in removed'
    BY <1>5 DEF Trash
  <2> QED
    BY <1>3, <1>5, <2>1, <2>2, <2>3, <2>4 DEF Trash
<1>6. ASSUME NEW n \in Nodes, Purge(n)
      PROVE  JournalHolds'
  <2>1. JournalOf(nodes, journal, head)'
    BY <1>0, <1>6 DEF Purge, JournalOf, Present
  <2> QED
    BY <1>1, <1>6, <2>1 DEF Purge, JournalHolds
<1>7. CASE Reset
  <2>1. JournalOf(nodes, journal, head)'
    BY <1>0, <1>7 DEF Reset, JournalOf
  <2> QED
    BY <1>1, <1>7, <2>1 DEF Reset, JournalHolds
<1>8. ASSUME NEW upTo \in 1..MaxRev, Prune(upTo)
      PROVE  JournalHolds'
  <2>1. IsFiniteSet(journal') /\ journal' \subseteq journal
    <3>1. journal' \subseteq journal
      BY <1>8 DEF Prune
    <3> QED
      BY <1>0, <3>1, FS_Subset DEF JournalOf
  <2>2. JournalOf(nodes, journal, head)'
    BY <1>0, <1>8, <2>1 DEF Prune, JournalOf
  <2> QED
    BY <1>1, <1>8, <2>2 DEF Prune, JournalHolds
<1>9. CASE BackUp
  BY <1>0, <1>9 DEF BackUp, JournalHolds, JournalOf
<1>10. CASE Restore
  BY <1>0, <1>10 DEF Restore, JournalHolds, JournalOf
<1>11. CASE Rotate
  BY <1>2, <1>11 DEF Rotate
<1>12. CASE UNCHANGED server
  BY <1>2, <1>12 DEF server
<1>13. (\E r \in Readers : Reader(r) \/ GiveUp(r)) \/ UNCHANGED vars => UNCHANGED server
  BY DEF Reader, Ask, FirstWalk, AnswerPage, AnswerProbe, StartList, Listed, GiveUp, vars
<1> QED
  BY <1>4, <1>5, <1>6, <1>7, <1>8, <1>9, <1>10, <1>11, <1>12, <1>13 DEF Next, Server

\* Without the switch a restored server answers under the next epoch.
LEMMA RestoredEpoch ==
    ASSUME ~Unraised, Restore
    PROVE  epoch' = [restore |-> epoch.restore + 1, reset |-> backup.reset]
BY DEF Restore, RestoreEpochs

\* The server's epoch only ever moves on, and while it stays the revisions do.
LEMMA HistoryMovesOn ==
    ASSUME ~Unraised, TypeOK, [Next]_vars
    PROVE  /\ epoch' \in Epoch
           /\ \/ epoch' = epoch /\ head <= head' /\ head' \in Nat
              \/ epoch'.restore = epoch.restore + 1 /\ epoch.restore < epoch'.restore
              \/ epoch'.restore = epoch.restore /\ epoch'.reset = epoch.reset + 1
<1>1. epoch \in Epoch /\ epoch.restore \in Nat /\ epoch.reset \in Nat /\ head \in Nat
  BY DEF TypeOK, Epoch
<1>2. CASE Restore
  BY <1>1, <1>2, RestoredEpoch DEF Restore, TypeOK, Epoch
<1>3. CASE Reset
  BY <1>1, <1>3 DEF Reset, Epoch
<1>4. ASSUME UNCHANGED epoch, head' \in {head, head + 1}
      PROVE  epoch' \in Epoch /\ epoch' = epoch /\ head <= head' /\ head' \in Nat
  BY <1>1, <1>4
<1>5. [Next]_vars /\ ~Restore /\ ~Reset => UNCHANGED epoch /\ head' \in {head, head + 1}
  BY DEF Next, Server, Reader, Put, Trash, Purge, Prune, BackUp, Rotate, Ask, FirstWalk,
         AnswerPage, AnswerProbe, StartList, Listed, GiveUp, server, vars
<1> QED
  BY <1>2, <1>3, <1>4, <1>5

\* What was past stays past, and what is not of this history never will be.
LEMMA PastStays ==
    ASSUME ~Unraised, TypeOK, [Next]_vars, NEW e \in Epoch, Past(e)
    PROVE  /\ e.restore < epoch'.restore
                \/ (e.restore = epoch'.restore /\ e.reset <= epoch'.reset)
           /\ e = epoch' => epoch' = epoch
<1>1. /\ epoch \in Epoch /\ epoch.restore \in Nat /\ epoch.reset \in Nat
      /\ e.restore \in Nat /\ e.reset \in Nat
      /\ epoch'.restore \in Nat /\ epoch'.reset \in Nat
  BY HistoryMovesOn DEF TypeOK, Epoch
<1>2. e.restore < epoch'.restore \/ (e.restore = epoch'.restore /\ e.reset <= epoch'.reset)
  BY <1>1, HistoryMovesOn DEF Past
<1>3. e = epoch' => epoch' = epoch
  BY <1>1, HistoryMovesOn DEF Past
<1> QED
  BY <1>2, <1>3

\* The server leaves a reader what it has; a request may be lost to a restore,
\* and what is asked of the old database is.
LEMMA ServerLeaves ==
    ASSUME ReadersTyped, Server, NEW r \in Readers
    PROVE  /\ UNCHANGED <<cursor, mirror, taken>>
           /\ request'[r] = request[r] \/ request'[r].kind = "idle"
           /\ Restore => request'[r].kind \in {"walk", "idle"}
<1>1. CASE Restore
  BY <1>1, RestoreDrops DEF Restore
<1>2. CASE ~Restore
  BY <1>2 DEF Server, Put, Trash, Purge, Reset, Prune, BackUp, Rotate, client
<1> QED
  BY <1>1, <1>2

\* A reader's step is its own.
LEMMA OthersStand ==
    ASSUME ReadersTyped, NEW r \in Readers, Reader(r) \/ GiveUp(r), NEW s \in Readers, s # r
    PROVE  /\ UNCHANGED server
           /\ cursor'[s] = cursor[s] /\ mirror'[s] = mirror[s] /\ request'[s] = request[s]
BY DEF ReadersTyped, Reader, Ask, FirstWalk, AnswerPage, AnswerProbe, StartList, Listed, GiveUp

\* What a reader's step that is not the end of a page or a walk makes of its
\* request.
LEMMA RequestStep ==
    ASSUME ServerTyped, ReadersTyped, NEW r \in Readers,
           \/ \E kind \in Kinds : Ask(r, kind)
           \/ FirstWalk(r) \/ AnswerProbe(r) \/ StartList(r) \/ GiveUp(r)
    PROVE  /\ UNCHANGED <<server, cursor, mirror, taken>>
           /\ \/ request'[r].kind = "idle"
              \/ /\ request'[r].kind \in {"page", "probe"}
                 /\ request'[r].epoch = epoch /\ request'[r].hwm = Bound(Presented(r))
                 /\ cursor[r] # None => cursor[r].epoch = epoch
              \/ /\ request'[r].kind = "walk"
                 /\ request'[r].reading = "apply" =>
                        \/ cursor[r] = None \/ cursor[r].epoch = epoch
                        \/ request[r].kind = "probe"
              \/ /\ request[r].kind = "walk" /\ request'[r].kind = "list"
                 /\ request'[r].reading = request[r].reading
                 /\ request'[r].epoch = epoch /\ request'[r].rev = head
<1>0. /\ request \in [Readers -> Requests]
      /\ \A q : request' = [request EXCEPT ![r] = q] => request'[r] = q
  BY DEF ReadersTyped
<1>1. ASSUME NEW kind \in Kinds, Ask(r, kind)
      PROVE  /\ UNCHANGED <<server, cursor, mirror, taken>>
             /\ \/ /\ request'[r].kind \in {"page", "probe"}
                   /\ request'[r].epoch = epoch /\ request'[r].hwm = Bound(Presented(r))
                   /\ cursor[r] # None => cursor[r].epoch = epoch
                \/ /\ request'[r].kind = "walk"
                   /\ request'[r].reading = "apply" => cursor[r] = None \/ cursor[r].epoch = epoch
  <2> DEFINE asked == [kind |-> kind, epoch |-> epoch, hwm |-> Bound(Presented(r))]
             told(reading) == [kind |-> "walk", reading |-> reading]
  <2>1. kind \in {"page", "probe"}
    BY ConstantsAssumption
  <2>2. /\ UNCHANGED <<server, cursor, mirror, taken>>
        /\ \/ /\ request'[r] = asked
              /\ cursor[r] # None => cursor[r].epoch = epoch
           \/ \E reading \in {"apply", "keep"} :
              /\ request'[r] = told(reading)
              /\ reading = "apply" /\ cursor[r] # None => cursor[r].epoch = epoch
    BY <1>0, <1>1, AskedOf
  <2> QED
    BY <2>1, <2>2
<1>2. CASE FirstWalk(r)
  BY <1>0, <1>2 DEF FirstWalk
<1>3. CASE AnswerProbe(r)
  BY <1>0, <1>3 DEF AnswerProbe, Idle
<1>4. CASE StartList(r)
  BY <1>0, <1>4 DEF StartList
<1>5. CASE GiveUp(r)
  BY <1>0, <1>5 DEF GiveUp, Idle
<1> QED
  BY <1>1, <1>2, <1>3, <1>4, <1>5

\* The two ends: the cursor is of the answer's history and at its position.
LEMMA CursorStep ==
    ASSUME ServerTyped, ReadersTyped, JournalHolds, NEW r \in Readers, AnswerPage(r) \/ Listed(r)
    PROVE  /\ UNCHANGED server
           /\ cursor'[r] # None
           /\ cursor'[r].epoch = request[r].epoch
           /\ request'[r].kind = "idle"
           /\ \/ /\ request[r].kind = "page"
                 /\ cursor'[r].rev = Reached(r)
                 /\ cursor'[r].hwm # None => cursor'[r].hwm = request[r].hwm
              \/ /\ request[r].kind = "list"
                 /\ cursor'[r].rev = request[r].rev /\ cursor'[r].hwm = None
<1>1. \A c : c \in Cursor => c # None
  BY NoneIsApart
<1>2. CASE AnswerPage(r)
  <2> DEFINE answer == [epoch |-> request[r].epoch, signed |-> secret, rev |-> Reached(r),
                        hwm |-> IF Cardinality(RowsFor(r)) > Limit THEN request[r].hwm ELSE None]
  <2>1. /\ cursor' = [cursor EXCEPT ![r] = answer] /\ request[r].kind = "page"
        /\ request' = [request EXCEPT ![r] = Idle] /\ UNCHANGED server
    BY <1>2, PageTaken
  <2>2. answer \in Cursor
    BY <2>1, RequestType, PageAnswered DEF Cursor, ServerTyped
  <2>3. cursor'[r] = answer /\ request'[r] = Idle
    BY <2>1 DEF ReadersTyped
  <2> QED
    BY <1>1, <2>1, <2>2, <2>3 DEF Idle
<1>3. CASE Listed(r)
  <2> DEFINE answer == [epoch |-> request[r].epoch, rev |-> request[r].rev, hwm |-> None,
                        signed |-> secret]
  <2>1. answer \in Cursor
    BY <1>3, RequestType DEF Listed, Cursor, ServerTyped
  <2>2. cursor'[r] = answer /\ request'[r] = Idle
    BY <1>3 DEF Listed, ReadersTyped
  <2> QED
    BY <1>1, <1>3, <2>1, <2>2 DEF Listed, Idle
<1> QED
  BY <1>2, <1>3

\* A step is the server's, one reader's at an end or not, or none.
LEMMA Steps ==
    ASSUME [Next]_vars, NEW P,
           Server => P,
           \A r \in Readers : AnswerPage(r) \/ Listed(r) => P,
           \A r \in Readers : (\/ \E kind \in Kinds : Ask(r, kind)
                               \/ FirstWalk(r) \/ AnswerProbe(r) \/ StartList(r) \/ GiveUp(r)) => P,
           UNCHANGED vars => P
    PROVE  P
BY DEF Next, Reader

\* The epochs the readers hold have been.
LEMMA EpochsStep ==
    ASSUME ~Unraised, TypeOK, JournalHolds, EpochsPass, [Next]_vars
    PROVE  EpochsPass'
<1>0. ServerTyped /\ ReadersTyped /\ ReadersTyped'
  BY TypeParts, ReadersTypeStep
<1> SUFFICES ASSUME NEW s \in Readers
             PROVE  /\ (cursor[s] # None => Past(cursor[s].epoch))'
                    /\ (request[s].kind \in {"page", "list"} => Past(request[s].epoch))'
  BY DEF EpochsPass
<1> DEFINE Goal == /\ (cursor[s] # None => Past(cursor[s].epoch))'
                   /\ (request[s].kind \in {"page", "list"} => Past(request[s].epoch))'
<1>1. ASSUME NEW e \in Epoch, Past(e)
      PROVE  \/ e.restore < epoch'.restore
             \/ e.restore = epoch'.restore /\ e.reset <= epoch'.reset
  BY <1>1, PastStays
<1>2. Past(epoch)
  BY <1>0 DEF Past, ServerTyped, Epoch
<1>3. ASSUME cursor'[s] = cursor[s], cursor[s] # None
      PROVE  Past(cursor[s].epoch)'
  <2>1. cursor[s].epoch \in Epoch /\ Past(cursor[s].epoch)
    BY <1>0, <1>3 DEF ReadersTyped, Cursor, EpochsPass
  <2> QED
    BY <1>1, <1>3, <2>1 DEF Past
<1>4. ASSUME request'[s] = request[s], request[s].kind \in {"page", "list"}
      PROVE  Past(request[s].epoch)'
  <2>1. request[s].epoch \in Epoch /\ Past(request[s].epoch)
    BY <1>0, <1>4, RequestType DEF EpochsPass
  <2> QED
    BY <1>1, <1>4, <2>1 DEF Past
<1>5. ASSUME cursor'[s] = cursor[s], request'[s] = request[s] \/ request'[s].kind = "idle"
      PROVE  Goal
  BY <1>3, <1>4, <1>5
<1>6. Server => Goal
  BY <1>0, <1>5, ServerLeaves
<1>7. ASSUME NEW r \in Readers, AnswerPage(r) \/ Listed(r)
      PROVE  Goal
  <2>1. CASE s # r
    BY <1>0, <1>5, <1>7, <2>1, OthersStand DEF Reader
  <2>2. CASE s = r
    <3>1. /\ cursor'[s].epoch = request[s].epoch /\ request'[s].kind = "idle"
          /\ request[s].kind \in {"page", "list"}
      BY <1>0, <1>7, <2>2, CursorStep
    <3>2. request[s].epoch \in Epoch /\ Past(request[s].epoch)
      BY <1>0, <3>1, RequestType DEF EpochsPass
    <3> QED
      BY <1>1, <3>1, <3>2 DEF Past
  <2> QED
    BY <2>1, <2>2
<1>8. ASSUME NEW r \in Readers,
             \/ \E kind \in Kinds : Ask(r, kind)
             \/ FirstWalk(r) \/ AnswerProbe(r) \/ StartList(r) \/ GiveUp(r)
      PROVE  Goal
  <2>1. CASE s # r
    BY <1>0, <1>5, <1>8, <2>1, OthersStand DEF Reader
  <2>2. CASE s = r
    <3>1. /\ cursor' = cursor /\ UNCHANGED epoch
          /\ request'[s].kind \in {"page", "list"} => request'[s].epoch = epoch
      BY <1>0, <1>8, <2>2, RequestStep DEF server
    <3> QED
      BY <1>2, <1>3, <3>1 DEF Past
  <2> QED
    BY <2>1, <2>2
<1>9. UNCHANGED vars => Goal
  BY <1>5 DEF vars, client
<1> HIDE DEF Goal
<1>10. Goal
  BY <1>6, <1>7, <1>8, <1>9, Steps
<1> QED
  BY <1>10 DEF Goal

\* In its history a cursor is never ahead of the revisions given out.
LEMMA PositionsStep ==
    ASSUME ~Unraised, FeedInv, [Next]_vars
    PROVE  PositionsAreReached'
<1>0. ServerTyped /\ ReadersTyped /\ JournalHolds /\ EpochsPass /\ PositionsAreReached /\ TypeOK
  BY TypeParts DEF FeedInv
<1> SUFFICES ASSUME NEW s \in Readers
             PROVE  /\ (SameHistory(s) => /\ cursor[s].rev <= head
                                          /\ cursor[s].hwm # None => cursor[s].hwm <= head)'
                    /\ (request[s].kind = "page" /\ request[s].epoch = epoch =>
                            /\ request[s].hwm <= head
                            /\ cursor[s] # None => cursor[s].epoch = epoch)'
                    /\ (request[s].kind = "list" /\ request[s].epoch = epoch =>
                            request[s].rev <= head)'
  BY DEF PositionsAreReached
<1> DEFINE OfCursor == (SameHistory(s) => /\ cursor[s].rev <= head
                                          /\ cursor[s].hwm # None => cursor[s].hwm <= head)'
           OfPage == (request[s].kind = "page" /\ request[s].epoch = epoch =>
                            /\ request[s].hwm <= head
                            /\ cursor[s] # None => cursor[s].epoch = epoch)'
           OfList == (request[s].kind = "list" /\ request[s].epoch = epoch =>
                            request[s].rev <= head)'
           Goal == OfCursor /\ OfPage /\ OfList
<1>1. ASSUME NEW x \in Nat, x <= head, epoch' = epoch
      PROVE  x <= head'
  BY <1>0, <1>1, HistoryMovesOn DEF ServerTyped, Epoch
<1>2. ASSUME NEW e \in Epoch, Past(e), e = epoch'
      PROVE  epoch' = epoch
  BY <1>0, <1>2, PastStays
<1>3. cursor[s] # None => /\ cursor[s].epoch \in Epoch /\ Past(cursor[s].epoch)
                          /\ cursor[s].rev \in Nat
                          /\ cursor[s].hwm # None => cursor[s].hwm \in Nat
  BY <1>0 DEF ReadersTyped, Cursor, EpochsPass
<1>4. request[s].kind \in {"page", "list"} => request[s].epoch \in Epoch /\ Past(request[s].epoch)
  BY <1>0, RequestType DEF EpochsPass
<1>5. cursor'[s] = cursor[s] => OfCursor
  BY <1>0, <1>1, <1>2, <1>3 DEF SameHistory, PositionsAreReached
<1>6. cursor'[s] = cursor[s] /\ request'[s] = request[s] => OfPage /\ OfList
  BY <1>0, <1>1, <1>2, <1>4, RequestType DEF PositionsAreReached
<1>7. ASSUME cursor'[s] = cursor[s], request'[s] = request[s] \/ request'[s].kind = "idle"
      PROVE  Goal
  BY <1>5, <1>6, <1>7
<1>8. Server => Goal
  BY <1>0, <1>7, ServerLeaves
<1>9. ASSUME NEW r \in Readers, AnswerPage(r) \/ Listed(r)
      PROVE  Goal
  <2>1. CASE s # r
    BY <1>0, <1>7, <1>9, <2>1, OthersStand DEF Reader
  <2>2. CASE s = r
    <3>1. /\ cursor'[s].epoch = request[s].epoch /\ request'[s].kind = "idle"
          /\ UNCHANGED <<epoch, head>>
          /\ \/ /\ request[s].kind = "page" /\ cursor'[s].rev = Reached(s)
                /\ cursor'[s].hwm # None => cursor'[s].hwm = request[s].hwm
             \/ /\ request[s].kind = "list" /\ cursor'[s].rev = request[s].rev
                /\ cursor'[s].hwm = None
      BY <1>0, <1>9, <2>2, CursorStep DEF server
    <3>2. CASE request[s].kind = "page"
      <4>1. Reached(s) \in Nat /\ Reached(s) <= request[s].hwm /\ request[s].hwm \in Nat
        BY <1>0, <3>2, PageAnswered, RequestType
      <4> QED
        BY <1>0, <3>1, <3>2, <4>1 DEF SameHistory, PositionsAreReached, ServerTyped
    <3>3. CASE request[s].kind = "list"
      BY <1>0, <3>1, <3>3 DEF SameHistory, PositionsAreReached
    <3> QED
      BY <3>1, <3>2, <3>3
  <2> QED
    BY <2>1, <2>2
<1>10. ASSUME NEW r \in Readers,
              \/ \E kind \in Kinds : Ask(r, kind)
              \/ FirstWalk(r) \/ AnswerProbe(r) \/ StartList(r) \/ GiveUp(r)
       PROVE  Goal
  <2>1. CASE s # r
    BY <1>0, <1>7, <1>10, <2>1, OthersStand DEF Reader
  <2>2. CASE s = r
    <3>1. /\ cursor' = cursor /\ UNCHANGED <<epoch, head>>
          /\ request'[s].kind = "page" =>
                /\ request'[s].hwm = Bound(Presented(s))
                /\ cursor[s] # None => cursor[s].epoch = epoch
          /\ request'[s].kind = "list" => request'[s].rev = head
      BY <1>0, <1>10, <2>2, RequestStep DEF server
    <3>2. (cursor[s] # None => cursor[s].epoch = epoch) => Bound(Presented(s)) <= head
      BY <1>0, NoneIsApart DEF Bound, Presented, FreshCursor, PositionsAreReached, SameHistory,
            ServerTyped
    <3> QED
      BY <1>0, <1>5, <3>1, <3>2 DEF ServerTyped
  <2> QED
    BY <2>1, <2>2
<1>11. UNCHANGED vars => Goal
  BY <1>7 DEF vars, client
<1> HIDE DEF Goal
<1>12. Goal
  BY <1>8, <1>9, <1>10, <1>11, Steps
<1> QED
  BY <1>12 DEF Goal

\* At the start nothing is journalled and nobody has asked.
LEMMA InitFeed == Init => FeedInv
<1> SUFFICES ASSUME Init PROVE FeedInv
  OBVIOUS
<1>1. IsFiniteSet({})
  BY FS_EmptySet
<1>2. [n \in {} |-> {}] \in Mirror
  BY MirrorType
<1>3. TypeOK
  <2>1. nodes \in [Present -> Row] /\ Present = {}
    BY DEF Init, Present
  <2>2. mirror \in [Readers -> Mirror]
    BY <1>2 DEF Init
  <2> QED
    BY <2>1, <2>2 DEF Init, TypeOK, Epoch, Requests
<1>4. JournalHolds
  BY <1>1 DEF Init, JournalHolds, JournalOf
<1>5. EpochsPass /\ PositionsAreReached
  BY DEF Init, EpochsPass, PositionsAreReached, SameHistory, Idle
<1> QED
  BY <1>3, <1>4, <1>5 DEF FeedInv

\* The types and the journal need no epoch to move.
LEMMA RowsStep ==
    ASSUME TypeOK, JournalHolds, [Next]_vars
    PROVE  TypeOK' /\ JournalHolds'
<1>1. ReadersTyped'
  BY ReadersTypeStep
<1>2. ServerTyped' /\ BackupTyped'
  <2>1. CASE Server
    BY <2>1, ServerTypeStep
  <2>2. CASE UNCHANGED server
    BY <2>2, TypeParts DEF server, ServerTyped, BackupTyped, Present
  <2>3. (\E r \in Readers : Reader(r) \/ GiveUp(r)) \/ UNCHANGED vars => UNCHANGED server
    BY DEF Reader, Ask, FirstWalk, AnswerPage, AnswerProbe, StartList, Listed, GiveUp, vars
  <2> QED
    BY <2>1, <2>2, <2>3 DEF Next
<1> QED
  BY <1>1, <1>2, JournalStep DEF TypeOK, ServerTyped, BackupTyped, ReadersTyped

\* The shape of the state, and that a series of pages ends: while there is
\* more, the position stays short of the bound.  Restores that do not raise the
\* epoch are no exception.
THEOREM TypeCorrect == Spec => []TypeOK
<1>1. Init => TypeOK /\ JournalHolds
  BY InitFeed DEF FeedInv
<1>2. TypeOK /\ JournalHolds /\ [Next]_vars => TypeOK' /\ JournalHolds'
  BY RowsStep
<1> QED
  BY <1>1, <1>2, PTL DEF Spec

\* The rest of the invariant does need it.
LEMMA NextFeed ==
    ASSUME ~Unraised
    PROVE  FeedInv /\ [Next]_vars => FeedInv'
<1> SUFFICES ASSUME FeedInv, [Next]_vars PROVE FeedInv'
  OBVIOUS
<1>1. TypeOK /\ JournalHolds /\ EpochsPass
  BY DEF FeedInv
<1>2. TypeOK' /\ JournalHolds'
  BY <1>1, RowsStep
<1>3. EpochsPass' /\ PositionsAreReached'
  BY <1>1, EpochsStep, PositionsStep
<1> QED
  BY <1>2, <1>3 DEF FeedInv

LEMMA FeedHolds ==
    ASSUME ~Unraised
    PROVE  Spec => []FeedInv
BY InitFeed, NextFeed, PTL DEF Spec

-----------------------------------------------------------------------------
(* What a reader past a revision has.                                       *)

\* Only a step of this history can make a difference to it.
LEMMA SameHistoryStays ==
    ASSUME ~Unraised, FeedInv, [Next]_vars, NEW s \in Readers, cursor'[s] = cursor[s],
           SameHistory(s)'
    PROVE  SameHistory(s) /\ UNCHANGED epoch /\ cursor[s].rev <= head /\ cursor[s].rev \in Nat
<1>1. cursor[s] # None /\ cursor[s].epoch = epoch'
  BY DEF SameHistory
<1>2. cursor[s].epoch \in Epoch /\ Past(cursor[s].epoch) /\ cursor[s].rev \in Nat
  BY <1>1 DEF FeedInv, TypeOK, Cursor, EpochsPass
<1>3. UNCHANGED epoch
  BY <1>1, <1>2, PastStays DEF FeedInv
<1> QED
  BY <1>1, <1>2, <1>3 DEF SameHistory, FeedInv, PositionsAreReached

\* The server's steps: what is written comes after every position, and what is
\* purged or pruned is not told of any more.
LEMMA ServerKeepsTold ==
    ASSUME ~Unraised, FeedInv, Server, NEW s \in Readers, NEW pos \in Nat, pos <= head,
           Has(s, pos), UNCHANGED epoch
    PROVE  Has(s, pos)'
<1>0. /\ head \in Nat /\ epoch \in Epoch
      /\ \A j \in journal : j.rev \in Nat /\ j.rev <= head
      /\ nodes \in [Present -> Row]
  BY DEF FeedInv, TypeOK, JournalHolds, JournalOf, Entry
<1>1. UNCHANGED mirror
  BY ServerLeaves, TypeParts DEF FeedInv
<1>2. ~Reset /\ ~Restore
  BY <1>0, RestoredEpoch DEF Reset, Epoch
<1>3. ASSUME \A j \in Told(pos)' : j \in Told(pos) /\ nodes'[j.node] = nodes[j.node]
      PROVE  Has(s, pos)'
  BY <1>1, <1>3 DEF Has
<1>4. ASSUME NEW n \in Nodes, NEW op, journal' = Journalled(n, op),
             Present' = Present \cup {n}, nodes'[n].rev = head + 1,
             \A m \in Present \ {n} : nodes'[m] = nodes[m]
      PROVE  Has(s, pos)'
  <2> SUFFICES ASSUME NEW j \in Told(pos)'
               PROVE  j \in Told(pos) /\ nodes'[j.node] = nodes[j.node]
    BY <1>3
  <2>1. j \in journal' /\ j.node \in Present' /\ j.rev = nodes'[j.node].rev /\ j.rev <= pos
    BY DEF Told
  <2>2. j.node # n
    BY <1>0, <1>4, <2>1
  <2>3. j \in journal /\ j.node \in Present
    BY <1>4, <2>1, <2>2 DEF Journalled
  <2>4. nodes'[j.node] = nodes[j.node]
    BY <1>4, <2>2, <2>3
  <2> QED
    BY <2>1, <2>3, <2>4 DEF Told
<1>5. ASSUME NEW n \in Nodes, NEW sha \in Contents, Put(n, sha)
      PROVE  Has(s, pos)'
  <2>1. /\ Present' = Present \cup {n}
        /\ nodes'[n].rev = head + 1
        /\ \A m \in Present \ {n} : nodes'[m] = nodes[m]
    BY <1>5 DEF Put, Present
  <2> QED
    BY <1>4, <1>5, <2>1 DEF Put
<1>6. ASSUME NEW n \in Nodes, Trash(n)
      PROVE  Has(s, pos)'
  <2>1. n \in Present /\ nodes[n] \in Row
    BY <1>0, <1>6 DEF Trash, Live
  <2>2. /\ Present' = Present \cup {n}
        /\ \A m \in Present \ {n} : nodes'[m] = nodes[m]
    BY <1>0, <1>6, <2>1 DEF Trash, Present
  <2>3. nodes'[n].rev = head + 1
    BY <1>0, <1>6, <2>1 DEF Trash, Present, Row
  <2> QED
    BY <1>4, <1>6, <2>2, <2>3 DEF Trash
<1>7. ASSUME NEW n \in Nodes, Purge(n)
      PROVE  Has(s, pos)'
  BY <1>3, <1>7 DEF Purge, Told, Present
<1>8. ASSUME NEW upTo \in 1..MaxRev, Prune(upTo)
      PROVE  Has(s, pos)'
  BY <1>3, <1>8 DEF Prune, Told, Present
<1>9. CASE BackUp \/ Rotate
  BY <1>3, <1>9 DEF BackUp, Rotate, Told, Present
<1> QED
  BY <1>2, <1>5, <1>6, <1>7, <1>8, <1>9 DEF Server

\* A page takes the reader past what it was not past before.
LEMMA PageTells ==
    ASSUME FeedInv, NothingJournalledIsMissed, NEW r \in Readers, AnswerPage(r),
           request[r].epoch = epoch
    PROVE  \A j \in Told(Reached(r)) :
             IF nodes[j.node].deleted
             THEN j.node \notin DOMAIN mirror'[r]
             ELSE j.node \in DOMAIN mirror'[r] /\ mirror'[r][j.node] = nodes[j.node].sha
<1>0. ServerTyped /\ ReadersTyped /\ JournalHolds /\ PositionsAreReached
  BY TypeParts DEF FeedInv
<1> DEFINE gone == {j.node : j \in {k \in Page(r) : k.op = "del"}}
           here == {j.node : j \in Page(r)} \ gone
           after == Presented(r).rev
           upTo == request[r].hwm
<1>1. /\ mirror'[r] = [n \in (DOMAIN mirror[r] \ gone) \cup here |->
                           IF n \in here THEN nodes[n].sha ELSE mirror[r][n]]
      /\ request[r].kind = "page"
  BY <1>0, PageTaken
<1>2. /\ Page(r) \subseteq Changes(after, upTo)
      /\ Reached(r) \in Nat /\ Reached(r) <= upTo /\ after \in Nat /\ upTo \in Nat
      /\ \A j \in Changes(after, upTo) : j.rev <= Reached(r) => j \in Page(r)
  BY <1>0, <1>1, PageAnswered, PresentedType, RequestType
<1>3. \A j \in journal :
        /\ j.rev \in Nat /\ 0 < j.rev
        /\ j.node \in Present => /\ j.rev <= nodes[j.node].rev
                                 /\ nodes[j.node].rev \in Nat
                                 /\ j.rev = nodes[j.node].rev =>
                                        (j.op = "del" <=> nodes[j.node].deleted)
  BY <1>0 DEF JournalHolds, JournalOf, ServerTyped, Entry, Row, Present
<1>4. \A j, k \in journal : j.rev = k.rev => j = k
  BY <1>0 DEF JournalHolds, JournalOf
<1>5. \A k \in Page(r) : /\ k \in journal /\ k.node \in Present /\ after < k.rev /\ k.rev <= upTo
                         /\ \A l \in journal :
                              after < l.rev /\ l.rev <= upTo /\ l.node = k.node => l.rev <= k.rev
  BY <1>2 DEF Changes
<1> TAKE j \in Told(Reached(r))
<1>6. j \in journal /\ j.node \in Present /\ j.rev = nodes[j.node].rev /\ j.rev <= Reached(r)
  BY DEF Told
<1> HIDE DEF gone, here, after, upTo
\* It was past this one.
<1>7. CASE j.rev <= after
  <2>1. j.node \notin {k.node : k \in Page(r)}
    <3> SUFFICES ASSUME NEW k \in Page(r), k.node = j.node PROVE FALSE
      OBVIOUS
    <3>1. k \in journal /\ k.rev <= nodes[j.node].rev /\ after < k.rev /\ k.rev \in Nat
      BY <1>3, <1>5
    <3> QED
      BY <1>2, <1>3, <1>6, <1>7, <3>1
  <2>2. j.node \notin gone /\ j.node \notin here
    BY <2>1 DEF gone, here
  <2>3. SameHistory(r) /\ after = cursor[r].rev
    <3>1. cursor[r] # None
      <4> SUFFICES ASSUME cursor[r] = None PROVE FALSE
        OBVIOUS
      <4>1. after = 0
        BY DEF after, Presented, FreshCursor
      <4> QED
        BY <1>3, <1>6, <1>7, <4>1
    <3> QED
      BY <1>0, <1>1, <3>1 DEF SameHistory, PositionsAreReached, Presented, after
  <2>4. j \in Told(cursor[r].rev)
    BY <1>6, <1>7, <2>3 DEF Told
  <2>5. Has(r, cursor[r].rev)
    BY <2>3 DEF NothingJournalledIsMissed
  <2>6. IF nodes[j.node].deleted
        THEN j.node \notin DOMAIN mirror[r]
        ELSE j.node \in DOMAIN mirror[r] /\ mirror[r][j.node] = nodes[j.node].sha
    BY <2>4, <2>5 DEF Has
  <2> QED
    BY <1>1, <2>2, <2>6 DEF gone, here
\* It was not, and the page has it.
<1>8. CASE after < j.rev
  <2>1. j \in Changes(after, upTo)
    BY <1>2, <1>3, <1>6, <1>8 DEF Changes
  <2>2. j \in Page(r)
    BY <1>2, <1>6, <2>1
  <2>3. ASSUME NEW k \in Page(r), k.node = j.node
        PROVE  k = j
    <3>1. j.rev <= k.rev /\ k.rev <= j.rev /\ k \in journal /\ k.rev \in Nat
      BY <1>2, <1>3, <1>5, <1>6, <1>8, <2>2, <2>3
    <3> QED
      BY <1>3, <1>4, <1>6, <3>1
  <2>4. j.op = "del" <=> nodes[j.node].deleted
    BY <1>3, <1>6
  <2>5. CASE nodes[j.node].deleted
    <3>1. j.node \in gone /\ j.node \notin here
      BY <2>2, <2>4, <2>5 DEF gone, here
    <3> QED
      BY <1>1, <2>5, <3>1 DEF gone, here
  <2>6. CASE ~nodes[j.node].deleted
    <3>1. j.node \notin gone
      BY <2>3, <2>4, <2>6 DEF gone
    <3>2. j.node \in here
      BY <2>2, <3>1 DEF here
    <3> QED
      BY <1>1, <2>6, <3>2 DEF gone, here
  <2> QED
    BY <2>5, <2>6
<1>9. after \in Nat /\ j.rev \in Nat
  BY <1>2, <1>3, <1>6
<1> QED
  BY <1>7, <1>8, <1>9

LEMMA NothingMissedStep ==
    ASSUME ~Unraised, FeedInv, NothingJournalledIsMissed, [Next]_vars
    PROVE  NothingJournalledIsMissed'
<1>0. ServerTyped /\ ReadersTyped /\ JournalHolds
  BY TypeParts DEF FeedInv
<1> SUFFICES ASSUME NEW s \in Readers, SameHistory(s)'
             PROVE  Has(s, cursor[s].rev)'
  BY DEF NothingJournalledIsMissed
<1> DEFINE Goal == Has(s, cursor[s].rev)'
\* Where the reader stays, only the server's rows may have changed.
<1>1. ASSUME cursor'[s] = cursor[s]
      PROVE  SameHistory(s) /\ UNCHANGED epoch /\ Has(s, cursor[s].rev)
             /\ cursor[s].rev <= head /\ cursor[s].rev \in Nat
  BY <1>1, SameHistoryStays DEF NothingJournalledIsMissed
<1>2. ASSUME cursor'[s] = cursor[s], mirror'[s] = mirror[s], UNCHANGED server
      PROVE  Goal
  BY <1>1, <1>2 DEF Has, Told, Present, server
<1>3. ASSUME Server
      PROVE  Goal
  <2>1. UNCHANGED cursor
    BY <1>0, <1>3, ServerLeaves
  <2> DEFINE pos == cursor[s].rev
  <2>2. UNCHANGED epoch /\ Has(s, pos) /\ pos <= head /\ pos \in Nat /\ pos' = pos
    BY <1>1, <2>1
  <2> HIDE DEF pos
  <2>3. Has(s, pos)'
    BY <1>3, <2>2, ServerKeepsTold
  <2> QED
    BY <2>3 DEF pos
<1>4. ASSUME NEW r \in Readers, AnswerPage(r)
      PROVE  Goal
  <2>1. CASE s # r
    BY <1>0, <1>2, <1>4, <2>1, OthersStand DEF Reader
  <2>2. CASE s = r
    <3>1. /\ UNCHANGED server /\ cursor'[s].epoch = request[s].epoch
          /\ request[s].kind = "page"
      BY <1>0, <1>4, <2>2, CursorStep, PageTaken
    <3>2. cursor'[s].rev = Reached(s)
      BY <1>0, <1>4, <2>2, <3>1, CursorStep
    <3>3. request[s].epoch = epoch
      BY <3>1 DEF SameHistory, server
    <3>4. \A j \in Told(Reached(s)) :
             IF nodes[j.node].deleted
             THEN j.node \notin DOMAIN mirror'[s]
             ELSE j.node \in DOMAIN mirror'[s] /\ mirror'[s][j.node] = nodes[j.node].sha
      BY <1>4, <2>2, <3>3, PageTells
    <3>5. Told(cursor[s].rev)' = Told(Reached(s))
      BY <3>1, <3>2 DEF Told, Present, server
    <3>6. \A j \in Told(cursor[s].rev)' :
             IF nodes'[j.node].deleted
             THEN j.node \notin DOMAIN mirror'[s]
             ELSE j.node \in DOMAIN mirror'[s] /\ mirror'[s][j.node] = nodes'[j.node].sha
      BY <3>1, <3>4, <3>5 DEF server
    <3> QED
      BY <3>6 DEF Has
  <2> QED
    BY <2>1, <2>2
<1>5. ASSUME NEW r \in Readers, Listed(r)
      PROVE  Goal
  <2>1. CASE s # r
    BY <1>0, <1>2, <1>5, <2>1, OthersStand DEF Reader
  <2>2. CASE s = r
    <3>1. mirror'[s] = Listing /\ UNCHANGED server
      BY <1>0, <1>5, <2>2 DEF Listed, ReadersTyped
    <3>2. \A j \in Told(cursor[s].rev)' : j.node \in Present
      BY <3>1 DEF Told, Present, server
    <3>3. UNCHANGED nodes
      BY <3>1 DEF server
    <3>4. \A n \in Present : IF nodes[n].deleted
                             THEN n \notin DOMAIN Listing
                             ELSE n \in DOMAIN Listing /\ Listing[n] = nodes[n].sha
      BY DEF Listing, Live
    <3>5. \A n \in Present : IF nodes'[n].deleted
                             THEN n \notin DOMAIN mirror'[s]
                             ELSE n \in DOMAIN mirror'[s] /\ mirror'[s][n] = nodes'[n].sha
      BY <3>1, <3>3, <3>4
    <3> QED
      BY <3>2, <3>5 DEF Has
  <2> QED
    BY <2>1, <2>2
<1>6. ASSUME NEW r \in Readers,
             \/ \E kind \in Kinds : Ask(r, kind)
             \/ FirstWalk(r) \/ AnswerProbe(r) \/ StartList(r) \/ GiveUp(r)
      PROVE  Goal
  BY <1>0, <1>2, <1>6, RequestStep
<1>7. ASSUME UNCHANGED vars
      PROVE  Goal
  BY <1>2, <1>7 DEF vars, client
<1> HIDE DEF Goal
<1>8. Goal
  BY <1>3, <1>4, <1>5, <1>6, <1>7, Steps
<1> QED
  BY <1>8 DEF Goal

\* Where every restored server is given a new epoch before it answers, by the
\* confirmation or by the operator: no page boundary, no bound of a series, no
\* write, purge, reset, pruning, such a restore or rotation between two requests
\* makes a reader miss what the journal still tells up to where its cursor
\* stands.  A copy served under the epoch in use is excluded; with it the cursor
\* may stand ahead of what is written.
THEOREM NothingIsMissed ==
    ASSUME ~Unraised
    PROVE  Spec => []NothingJournalledIsMissed
<1>1. Init => NothingJournalledIsMissed
  BY DEF Init, NothingJournalledIsMissed, SameHistory
<1>2. FeedInv /\ NothingJournalledIsMissed /\ [Next]_vars => NothingJournalledIsMissed'
  BY NothingMissedStep
<1> QED
  BY <1>1, <1>2, FeedHolds, PTL DEF Spec

-----------------------------------------------------------------------------
(* What a reader takes for deleted.                                         *)

\* What a reader has and the server does not was taken away there.
Spared(r) == DOMAIN mirror[r] \subseteq Live \cup removed

\* That is so of every reader in the server's history, and of every reader
\* that will believe an absence.
AbsencesAreReal ==
    \A r \in Readers :
        /\ cursor[r] = None => DOMAIN mirror[r] = {}
        /\ cursor[r] # None /\ cursor[r].epoch.restore = epoch.restore => Spared(r)
        /\ request[r].kind \in {"page", "probe"} => Spared(r)
        /\ request[r].kind \in {"walk", "list"} /\ request[r].reading = "apply" => Spared(r)

\* Only a restore brings back a server that does not know of a node.
LEMMA SparedStays ==
    ASSUME FeedInv, Server, ~Restore, NEW s \in Readers, Spared(s)
    PROVE  Spared(s)'
<1>1. UNCHANGED mirror
  BY ServerLeaves, TypeParts DEF FeedInv
<1>2. nodes \in [Present -> Row]
  BY DEF FeedInv, TypeOK
<1>3. \A n \in Present : nodes[n].deleted => n \in removed
  BY DEF FeedInv, JournalHolds, JournalOf, Present
<1>4. ASSUME Live \subseteq Live' \cup removed', removed \subseteq removed'
      PROVE  Spared(s)'
  BY <1>1, <1>4 DEF Spared
<1>5. removed \subseteq removed'
  BY RemovedOnlyGrows DEF Next
<1>6. ASSUME NEW n \in Nodes, NEW sha \in Contents, Put(n, sha)
      PROVE  Live \subseteq Live'
  BY <1>6 DEF Put, Live, Present
<1>7. ASSUME NEW n \in Nodes, Trash(n)
      PROVE  Live \subseteq Live' \cup removed'
  BY <1>7 DEF Trash, Live, Present
<1>8. ASSUME NEW n \in Nodes, Purge(n)
      PROVE  Live \subseteq Live'
  BY <1>8 DEF Purge, Live, Present
<1>9. Reset => Live \subseteq removed'
  BY DEF Reset, Live
<1>10. BackUp \/ Rotate \/ (\E upTo \in 1..MaxRev : Prune(upTo)) => Live \subseteq Live'
  BY DEF BackUp, Rotate, Prune, Live, Present
<1> QED
  BY <1>4, <1>5, <1>6, <1>7, <1>8, <1>9, <1>10 DEF Server

LEMMA AbsencesStep ==
    ASSUME ~RestoreMidPass, ~Unraised, FeedInv, AbsencesAreReal, [Next]_vars
    PROVE  AbsencesAreReal'
<1>0. ServerTyped /\ ReadersTyped /\ JournalHolds /\ EpochsPass /\ TypeOK
  BY TypeParts DEF FeedInv
<1> SUFFICES ASSUME NEW s \in Readers
             PROVE  /\ (cursor[s] = None => DOMAIN mirror[s] = {})'
                    /\ (cursor[s] # None /\ cursor[s].epoch.restore = epoch.restore => Spared(s))'
                    /\ (request[s].kind \in {"page", "probe"} => Spared(s))'
                    /\ (request[s].kind \in {"walk", "list"} /\ request[s].reading = "apply"
                            => Spared(s))'
  BY DEF AbsencesAreReal
<1> DEFINE Goal == /\ (cursor[s] = None => DOMAIN mirror[s] = {})'
                   /\ (cursor[s] # None /\ cursor[s].epoch.restore = epoch.restore
                            => Spared(s))'
                   /\ (request[s].kind \in {"page", "probe"} => Spared(s))'
                   /\ (request[s].kind \in {"walk", "list"} /\ request[s].reading = "apply"
                            => Spared(s))'
<1>1. /\ cursor[s] = None => DOMAIN mirror[s] = {}
      /\ cursor[s] # None /\ cursor[s].epoch.restore = epoch.restore => Spared(s)
      /\ request[s].kind \in {"page", "probe"} => Spared(s)
      /\ request[s].kind \in {"walk", "list"} /\ request[s].reading = "apply" => Spared(s)
  BY DEF AbsencesAreReal
<1>2. cursor[s] = None \/ cursor[s].epoch = epoch => Spared(s)
  BY <1>1 DEF Spared
<1>3. ASSUME cursor'[s] = cursor[s], mirror'[s] = mirror[s], request'[s] = request[s],
             UNCHANGED server
      PROVE  Goal
  BY <1>1, <1>3 DEF Spared, Live, Present, server
\* The cursors of before are of another history, and nobody was walking.
<1>4. ASSUME Restore
      PROVE  Goal
  <2>1. UNCHANGED <<cursor, mirror>> /\ request'[s].kind = "idle"
    <3>1. request[s].kind # "walk"
      BY <1>4 DEF Restore
    <3> QED
      BY <1>0, <1>4, <3>1, RestoreDrops DEF Restore
  <2>2. ASSUME cursor[s] # None
        PROVE  cursor[s].epoch.restore # epoch'.restore
    <3>1. cursor[s].epoch \in Epoch /\ Past(cursor[s].epoch) /\ epoch \in Epoch
      BY <1>0, <2>2 DEF ReadersTyped, Cursor, EpochsPass, ServerTyped
    <3>2. epoch'.restore = epoch.restore + 1
      BY <1>4, RestoredEpoch
    <3> QED
      BY <3>1, <3>2 DEF Past, Epoch
  <2> QED
    BY <1>1, <2>1, <2>2
<1>5. ASSUME Server, ~Restore
      PROVE  Goal
  <2>1. /\ UNCHANGED <<cursor, mirror, request>>
    BY <1>5 DEF Server, Put, Trash, Purge, Reset, Prune, BackUp, Rotate, client
  <2>2. Spared(s) => Spared(s)'
    BY <1>5, SparedStays
  <2>3. epoch'.restore = epoch.restore
    BY <1>0, <1>5 DEF Server, Put, Trash, Purge, Reset, Prune, BackUp, Rotate, ServerTyped, Epoch
  <2> QED
    BY <1>1, <2>1, <2>2, <2>3
<1>6. ASSUME NEW r \in Readers, AnswerPage(r)
      PROVE  Goal
  <2>1. CASE s # r
    BY <1>0, <1>3, <1>6, <2>1, OthersStand DEF Reader
  <2>2. CASE s = r
    <3> DEFINE gone == {j.node : j \in {k \in Page(r) : k.op = "del"}}
               here == {j.node : j \in Page(r)} \ gone
    <3>1. /\ mirror'[r] = [n \in (DOMAIN mirror[r] \ gone) \cup here |->
                                IF n \in here THEN nodes[n].sha ELSE mirror[r][n]]
          /\ here \subseteq Present /\ request[r].kind = "page"
      BY <1>0, <1>6, PageTaken
    <3>2. cursor'[r] # None /\ request'[r].kind = "idle" /\ UNCHANGED server
      BY <1>0, <1>6, CursorStep
    <3>3. \A n \in Present : n \in Live \cup removed
      BY <1>0 DEF JournalHolds, JournalOf, Live, Present
    <3> HIDE DEF gone, here
    <3>4. DOMAIN mirror'[r] \subseteq Live \cup removed
      BY <1>1, <2>2, <3>1, <3>3 DEF Spared
    <3>5. Spared(s)'
      BY <2>2, <3>2, <3>4 DEF Spared, Live, Present, server
    <3> QED
      BY <2>2, <3>2, <3>5
  <2> QED
    BY <2>1, <2>2
<1>7. ASSUME NEW r \in Readers, Listed(r)
      PROVE  Goal
  <2>1. CASE s # r
    BY <1>0, <1>3, <1>7, <2>1, OthersStand DEF Reader
  <2>2. CASE s = r
    <3>1. mirror'[s] = Listing /\ UNCHANGED server
      BY <1>0, <1>7, <2>2 DEF Listed, ReadersTyped
    <3>2. cursor'[s] # None /\ request'[s].kind = "idle"
      BY <1>0, <1>7, <2>2, CursorStep
    <3>3. DOMAIN Listing = Live
      BY DEF Listing
    <3>4. Spared(s)'
      BY <3>1, <3>3 DEF Spared, Live, Present, server
    <3> QED
      BY <3>2, <3>4
  <2> QED
    BY <2>1, <2>2
<1>8. ASSUME NEW r \in Readers,
             \/ \E kind \in Kinds : Ask(r, kind)
             \/ FirstWalk(r) \/ AnswerProbe(r) \/ StartList(r) \/ GiveUp(r)
      PROVE  Goal
  <2>1. CASE s # r
    BY <1>0, <1>3, <1>8, <2>1, OthersStand DEF Reader
  <2>2. CASE s = r
    <3>1. Spared(s)' <=> Spared(s)
      BY <1>0, <1>8, RequestStep DEF Spared, Live, Present, server
    <3>2. UNCHANGED <<server, cursor, mirror>>
      BY <1>0, <1>8, RequestStep
    <3>3. \/ request'[s].kind = "idle"
          \/ /\ request'[s].kind \in {"page", "probe"}
             /\ cursor[s] # None => cursor[s].epoch = epoch
          \/ /\ request'[s].kind = "walk"
             /\ request'[s].reading = "apply" =>
                    \/ cursor[s] = None \/ cursor[s].epoch = epoch
                    \/ request[s].kind = "probe"
          \/ /\ request[s].kind = "walk" /\ request'[s].kind = "list"
             /\ request'[s].reading = request[s].reading
      BY <1>0, <1>8, <2>2, RequestStep
    <3> QED
      BY <1>1, <1>2, <3>1, <3>2, <3>3 DEF server
  <2> QED
    BY <2>1, <2>2
<1>9. ASSUME UNCHANGED vars
      PROVE  Goal
  BY <1>3, <1>9 DEF vars, client
<1> HIDE DEF Goal
<1>10. Goal
  BY <1>4, <1>5, <1>6, <1>7, <1>8, <1>9, Steps
<1> QED
  BY <1>10 DEF Goal

LEMMA DeletionsStep ==
    ASSUME FeedInv, AbsencesAreReal, DeletionsAreReal, [Next]_vars
    PROVE  DeletionsAreReal'
<1>0. ServerTyped /\ ReadersTyped /\ JournalHolds
  BY TypeParts DEF FeedInv
<1>1. removed \subseteq removed'
  BY RemovedOnlyGrows
<1>2. UNCHANGED taken => DeletionsAreReal'
  BY <1>1 DEF DeletionsAreReal
<1>3. Server => DeletionsAreReal'
  BY <1>2 DEF Server, Put, Trash, Purge, Reset, Prune, BackUp, Restore, Rotate, client
\* A page tells of a deletion only where there was one.
<1>4. ASSUME NEW r \in Readers, AnswerPage(r)
      PROVE  DeletionsAreReal'
  <2> DEFINE gone == {j.node : j \in {k \in Page(r) : k.op = "del"}}
  <2>1. taken' = taken \cup (gone \cap DOMAIN mirror[r]) /\ gone \subseteq removed
    BY <1>0, <1>4, PageTaken
  <2> QED
    BY <1>1, <2>1 DEF DeletionsAreReal
\* A walk is believed only where what it lacks was taken away.
<1>5. ASSUME NEW r \in Readers, Listed(r)
      PROVE  DeletionsAreReal'
  <2>1. request[r].kind = "list" /\ request[r].reading = "apply" => Spared(r)
    BY DEF AbsencesAreReal
  <2> QED
    BY <1>1, <1>5, <2>1 DEF Listed, Spared, DeletionsAreReal
<1>6. ASSUME NEW r \in Readers,
             \/ \E kind \in Kinds : Ask(r, kind)
             \/ FirstWalk(r) \/ AnswerProbe(r) \/ StartList(r) \/ GiveUp(r)
      PROVE  DeletionsAreReal'
  BY <1>0, <1>2, <1>6, RequestStep
<1>7. UNCHANGED vars => DeletionsAreReal'
  BY <1>2 DEF vars, client
<1> QED
  BY <1>3, <1>4, <1>5, <1>6, <1>7, Steps

\* Where every restored server is given a new epoch before it answers, and none
\* is restored between the verdict a device was given and the walk it then
\* makes, no device ever takes for deleted what the server did not once trash
\* or reset.  A copy served under the epoch in use is excluded: what it lacks
\* is read as deleted.
THEOREM OnlyRealDeletions ==
    ASSUME ~RestoreMidPass, ~Unraised
    PROVE  Spec => []DeletionsAreReal
<1>1. Init => AbsencesAreReal /\ DeletionsAreReal
  BY DEF Init, AbsencesAreReal, DeletionsAreReal, Idle
<1>2. FeedInv /\ AbsencesAreReal /\ DeletionsAreReal /\ [Next]_vars
        => AbsencesAreReal' /\ DeletionsAreReal'
  BY AbsencesStep, DeletionsStep
<1> QED
  BY <1>1, <1>2, FeedHolds, PTL DEF Spec

=============================================================================
