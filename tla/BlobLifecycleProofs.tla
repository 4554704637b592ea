-------------------------- MODULE BlobLifecycleProofs --------------------------
(***************************************************************************)
(* Proofs about module BlobLifecycle, for any number of accounts,          *)
(* contents, nodes, uploads, parts, crashes and failures: what an account  *)
(* keeps, live or in its history, can be read.                             *)
(***************************************************************************)
EXTENDS BlobLifecycle, TLAPS

-----------------------------------------------------------------------------
(* The invariant.                                                           *)

RowsTyped == rows \in [Blobs -> {None, "clear", "marked", "aged"}] /\ files \subseteq Blobs

\* A claim that is due to nothing is not kept, and only a reservation ages.
Sound(claim) == /\ claim.own \/ claim.pending > 0
                /\ claim.since = None <=> claim.pending = 0

ClaimsTyped ==
  /\ claims \in [Users \X Blobs -> Claim \cup {None}]
  /\ \A u \in Users, b \in Blobs : claims[<<u, b>>] # None =>
        Sound(claims[<<u, b>>]) /\ rows[b] # None

NodesTyped == nodes \in [Nodes -> Node \cup {None}] /\ versions \in [Nodes -> SUBSET Blobs]

UploadsTyped ==
  /\ uploads \in [Uploads -> Upload \cup {None}]
  /\ \A r \in Uploads : uploads[r] # None /\ uploads[r].whole =>
       uploads[r].at \in {"sending", "stored"} /\ uploads[r].todo = {}
  /\ staged \in [Users \X Blobs -> SUBSET Parts]

PassTyped == /\ pass \in Passes /\ spent \subseteq Users \X Blobs /\ doomed \subseteq Blobs
             /\ faults \in 0..MaxFaults

LEMMA TypeParts ==
    TypeOK <=> RowsTyped /\ ClaimsTyped /\ NodesTyped /\ UploadsTyped /\ PassTyped
<1>1. (\A c \in Users \X Blobs : claims[c] # None =>
         /\ claims[c].own \/ claims[c].pending > 0
         /\ claims[c].since = None <=> claims[c].pending = 0
         /\ rows[c[2]] # None)
      <=> (\A u \in Users, b \in Blobs : claims[<<u, b>>] # None =>
             Sound(claims[<<u, b>>]) /\ rows[b] # None)
  BY DEF Sound
<1> QED
  BY <1>1 DEF TypeOK, RowsTyped, ClaimsTyped, NodesTyped, UploadsTyped, PassTyped

\* A recorded content has its file, and so has an upload that is about to
\* record it.
FilesThere ==
  /\ \A b \in Blobs : rows[b] # None => b \in files
  /\ \A r \in Uploads : uploads[r] # None /\ uploads[r].at = "stored" => uploads[r].sha \in files

\* What the pass is about to unlink has no row.
DoomedIsUnrecorded == pass = "unlink" => \A b \in doomed : rows[b] = None

\* What is kept is claimed by who keeps it, bound and not merely reserved.
KeptIsClaimed ==
  \A u \in Users : \A b \in Held(u) : claims[<<u, b>>] # None /\ claims[<<u, b>>].own

\* The claims a DELETE under way is to drop support nothing.
SpentIsUnheld == pass = "dropping" => \A c \in spent : c[2] \notin Held(c[1])

-----------------------------------------------------------------------------
(* Claims, uploads and what is held.                                        *)

LEMMA NoneApart ==
    /\ \A x \in Claim \cup Upload \cup Node : x # None
    /\ None \notin {"clear", "marked", "aged", "fresh", "stale"}
BY NoneIsApart

\* What each write makes of a claim, or of none.
LEMMA ClaimWrites ==
    ASSUME NEW claim \in Claim, claim.since = None <=> claim.pending = 0
    PROVE  /\ Bound(claim) \in Claim /\ Sound(Bound(claim)) /\ Bound(claim).own
           /\ Claimed(claim) \in Claim /\ Sound(Claimed(claim)) /\ Claimed(claim).own
           /\ claim.pending < MaxPending =>
                /\ Reserved(claim) \in Claim /\ Sound(Reserved(claim))
                /\ Reserved(claim).own = claim.own
<1> USE BoundsAreNaturals, NoneApart DEF Claim, Sound
<1>1. claim.pending \in 0..MaxPending /\ claim.own \in BOOLEAN
  OBVIOUS
<1>2. Bound(claim) \in Claim /\ Sound(Bound(claim)) /\ Bound(claim).own
  BY <1>1 DEF Bound
<1>3. Claimed(claim) \in Claim /\ Sound(Claimed(claim)) /\ Claimed(claim).own
  BY <1>1 DEF Claimed
<1>4. ASSUME claim.pending < MaxPending
      PROVE  /\ Reserved(claim) \in Claim /\ Sound(Reserved(claim))
             /\ Reserved(claim).own = claim.own
  <2> DEFINE p == claim.pending + 1
             s == IF claim.since = None THEN "fresh" ELSE claim.since
  <2>1. p \in 0..MaxPending /\ p > 0 /\ p # 0
    BY <1>1, <1>4
  <2>2. s \in {None, "fresh", "stale"} /\ s # None
    OBVIOUS
  <2>3. Reserved(claim) = [claim EXCEPT !.pending = p, !.since = s]
    BY DEF Reserved
  <2> HIDE DEF p, s
  <2> QED
    BY <2>1, <2>2, <2>3
<1> QED
  BY <1>2, <1>3, <1>4

LEMMA ClaimOfTyped ==
    ASSUME ClaimsTyped, NEW u \in Users, NEW b \in Blobs
    PROVE  /\ ClaimOf(u, b) \in Claim
           /\ ClaimOf(u, b).since = None <=> ClaimOf(u, b).pending = 0
           /\ claims[<<u, b>>] # None => ClaimOf(u, b) = claims[<<u, b>>]
BY BoundsAreNaturals DEF ClaimsTyped, ClaimOf, Fresh, Claim, Sound

\* One claim written, all others as they were.
LEMMA WithOne ==
    ASSUME ClaimsTyped, RowsTyped, NEW u \in Users, NEW b \in Blobs, NEW claim \in Claim,
           Sound(claim), claims' = With(u, b, claim),
           rows' \in [Blobs -> {None, "clear", "marked", "aged"}],
           rows'[b] # None, \A x \in Blobs : rows[x] # None => rows'[x] # None
    PROVE  /\ ClaimsTyped' /\ claims'[<<u, b>>] = claim
           /\ \A v \in Users, x \in Blobs : <<v, x>> # <<u, b>> =>
                claims'[<<v, x>>] = claims[<<v, x>>]
<1>1. claims' = [claims EXCEPT ![<<u, b>>] = claim]
  BY DEF With
<1>2. claims' \in [Users \X Blobs -> Claim \cup {None}] /\ claims'[<<u, b>>] = claim
  BY <1>1 DEF ClaimsTyped
<1>3. \A v \in Users, x \in Blobs : <<v, x>> # <<u, b>> => claims'[<<v, x>>] = claims[<<v, x>>]
  BY <1>1 DEF ClaimsTyped
<1>4. ASSUME NEW v \in Users, NEW x \in Blobs, claims'[<<v, x>>] # None
      PROVE  Sound(claims'[<<v, x>>]) /\ rows'[x] # None
  <2>1. CASE <<v, x>> = <<u, b>>
    BY <1>2, <2>1
  <2>2. CASE <<v, x>> # <<u, b>>
    BY <1>3, <1>4, <2>2 DEF ClaimsTyped
  <2> QED
    BY <2>1, <2>2
<1>5. ClaimsTyped'
  BY <1>2, <1>4 DEF ClaimsTyped, Sound
<1> QED
  BY <1>2, <1>3, <1>5

\* Claims dropped, or what is left of them.
LEMMA WithoutSome ==
    ASSUME ClaimsTyped, NEW gone, claims' = Without(gone), UNCHANGED rows
    PROVE  /\ ClaimsTyped'
           /\ \A u \in Users, b \in Blobs :
                claims'[<<u, b>>] = IF <<u, b>> \in gone THEN None ELSE claims[<<u, b>>]
<1>1. \A u \in Users, b \in Blobs :
         claims'[<<u, b>>] = IF <<u, b>> \in gone THEN None ELSE claims[<<u, b>>]
  BY DEF Without
<1>2. claims' \in [Users \X Blobs -> Claim \cup {None}]
  BY DEF Without, ClaimsTyped
<1>3. ClaimsTyped'
  BY <1>1, <1>2 DEF ClaimsTyped, Sound
<1> QED
  BY <1>1, <1>3

\* An upload at its next stage.
LEMMA UploadAt ==
    ASSUME UploadsTyped, NEW r \in Uploads, uploads[r] # None, NEW x \in Stages,
           uploads' = [uploads EXCEPT ![r] = [uploads[r] EXCEPT !.at = x]]
    PROVE  /\ uploads' \in [Uploads -> Upload \cup {None}] /\ uploads'[r] # None
           /\ uploads'[r].at = x /\ uploads'[r].sha = uploads[r].sha
           /\ uploads'[r].whole = uploads[r].whole /\ uploads'[r].todo = uploads[r].todo
           /\ \A s \in Uploads \ {r} : uploads'[s] = uploads[s]
<1> DEFINE up == uploads[r]
           next == [up EXCEPT !.at = x]
<1>1. up \in Upload
  BY DEF UploadsTyped
<1>2. /\ next \in Upload /\ next.at = x /\ next.sha = up.sha
      /\ next.whole = up.whole /\ next.todo = up.todo
  <2> HIDE DEF up
  <2> QED
    BY <1>1 DEF Upload
<1>3. uploads' = [uploads EXCEPT ![r] = next]
  OBVIOUS
<1> HIDE DEF next
<1>4. uploads'[r] = next /\ \A s \in Uploads \ {r} : uploads'[s] = uploads[s]
  BY <1>3 DEF UploadsTyped
<1> QED
  BY <1>2, <1>3, <1>4, NoneApart DEF UploadsTyped

\* A content is held by a version, or by a live node.
LEMMA HeldMeans ==
    ASSUME NodesTyped, NEW u, NEW b
    PROVE  b \in Held(u) <=>
             \E n \in Nodes : /\ OwnerOf[n] = u
                              /\ \/ b \in versions[n]
                                 \/ nodes[n] # None /\ nodes[n].live /\ nodes[n].sha = b
BY DEF Held, NamedLive, NamedInHistory, NodesTyped

-----------------------------------------------------------------------------
(* The types.                                                               *)

\* A row comes with a recorded upload alone, and goes with a sweep alone.
LEMMA RowsStep ==
    ASSUME RowsTyped, UploadsTyped, [Next]_vars
    PROVE  /\ RowsTyped'
           /\ ~Sweep => \A b \in Blobs : rows[b] # None => rows'[b] # None
           /\ (\A r \in Uploads : ~Record(r)) => \A b \in Blobs : rows'[b] # None => rows[b] # None
<1> DEFINE States == {None, "clear", "marked", "aged"}
           Goal == /\ rows' \in [Blobs -> States] /\ files' \subseteq Blobs
                   /\ ~Sweep => \A b \in Blobs : rows[b] # None => rows'[b] # None
                   /\ (\A r \in Uploads : ~Record(r)) =>
                         \A b \in Blobs : rows'[b] # None => rows[b] # None
<1>0. \A r \in Uploads : uploads[r] # None => uploads[r].sha \in Blobs
  BY DEF UploadsTyped, Upload
<1>1. ASSUME NEW r \in Uploads, Record(r)
      PROVE  Goal
  BY <1>0, <1>1, NoneApart DEF Record, RowsTyped
<1>2. ASSUME NEW b \in Blobs, MarkAges(b)
      PROVE  Goal
  BY <1>2, NoneApart DEF MarkAges, RowsTyped
<1>3. ASSUME DropSpentAndMark
      PROVE  Goal
  <2>1. PICK referenced : rows' = Remarked(referenced)
    BY <1>3 DEF DropSpentAndMark
  <2>2. \A b \in Blobs : /\ rows'[b] \in States
                         /\ rows'[b] = None <=> rows[b] = None
    <3> SUFFICES ASSUME NEW b \in Blobs
                 PROVE  rows'[b] \in States /\ (rows'[b] = None <=> rows[b] = None)
      OBVIOUS
    <3>1. rows'[b] = CASE rows[b] # None /\ b \in referenced       -> "clear"
                       [] rows[b] = "clear" /\ b \notin referenced -> "marked"
                       [] OTHER                                    -> rows[b]
      BY <2>1 DEF Remarked
    <3>2. rows[b] # None /\ b \in referenced => rows'[b] = "clear"
      BY <3>1
    <3>3. rows[b] = "clear" /\ b \notin referenced => rows'[b] = "marked"
      BY <3>1
    <3>4. rows[b] = None \/ (rows[b] # "clear" /\ b \notin referenced) => rows'[b] = rows[b]
      BY <3>1, NoneApart
    <3> QED
      BY <3>2, <3>3, <3>4, NoneApart DEF RowsTyped
  <2>3. rows' \in [Blobs -> States]
    BY <2>1, <2>2 DEF Remarked
  <2> QED
    BY <1>3, <2>2, <2>3 DEF DropSpentAndMark, RowsTyped
<1>4. ASSUME Sweep
      PROVE  Goal
  <2>1. rows' \in [Blobs -> States] /\ \A b \in Blobs : rows'[b] # None => rows[b] # None
    BY <1>4 DEF Sweep, RowsTyped
  <2> QED
    BY <1>4, <2>1 DEF Sweep, RowsTyped
<1>5. ASSUME UNCHANGED rows, files' \subseteq Blobs
      PROVE  Goal
  BY <1>5 DEF RowsTyped
<1>6. ASSUME NEW r \in Uploads, Store(r) \/ RefuseSize(r)
      PROVE  Goal
  BY <1>0, <1>5, <1>6 DEF Store, RefuseSize, NoRowWritten, RowsTyped
<1>7. ASSUME NEW b \in Blobs, Unlink(b)
      PROVE  Goal
  BY <1>5, <1>7 DEF Unlink, RowsTyped
<1>8. [Next]_vars =>
        \/ \E r \in Uploads : Record(r) \/ Store(r) \/ RefuseSize(r)
        \/ \E b \in Blobs : MarkAges(b) \/ Unlink(b)
        \/ DropSpentAndMark \/ Sweep
        \/ UNCHANGED <<rows, files>>
  BY DEF Next, Clients, Time, Collect, Faults, BeginWhole, BeginInParts, Begin, Abandon,
         StagePart, Complete, FailComplete, DiscardStaging, Bind, Receive, RestoreNode, Written,
         DeleteNode, PurgeTrash, ClaimAges, StartPass, DropUnbound, ClearStale, SeeSpent,
         Recheck, FailToUnlink, EndPass, FailPass, Crash, NoRowWritten, vars
<1>9. UNCHANGED <<rows, files>> => Goal
  BY <1>5 DEF RowsTyped
<1> HIDE DEF Goal
<1>10. Goal
  BY <1>1, <1>2, <1>3, <1>4, <1>6, <1>7, <1>8, <1>9
<1> QED
  BY <1>10 DEF Goal, RowsTyped

LEMMA NodesStep ==
    ASSUME NodesTyped, [Next]_vars
    PROVE  NodesTyped'
<1>1. ASSUME NEW n \in Nodes, NEW b \in Blobs, Written(n, b)
      PROVE  NodesTyped'
  BY <1>1 DEF Written, NodesTyped, Node
<1>2. ASSUME NEW n \in Nodes, DeleteNode(n)
      PROVE  NodesTyped'
  BY <1>2 DEF DeleteNode, NodesTyped, Node
<1>3. ASSUME NEW n \in Nodes, PurgeTrash(n)
      PROVE  NodesTyped'
  BY <1>3 DEF PurgeTrash, NodesTyped
<1>4. ASSUME StartPass
      PROVE  NodesTyped'
  BY <1>4 DEF StartPass, NodesTyped
<1>5. [Next]_vars =>
        \/ \E n \in Nodes, b \in Blobs : Written(n, b)
        \/ \E n \in Nodes : DeleteNode(n) \/ PurgeTrash(n)
        \/ StartPass \/ UNCHANGED <<nodes, versions>>
  BY DEF Next, Clients, Time, Collect, Faults, BeginWhole, BeginInParts, Begin, Store, RefuseSize,
         Record, Abandon, StagePart, Complete, FailComplete, DiscardStaging, Bind, Receive,
         RestoreNode, MarkAges, ClaimAges, DropUnbound, ClearStale, SeeSpent, DropSpentAndMark,
         Sweep, Recheck, Unlink, FailToUnlink, EndPass, FailPass, Crash, NoRowWritten, vars
<1>6. UNCHANGED <<nodes, versions>> => NodesTyped'
  BY DEF NodesTyped
<1> QED
  BY <1>1, <1>2, <1>3, <1>4, <1>5, <1>6

LEMMA PassStep ==
    ASSUME PassTyped, [Next]_vars
    PROVE  PassTyped'
<1>1. Spent \subseteq Users \X Blobs
  BY DEF Spent
<1>2. ASSUME UNCHANGED faults, pass' \in Passes, spent' \subseteq Users \X Blobs,
             doomed' \subseteq Blobs
      PROVE  PassTyped'
  BY <1>2 DEF PassTyped
<1>3. Collect => PassTyped'
  BY <1>1, <1>2 DEF Collect, StartPass, DropUnbound, ClearStale, SeeSpent, DropSpentAndMark, Sweep,
         Recheck, Unlink, EndPass, PassTyped, Passes
<1>4. Faults => PassTyped'
  BY BoundsAreNaturals DEF Faults, FailPass, Crash, FailToUnlink, PassTyped, Passes
<1>5. Clients \/ Time \/ UNCHANGED vars => UNCHANGED <<pass, spent, doomed, faults>>
  BY DEF Clients, Time, BeginWhole, BeginInParts, Begin, Store, RefuseSize, Record, Abandon,
         StagePart, Complete, FailComplete, DiscardStaging, Bind, Receive, RestoreNode, Written,
         DeleteNode, PurgeTrash, MarkAges, ClaimAges, NoRowWritten, vars
<1>6. UNCHANGED <<pass, spent, doomed, faults>> => PassTyped'
  BY DEF PassTyped
<1> QED
  BY <1>3, <1>4, <1>5, <1>6 DEF Next

LEMMA UploadsStep ==
    ASSUME UploadsTyped, [Next]_vars
    PROVE  UploadsTyped'
<1> DEFINE Typed == /\ uploads' \in [Uploads -> Upload \cup {None}]
                    /\ \A s \in Uploads : uploads'[s] # None /\ uploads'[s].whole =>
                         uploads'[s].at \in {"sending", "stored"} /\ uploads'[s].todo = {}
<1>0. \A s \in Uploads : /\ uploads[s] # None => uploads[s] \in Upload
                         /\ uploads[s] # None /\ uploads[s].whole =>
                              uploads[s].at \in {"sending", "stored"} /\ uploads[s].todo = {}
  BY DEF UploadsTyped
<1>1. ASSUME NEW r \in Uploads, uploads' = [uploads EXCEPT ![r] = None]
      PROVE  Typed
  BY <1>1 DEF UploadsTyped
<1>2. ASSUME NEW r \in Uploads, uploads[r] # None, NEW x \in Stages,
             uploads' = [uploads EXCEPT ![r] = [uploads[r] EXCEPT !.at = x]],
             uploads[r].whole => x \in {"sending", "stored"}
      PROVE  Typed
  BY <1>0, <1>2, UploadAt
<1>3. ASSUME UNCHANGED uploads
      PROVE  Typed
  BY <1>3 DEF UploadsTyped
<1>4. ASSUME NEW r \in Uploads, Settled(r), uploads[r] # None
      PROVE  Typed
  <2>1. CASE InParts(r)
    <3>1. uploads' = [uploads EXCEPT ![r] = [uploads[r] EXCEPT !.at = "ending"]]
      BY <1>4, <2>1 DEF Settled
    <3>2. ~uploads[r].whole /\ "ending" \in Stages
      BY <2>1 DEF InParts, Stages
    <3> QED
      BY <1>2, <1>4, <3>1, <3>2
  <2>2. CASE ~InParts(r)
    BY <1>1, <1>4, <2>2 DEF Settled
  <2> QED
    BY <2>1, <2>2
<1>5. ASSUME NEW r \in Uploads, NEW u \in Users, NEW b \in Blobs, NEW whole \in BOOLEAN,
             NEW todo \in SUBSET Parts, Begin(r, u, b, whole, todo), whole => todo = {}
      PROVE  Typed
  <2> DEFINE up == [user |-> u, sha |-> b, whole |-> whole, at |-> "sending", todo |-> todo]
  <2>1. up \in Upload /\ (up.whole => up.at = "sending" /\ up.todo = {})
    BY <1>5 DEF Upload, Stages
  <2>2. uploads' = [uploads EXCEPT ![r] = up]
    BY <1>5 DEF Begin
  <2> HIDE DEF up
  <2> QED
    BY <2>1, <2>2 DEF UploadsTyped
<1>6. ASSUME NEW r \in Uploads, NEW u \in Users, NEW b \in Blobs,
             BeginWhole(r, u, b) \/ BeginInParts(r, u, b)
      PROVE  Typed /\ UNCHANGED staged
  <2>1. TRUE \in BOOLEAN /\ FALSE \in BOOLEAN /\ {} \in SUBSET Parts
        /\ Parts \ staged[<<u, b>>] \in SUBSET Parts
    OBVIOUS
  <2>2. CASE BeginWhole(r, u, b)
    BY <1>5, <2>1, <2>2 DEF BeginWhole, Begin
  <2>3. CASE BeginInParts(r, u, b)
    BY <1>5, <2>1, <2>3 DEF BeginInParts, Begin
  <2> QED
    BY <1>6, <2>2, <2>3
<1>7. ASSUME NEW r \in Uploads, Store(r)
      PROVE  Typed /\ UNCHANGED staged
  <2>1. "stored" \in Stages
    BY DEF Stages
  <2> QED
    BY <1>2, <1>7, <2>1 DEF Store
<1>8. ASSUME NEW r \in Uploads, RefuseSize(r) \/ Record(r) \/ FailComplete(r)
      PROVE  Typed /\ UNCHANGED staged
  BY <1>4, <1>8 DEF RefuseSize, Record, FailComplete, InParts
<1>9. ASSUME NEW r \in Uploads, Abandon(r)
      PROVE  Typed /\ UNCHANGED staged
  BY <1>1, <1>9 DEF Abandon, Ended
<1>10. ASSUME NEW r \in Uploads, StagePart(r)
       PROVE  Typed /\ staged' \in [Users \X Blobs -> SUBSET Parts]
  <2>1. PICK part \in uploads[r].todo :
          /\ uploads' = [uploads EXCEPT ![r] = [uploads[r] EXCEPT !.todo = @ \ {part}]]
          /\ Landed(<<uploads[r].user, uploads[r].sha>>, part)
    BY <1>10 DEF StagePart
  <2> DEFINE up == uploads[r]
             todo == uploads[r].todo \ {part}
  <2>2. up \in Upload /\ ~up.whole /\ todo \in SUBSET Parts /\ part \in Parts
    BY <1>0, <1>10 DEF StagePart, InParts, Upload
  <2>3. [up EXCEPT !.todo = todo] \in Upload /\ ~[up EXCEPT !.todo = todo].whole
    <3> HIDE DEF up, todo
    <3> QED
      BY <2>2 DEF Upload
  <2>4. Typed
    <3> DEFINE next == [up EXCEPT !.todo = todo]
    <3>1. uploads' = [uploads EXCEPT ![r] = next]
      BY <2>1
    <3> HIDE DEF next
    <3> QED
      BY <2>3, <3>1 DEF UploadsTyped, next
  <2>5. staged' \in [Users \X Blobs -> SUBSET Parts]
    BY <2>1, <2>2 DEF Landed, UploadsTyped
  <2> QED
    BY <2>4, <2>5
<1>11. ASSUME NEW r \in Uploads, Complete(r)
       PROVE  Typed /\ UNCHANGED staged
  <2>1. uploads[r] # None /\ ~uploads[r].whole /\ "assembling" \in Stages /\ UNCHANGED staged
    BY <1>11 DEF Complete, InParts, Stages
  <2>2. CASE Whole(r)
    <3>1. uploads' = [uploads EXCEPT ![r] = [uploads[r] EXCEPT !.at = "assembling"]]
      BY <1>11, <2>2 DEF Complete
    <3> QED
      BY <1>2, <2>1, <3>1
  <2>3. CASE ~Whole(r)
    BY <1>1, <1>11, <2>1, <2>3 DEF Complete
  <2> QED
    BY <2>2, <2>3
<1>12. ASSUME NEW r \in Uploads, DiscardStaging(r)
       PROVE  Typed /\ staged' \in [Users \X Blobs -> SUBSET Parts]
  BY <1>1, <1>12 DEF DiscardStaging, Ended, UploadsTyped
<1>13. ASSUME Crash
       PROVE  Typed /\ UNCHANGED staged
  BY <1>13 DEF Crash
<1>14. ASSUME EndPass
       PROVE  Typed /\ staged' \in [Users \X Blobs -> SUBSET Parts]
  BY <1>3, <1>14 DEF EndPass, UploadsTyped
<1>15. [Next]_vars =>
        \/ \E r \in Uploads, u \in Users, b \in Blobs : BeginWhole(r, u, b) \/ BeginInParts(r, u, b)
        \/ \E r \in Uploads : \/ Store(r) \/ RefuseSize(r) \/ Record(r) \/ Abandon(r)
                              \/ StagePart(r) \/ Complete(r) \/ FailComplete(r)
                              \/ DiscardStaging(r)
        \/ Crash \/ EndPass \/ UNCHANGED <<uploads, staged>>
  BY DEF Next, Clients, Time, Collect, Faults, Bind, Receive, RestoreNode, Written, DeleteNode,
         PurgeTrash, MarkAges, ClaimAges, StartPass, DropUnbound, ClearStale, SeeSpent,
         DropSpentAndMark, Sweep, Recheck, Unlink, FailToUnlink, FailPass, vars
<1>16. Typed /\ staged' \in [Users \X Blobs -> SUBSET Parts] => UploadsTyped'
  BY DEF UploadsTyped
<1>17. UNCHANGED staged => staged' \in [Users \X Blobs -> SUBSET Parts]
  BY DEF UploadsTyped
<1> HIDE DEF Typed
<1> QED
  BY <1>3, <1>6, <1>7, <1>8, <1>9, <1>10, <1>11, <1>12, <1>13, <1>14, <1>15, <1>16, <1>17

\* The writes of a claim, one by one.
LEMMA BindStep ==
    ASSUME RowsTyped, ClaimsTyped, NodesTyped, NEW n \in Nodes, NEW b \in Blobs,
           Bind(n, b) \/ Receive(n, b) \/ RestoreNode(n, b)
    PROVE  /\ ClaimsTyped' /\ claims'[<<OwnerOf[n], b>>] # None /\ claims'[<<OwnerOf[n], b>>].own
           /\ \A v \in Users, x \in Blobs : <<v, x>> # <<OwnerOf[n], b>> =>
                claims'[<<v, x>>] = claims[<<v, x>>]
<1> DEFINE u == OwnerOf[n]
           old == ClaimOf(u, b)
<1>1. u \in Users
  BY OwnerOfIsAFunction
<1>2. old \in Claim /\ (old.since = None <=> old.pending = 0)
  BY <1>1, ClaimOfTyped
<1>3. /\ Bound(old) \in Claim /\ Sound(Bound(old)) /\ Bound(old).own
      /\ Claimed(old) \in Claim /\ Sound(Claimed(old)) /\ Claimed(old).own
  BY <1>2, ClaimWrites
<1>4. UNCHANGED rows /\ rows[b] # None
      /\ (claims' = With(u, b, Bound(old)) \/ claims' = With(u, b, Claimed(old)))
  BY DEF Bind, Receive, RestoreNode, Written
<1>5. rows' \in [Blobs -> {None, "clear", "marked", "aged"}] /\ rows'[b] # None
      /\ \A x \in Blobs : rows[x] # None => rows'[x] # None
  BY <1>4 DEF RowsTyped
<1> HIDE DEF u, old
<1>6. ASSUME NEW claim \in Claim, Sound(claim), claim.own, claims' = With(u, b, claim)
      PROVE  /\ ClaimsTyped' /\ claims'[<<u, b>>] # None /\ claims'[<<u, b>>].own
             /\ \A v \in Users, x \in Blobs : <<v, x>> # <<u, b>> =>
                  claims'[<<v, x>>] = claims[<<v, x>>]
  <2>1. /\ ClaimsTyped' /\ claims'[<<u, b>>] = claim
        /\ \A v \in Users, x \in Blobs : <<v, x>> # <<u, b>> =>
             claims'[<<v, x>>] = claims[<<v, x>>]
    BY <1>1, <1>5, <1>6, WithOne
  <2> QED
    BY <1>6, <2>1, NoneApart
<1>7. CASE claims' = With(u, b, Bound(old))
  BY <1>3, <1>6, <1>7 DEF u
<1>8. CASE claims' = With(u, b, Claimed(old))
  BY <1>3, <1>6, <1>8 DEF u
<1> QED
  BY <1>4, <1>7, <1>8

LEMMA RecordStep ==
    ASSUME RowsTyped, ClaimsTyped, UploadsTyped, NEW r \in Uploads, Record(r)
    PROVE  /\ ClaimsTyped'
           /\ \A v \in Users, x \in Blobs :
                claims[<<v, x>>] # None /\ claims[<<v, x>>].own =>
                  claims'[<<v, x>>] # None /\ claims'[<<v, x>>].own
<1> DEFINE u == uploads[r].user
           b == uploads[r].sha
           old == ClaimOf(u, b)
           new == Reserved(old)
<1>1. u \in Users /\ b \in Blobs
  BY DEF Record, UploadsTyped, Upload
<1>2. /\ old \in Claim /\ (old.since = None <=> old.pending = 0)
      /\ claims[<<u, b>>] # None => old = claims[<<u, b>>]
  BY <1>1, ClaimOfTyped
<1>3. /\ old.pending < MaxPending /\ claims' = With(u, b, new)
      /\ rows' = [rows EXCEPT ![b] = IF @ = None THEN "clear" ELSE @]
  BY DEF Record
<1>4. new \in Claim /\ Sound(new) /\ new.own = old.own
  BY <1>2, <1>3, ClaimWrites
<1>5. rows' \in [Blobs -> {None, "clear", "marked", "aged"}] /\ rows'[b] # None
      /\ \A x \in Blobs : rows[x] # None => rows'[x] # None
  BY <1>1, <1>3, NoneApart DEF RowsTyped
<1> HIDE DEF u, b, old, new
<1>6. /\ ClaimsTyped' /\ claims'[<<u, b>>] = new
      /\ \A v \in Users, x \in Blobs : <<v, x>> # <<u, b>> =>
           claims'[<<v, x>>] = claims[<<v, x>>]
  BY <1>1, <1>3, <1>4, <1>5, WithOne
<1>7. ASSUME NEW v \in Users, NEW x \in Blobs, claims[<<v, x>>] # None, claims[<<v, x>>].own
      PROVE  claims'[<<v, x>>] # None /\ claims'[<<v, x>>].own
  <2>1. CASE <<v, x>> = <<u, b>>
    BY <1>2, <1>4, <1>6, <1>7, <2>1, NoneApart
  <2>2. CASE <<v, x>> # <<u, b>>
    BY <1>6, <1>7, <2>2
  <2> QED
    BY <2>1, <2>2
<1> QED
  BY <1>6, <1>7

\* Time and the pass: what is bound is not taken for a reservation.
LEMMA AgesStep ==
    ASSUME RowsTyped, ClaimsTyped,
           \/ \E u \in Users, b \in Blobs : ClaimAges(u, b)
           \/ DropUnbound \/ ClearStale
    PROVE  /\ ClaimsTyped'
           /\ \A v \in Users, x \in Blobs :
                claims[<<v, x>>] # None /\ claims[<<v, x>>].own =>
                  claims'[<<v, x>>] # None /\ claims'[<<v, x>>].own
<1> DEFINE Keeps == \A v \in Users, x \in Blobs :
                      claims[<<v, x>>] # None /\ claims[<<v, x>>].own =>
                        claims'[<<v, x>>] # None /\ claims'[<<v, x>>].own
<1>0. UNCHANGED rows
  BY DEF ClaimAges, DropUnbound, ClearStale
<1>1. ASSUME NEW u \in Users, NEW b \in Blobs, ClaimAges(u, b)
      PROVE  ClaimsTyped' /\ Keeps
  <2> DEFINE old == claims[<<u, b>>]
             new == [old EXCEPT !.since = "stale"]
  <2>1. old \in Claim /\ Sound(old) /\ rows[b] # None /\ old.since = "fresh"
    BY <1>1 DEF ClaimAges, ClaimsTyped
  <2>2. new \in Claim /\ Sound(new) /\ new.own = old.own
    <3>1. old.pending # 0
      BY <2>1, NoneApart DEF Sound
    <3> HIDE DEF old
    <3> QED
      BY <2>1, <3>1, NoneApart DEF Claim, Sound
  <2>3. claims' = With(u, b, new)
    BY <1>1 DEF ClaimAges, With
  <2>4. rows' \in [Blobs -> {None, "clear", "marked", "aged"}] /\ rows'[b] # None
        /\ \A x \in Blobs : rows[x] # None => rows'[x] # None
    BY <1>0, <2>1 DEF RowsTyped
  <2> HIDE DEF new
  <2>5. /\ ClaimsTyped' /\ claims'[<<u, b>>] = new
        /\ \A v \in Users, x \in Blobs : <<v, x>> # <<u, b>> =>
             claims'[<<v, x>>] = claims[<<v, x>>]
    BY <2>2, <2>3, <2>4, WithOne
  <2>6. ASSUME NEW v \in Users, NEW x \in Blobs, claims[<<v, x>>] # None, claims[<<v, x>>].own
        PROVE  claims'[<<v, x>>] # None /\ claims'[<<v, x>>].own
    <3>1. CASE <<v, x>> = <<u, b>>
      BY <2>2, <2>5, <2>6, <3>1, NoneApart
    <3>2. CASE <<v, x>> # <<u, b>>
      BY <2>5, <2>6, <3>2
    <3> QED
      BY <3>1, <3>2
  <2> QED
    BY <2>5, <2>6
<1>2. ASSUME DropUnbound
      PROVE  ClaimsTyped' /\ Keeps
  <2> DEFINE gone == {c \in Users \X Blobs : claims[c] # None
                          /\ ~claims[c].own /\ claims[c].since = "stale"}
  <2>1. claims' = Without(gone)
    BY <1>2 DEF DropUnbound
  <2>2. \A v \in Users, x \in Blobs : claims[<<v, x>>].own => <<v, x>> \notin gone
    OBVIOUS
  <2> HIDE DEF gone
  <2>3. ClaimsTyped' /\ \A v \in Users, x \in Blobs :
           claims'[<<v, x>>] = IF <<v, x>> \in gone THEN None ELSE claims[<<v, x>>]
    BY <1>0, <2>1, WithoutSome
  <2> QED
    BY <2>2, <2>3
<1>3. ASSUME ClearStale
      PROVE  ClaimsTyped' /\ Keeps
  <2> DEFINE bound == [own |-> TRUE, pending |-> 0, since |-> None]
  <2>1. bound \in Claim /\ Sound(bound) /\ bound.own /\ bound # None
    <3>1. bound \in Claim
      BY BoundsAreNaturals DEF Claim
    <3>2. Sound(bound) /\ bound.own
      BY DEF Sound
    <3> HIDE DEF bound
    <3> QED
      BY <3>1, <3>2, NoneApart
  <2> HIDE DEF bound
  <2>2. claims' = [c \in Users \X Blobs |->
                     IF claims[c] # None /\ claims[c].own /\ claims[c].since = "stale"
                     THEN bound ELSE claims[c]]
    BY <1>3 DEF ClearStale, bound
  <2>3. claims' \in [Users \X Blobs -> Claim \cup {None}]
    BY <2>1, <2>2 DEF ClaimsTyped
  <2>4. \A v \in Users, x \in Blobs :
          \/ claims'[<<v, x>>] = bound /\ claims[<<v, x>>] # None
          \/ claims'[<<v, x>>] = claims[<<v, x>>]
    BY <2>2
  <2>5. ClaimsTyped'
    BY <1>0, <2>1, <2>3, <2>4 DEF ClaimsTyped, Sound
  <2> QED
    BY <2>1, <2>4, <2>5
<1> QED
  BY <1>1, <1>2, <1>3

\* What PurgeTrash and the pass's DELETE drop of the claims.
PurgedOf(n) ==
  LET u == OwnerOf[n]
      held == NamedLive(u) \cup UNION {versions[m] : m \in {k \in Nodes \ {n} : OwnerOf[k] = u}}
  IN  {<<u, b>> : b \in {x \in Blobs \ held :
         claims[<<u, x>>] # None /\ claims[<<u, x>>].pending = 0}}
DroppedNow == {c \in spent : claims[c] # None /\ claims[c].pending = 0}

LEMMA DropsStep ==
    ASSUME RowsTyped, ClaimsTyped
    PROVE  /\ \A n \in Nodes : PurgeTrash(n) => ClaimsTyped' /\ claims' = Without(PurgedOf(n))
           /\ DropSpentAndMark => ClaimsTyped' /\ claims' = Without(DroppedNow)
<1>1. ASSUME NEW n \in Nodes, PurgeTrash(n)
      PROVE  ClaimsTyped' /\ claims' = Without(PurgedOf(n))
  <2>1. claims' = Without(PurgedOf(n)) /\ UNCHANGED rows
    BY <1>1 DEF PurgeTrash, PurgedOf
  <2> QED
    BY <2>1, WithoutSome
<1>2. ASSUME DropSpentAndMark
      PROVE  ClaimsTyped' /\ claims' = Without(DroppedNow)
  <2>1. claims' = Without(DroppedNow)
    BY <1>2 DEF DropSpentAndMark, DroppedNow
  <2>2. \A u \in Users, b \in Blobs :
          claims'[<<u, b>>] = IF <<u, b>> \in DroppedNow THEN None ELSE claims[<<u, b>>]
    BY <2>1 DEF Without
  <2>3. claims' \in [Users \X Blobs -> Claim \cup {None}]
    BY <2>1 DEF Without, ClaimsTyped
  <2>4. PICK referenced : rows' = Remarked(referenced)
    BY <1>2 DEF DropSpentAndMark
  <2>5. ASSUME NEW b \in Blobs, rows[b] # None
        PROVE  rows'[b] # None
    <3>1. rows'[b] = CASE rows[b] # None /\ b \in referenced       -> "clear"
                       [] rows[b] = "clear" /\ b \notin referenced -> "marked"
                       [] OTHER                                    -> rows[b]
      BY <2>4 DEF Remarked
    <3>2. b \in referenced => rows'[b] = "clear"
      BY <2>5, <3>1
    <3>3. rows[b] = "clear" /\ b \notin referenced => rows'[b] = "marked"
      BY <3>1
    <3>4. rows[b] # "clear" /\ b \notin referenced => rows'[b] = rows[b]
      BY <3>1
    <3> QED
      BY <2>5, <3>2, <3>3, <3>4, NoneApart
  <2>6. ClaimsTyped'
    BY <2>2, <2>3, <2>5 DEF ClaimsTyped, Sound
  <2> QED
    BY <2>1, <2>6
<1> QED
  BY <1>1, <1>2

\* Everything else leaves the claims alone, a swept row having had none.
LEMMA ClaimsElsewhere ==
    ASSUME [Next]_vars
    PROVE  \/ \E n \in Nodes, b \in Blobs : Bind(n, b) \/ Receive(n, b) \/ RestoreNode(n, b)
           \/ \E r \in Uploads : Record(r)
           \/ (\E u \in Users, b \in Blobs : ClaimAges(u, b)) \/ DropUnbound \/ ClearStale
           \/ \E n \in Nodes : PurgeTrash(n)
           \/ DropSpentAndMark
           \/ UNCHANGED claims
BY DEF Next, Clients, Time, Collect, Faults, BeginWhole, BeginInParts, Begin, Store, RefuseSize,
       Abandon, StagePart, Complete, FailComplete, DiscardStaging, DeleteNode, MarkAges,
       StartPass, SeeSpent, Sweep, Recheck, Unlink, FailToUnlink, EndPass, FailPass, Crash,
       NoRowWritten, vars

LEMMA ClaimsStep ==
    ASSUME RowsTyped, ClaimsTyped, NodesTyped, UploadsTyped, [Next]_vars
    PROVE  ClaimsTyped'
<1>1. CASE UNCHANGED claims /\ ~Sweep
  <2>1. \A b \in Blobs : rows[b] # None => rows'[b] # None
    BY <1>1, RowsStep
  <2> QED
    BY <1>1, <2>1 DEF ClaimsTyped, Sound
<1>2. CASE Sweep
  <2>1. UNCHANGED claims
        /\ \A b \in Blobs : rows'[b] = IF rows[b] = "aged" /\ ~Referenced(b) THEN None ELSE rows[b]
    BY <1>2 DEF Sweep
  <2>2. \A u \in Users, b \in Blobs : claims[<<u, b>>] # None => Referenced(b)
    BY DEF Referenced
  <2> QED
    BY <2>1, <2>2 DEF ClaimsTyped, Sound
<1> QED
  BY <1>1, <1>2, ClaimsElsewhere, BindStep, RecordStep, AgesStep, DropsStep

LEMMA InitTypes == Init => TypeOK
BY BoundsAreNaturals DEF Init, TypeOK, Passes

LEMMA NextTypes == TypeOK /\ [Next]_vars => TypeOK'
<1> SUFFICES ASSUME TypeOK, [Next]_vars PROVE TypeOK'
  OBVIOUS
<1>1. RowsTyped /\ ClaimsTyped /\ NodesTyped /\ UploadsTyped /\ PassTyped
  BY TypeParts
<1>2. RowsTyped' /\ ClaimsTyped' /\ NodesTyped' /\ UploadsTyped' /\ PassTyped'
  BY <1>1, RowsStep, ClaimsStep, NodesStep, UploadsStep, PassStep
<1>3. \A c \in Users \X Blobs : claims'[c] # None =>
        /\ claims'[c].own \/ claims'[c].pending > 0
        /\ claims'[c].since = None <=> claims'[c].pending = 0
        /\ rows'[c[2]] # None
  BY <1>2 DEF ClaimsTyped, Sound
<1> QED
  BY <1>2, <1>3 DEF TypeOK, RowsTyped, ClaimsTyped, NodesTyped, UploadsTyped, PassTyped

\* The shape of the state; no claim is due to nothing, only a reservation has
\* an age, and no claim is on a content that is not recorded.
THEOREM TypeCorrect == Spec => []TypeOK
BY InitTypes, NextTypes, PTL DEF Spec

-----------------------------------------------------------------------------
(* What is kept is claimed.                                                 *)

Kept(u, b) == \E n \in Nodes : /\ OwnerOf[n] = u
                               /\ \/ b \in versions[n]
                                  \/ nodes[n] # None /\ nodes[n].live /\ nodes[n].sha = b

Owns(u, b) == claims[<<u, b>>] # None /\ claims[<<u, b>>].own

LEMMA KeptIsHeld ==
    ASSUME NodesTyped, NEW u, NEW b
    PROVE  b \in Held(u) <=> Kept(u, b)
BY HeldMeans DEF Kept

LEMMA KeptIsContent ==
    ASSUME NodesTyped, NEW u, NEW b, Kept(u, b)
    PROVE  u \in Users /\ b \in Blobs
BY OwnerOfIsAFunction DEF Kept, NodesTyped, Node

\* Only a write of content makes an account keep more than it did.
LEMMA KeptGrows ==
    ASSUME NodesTyped, [Next]_vars, NEW u, NEW b, Kept(u, b)'
    PROVE  \/ Kept(u, b)
           \/ \E n \in Nodes : /\ OwnerOf[n] = u
                               /\ Bind(n, b) \/ Receive(n, b) \/ RestoreNode(n, b)
<1>1. PICK n \in Nodes : /\ OwnerOf[n] = u
                         /\ \/ b \in versions'[n]
                            \/ nodes'[n] # None /\ nodes'[n].live /\ nodes'[n].sha = b
  BY DEF Kept
<1>2. ASSUME b \in versions'[n] => b \in versions[n],
             nodes'[n] # None /\ nodes'[n].live => nodes'[n] = nodes[n]
      PROVE  Kept(u, b)
  BY <1>1, <1>2 DEF Kept
<1>3. ASSUME NEW m \in Nodes, NEW x \in Blobs, Bind(m, x) \/ Receive(m, x) \/ RestoreNode(m, x)
      PROVE  \/ Kept(u, b)
             \/ OwnerOf[m] = u /\ (Bind(m, b) \/ Receive(m, b) \/ RestoreNode(m, b))
  <2>1. /\ nodes' = [nodes EXCEPT ![m] = [sha |-> x, live |-> TRUE]]
        /\ versions' = [versions EXCEPT ![m] = @ \cup {x}]
    BY <1>3 DEF Bind, Receive, RestoreNode, Written
  <2>2. CASE n # m
    BY <1>2, <2>1, <2>2 DEF NodesTyped
  <2>3. CASE n = m /\ x = b
    BY <1>1, <1>3, <2>3
  <2>4. CASE n = m /\ x # b
    <3>1. nodes'[n] = [sha |-> x, live |-> TRUE] /\ versions'[n] = versions[n] \cup {x}
      BY <2>1, <2>4 DEF NodesTyped
    <3>2. b \in versions[n]
      BY <1>1, <2>4, <3>1
    <3> QED
      BY <1>1, <3>2 DEF Kept
  <2> QED
    BY <2>2, <2>3, <2>4
<1>4. ASSUME NEW m \in Nodes, DeleteNode(m)
      PROVE  Kept(u, b)
  <2>1. nodes[m] \in Node /\ nodes' = [nodes EXCEPT ![m].live = FALSE] /\ UNCHANGED versions
    BY <1>4 DEF DeleteNode, NodesTyped
  <2>2. ~nodes'[m].live /\ \A k \in Nodes \ {m} : nodes'[k] = nodes[k]
    BY <2>1 DEF NodesTyped, Node
  <2> QED
    BY <1>2, <2>1, <2>2
<1>5. ASSUME NEW m \in Nodes, PurgeTrash(m)
      PROVE  Kept(u, b)
  <2>1. nodes' = [nodes EXCEPT ![m] = None] /\ versions' = [versions EXCEPT ![m] = {}]
    BY <1>5 DEF PurgeTrash
  <2> QED
    BY <1>2, <2>1 DEF NodesTyped
<1>6. ASSUME StartPass
      PROVE  Kept(u, b)
  <2>1. /\ versions'[n] \subseteq versions[n]
        /\ nodes'[n] # None => nodes'[n] = nodes[n]
    BY <1>6 DEF StartPass, Thinned
  <2> QED
    BY <1>2, <2>1
<1>7. \/ \E m \in Nodes, x \in Blobs : Bind(m, x) \/ Receive(m, x) \/ RestoreNode(m, x)
      \/ \E m \in Nodes : DeleteNode(m) \/ PurgeTrash(m)
      \/ StartPass \/ UNCHANGED <<nodes, versions>>
  BY DEF Next, Clients, Time, Collect, Faults, BeginWhole, BeginInParts, Begin, Store, RefuseSize,
         Record, Abandon, StagePart, Complete, FailComplete, DiscardStaging,
         MarkAges, ClaimAges, DropUnbound, ClearStale, SeeSpent, DropSpentAndMark,
         Sweep, Recheck, Unlink, FailToUnlink, EndPass, FailPass, Crash, NoRowWritten, vars
<1>8. UNCHANGED <<nodes, versions>> => Kept(u, b)
  BY <1>2
<1> QED
  BY <1>3, <1>4, <1>5, <1>6, <1>7, <1>8

\* A bound claim is dropped only where nothing its account keeps needs it.
LEMMA OwnedGoes ==
    ASSUME RowsTyped, ClaimsTyped, NodesTyped, UploadsTyped, PassTyped, SpentIsUnheld,
           [Next]_vars, NEW u \in Users, NEW b \in Blobs, Owns(u, b), ~Owns(u, b)'
    PROVE  \/ \E n \in Nodes : PurgeTrash(n) /\ <<u, b>> \in PurgedOf(n)
           \/ DropSpentAndMark /\ ~Kept(u, b)
<1>1. ~UNCHANGED claims
  BY DEF Owns
<1>2. ASSUME NEW n \in Nodes, NEW x \in Blobs, Bind(n, x) \/ Receive(n, x) \/ RestoreNode(n, x)
      PROVE  FALSE
  <2>1. /\ claims'[<<OwnerOf[n], x>>] # None /\ claims'[<<OwnerOf[n], x>>].own
        /\ \A v \in Users, y \in Blobs : <<v, y>> # <<OwnerOf[n], x>> =>
             claims'[<<v, y>>] = claims[<<v, y>>]
    BY <1>2, BindStep
  <2>2. CASE <<u, b>> = <<OwnerOf[n], x>>
    BY <2>1, <2>2 DEF Owns
  <2>3. CASE <<u, b>> # <<OwnerOf[n], x>>
    BY <2>1, <2>3 DEF Owns
  <2> QED
    BY <2>2, <2>3
<1>3. ~\E r \in Uploads : Record(r)
  BY RecordStep DEF Owns
<1>4. ~((\E v \in Users, x \in Blobs : ClaimAges(v, x)) \/ DropUnbound \/ ClearStale)
  BY AgesStep DEF Owns
<1>5. ASSUME NEW n \in Nodes, PurgeTrash(n)
      PROVE  <<u, b>> \in PurgedOf(n)
  <2>1. claims' = Without(PurgedOf(n))
    BY <1>5, DropsStep
  <2> QED
    BY <2>1 DEF Without, Owns
<1>6. ASSUME DropSpentAndMark
      PROVE  ~Kept(u, b)
  <2>1. claims' = Without(DroppedNow) /\ pass = "dropping"
    BY <1>6, DropsStep DEF DropSpentAndMark
  <2>2. <<u, b>> \in spent
    BY <2>1 DEF Without, Owns, DroppedNow
  <2>3. b \notin Held(u)
    BY <2>1, <2>2 DEF SpentIsUnheld
  <2> QED
    BY <2>3, KeptIsHeld
<1> QED
  BY <1>1, <1>2, <1>3, <1>4, <1>5, <1>6, ClaimsElsewhere

LEMMA KeptIsClaimedStep ==
    ASSUME TypeOK, KeptIsClaimed, SpentIsUnheld, [Next]_vars
    PROVE  KeptIsClaimed'
<1>0. /\ RowsTyped /\ ClaimsTyped /\ NodesTyped /\ UploadsTyped /\ PassTyped /\ NodesTyped'
  BY TypeParts, NodesStep
<1> SUFFICES ASSUME NEW u \in Users, NEW b \in Held(u)'
             PROVE  Owns(u, b)'
  BY DEF KeptIsClaimed, Owns
<1>1. Kept(u, b)'
  <2>1. b \in Held(u)' <=> \E n \in Nodes :
          /\ OwnerOf[n] = u
          /\ b \in versions'[n] \/ (nodes'[n] # None /\ nodes'[n].live /\ nodes'[n].sha = b)
    BY <1>0 DEF Held, NamedLive, NamedInHistory, NodesTyped
  <2> QED
    BY <2>1 DEF Kept
<1>2. b \in Blobs
  BY <1>0, <1>1 DEF Kept, NodesTyped, Node
<1>3. ASSUME NEW n \in Nodes, OwnerOf[n] = u, Bind(n, b) \/ Receive(n, b) \/ RestoreNode(n, b)
      PROVE  Owns(u, b)'
  BY <1>0, <1>2, <1>3, BindStep DEF Owns
<1>4. ASSUME Kept(u, b), ~Owns(u, b)'
      PROVE  FALSE
  <2>1. Owns(u, b)
    BY <1>0, <1>4, KeptIsHeld DEF KeptIsClaimed, Owns
  <2>2. PICK n \in Nodes : PurgeTrash(n) /\ <<u, b>> \in PurgedOf(n)
    BY <1>0, <1>2, <1>4, <2>1, OwnedGoes
  <2>3. /\ OwnerOf[n] = u /\ b \notin NamedLive(u)
        /\ \A m \in Nodes \ {n} : OwnerOf[m] = u => b \notin versions[m]
    BY <2>2 DEF PurgedOf
  <2>4. /\ nodes' = [nodes EXCEPT ![n] = None] /\ versions' = [versions EXCEPT ![n] = {}]
    BY <2>2 DEF PurgeTrash
  <2>5. PICK m \in Nodes : /\ OwnerOf[m] = u
                           /\ \/ b \in versions'[m]
                              \/ nodes'[m] # None /\ nodes'[m].live /\ nodes'[m].sha = b
    BY <1>1 DEF Kept
  <2>6. m # n /\ versions'[m] = versions[m] /\ nodes'[m] = nodes[m]
    BY <1>0, <2>4, <2>5 DEF NodesTyped
  <2> QED
    BY <2>3, <2>5, <2>6 DEF NamedLive
<1> QED
  BY <1>0, <1>1, <1>3, <1>4, KeptGrows

\* While the DELETE runs nobody commits, so what it saw is so.
LEMMA SpentStep ==
    ASSUME TypeOK, SpentIsUnheld, ~Overlap, [Next]_vars
    PROVE  SpentIsUnheld'
<1>0. NodesTyped /\ NodesTyped' /\ PassTyped
  BY TypeParts, NodesStep
<1> SUFFICES ASSUME pass' = "dropping", NEW c \in spent'
             PROVE  c[2] \notin Held(c[1])'
  BY DEF SpentIsUnheld
<1>1. CASE SeeSpent
  <2>1. c[2] \notin Held(c[1])
    BY <1>1 DEF SeeSpent, Spent
  <2> QED
    BY <1>1, <2>1 DEF SeeSpent, Held, NamedLive, NamedInHistory
<1>2. CASE ~SeeSpent
  <2>1. pass = "dropping" /\ spent' = spent /\ UNCHANGED <<nodes, versions>>
    BY <1>2 DEF Next, Clients, Time, Collect, Faults, BeginWhole, BeginInParts, Begin, Store,
         RefuseSize, Record, Abandon, StagePart, Complete, FailComplete, DiscardStaging, Bind,
         Receive, RestoreNode, Written, DeleteNode, PurgeTrash, MarkAges, ClaimAges, StartPass,
         DropUnbound, ClearStale, DropSpentAndMark, Sweep, Recheck, Unlink, FailToUnlink,
         EndPass, FailPass, Crash, NoRowWritten, MayCommit, vars
  <2> QED
    BY <2>1 DEF SpentIsUnheld, Held, NamedLive, NamedInHistory
<1> QED
  BY <1>1, <1>2

-----------------------------------------------------------------------------
(* What is recorded has its file.                                           *)

\* What is doomed has no row by the time it is unlinked, and is given none.
LEMMA DoomedStep ==
    ASSUME TypeOK, DoomedIsUnrecorded, ~Window, [Next]_vars
    PROVE  DoomedIsUnrecorded'
<1>0. RowsTyped /\ UploadsTyped /\ PassTyped
  BY TypeParts
<1> SUFFICES ASSUME pass' = "unlink", NEW b \in doomed'
             PROVE  rows'[b] = None
  BY DEF DoomedIsUnrecorded
<1>1. CASE Recheck
  BY <1>1 DEF Recheck
<1>2. CASE ~Recheck
  <2>1. pass = "unlink" /\ b \in doomed
    BY <1>2 DEF Next, Clients, Time, Collect, Faults, BeginWhole, BeginInParts, Begin, Store,
         RefuseSize, Record, Abandon, StagePart, Complete, FailComplete, DiscardStaging, Bind,
         Receive, RestoreNode, Written, DeleteNode, PurgeTrash, MarkAges, ClaimAges, StartPass,
         DropUnbound, ClearStale, SeeSpent, DropSpentAndMark, Sweep, Unlink, FailToUnlink,
         EndPass, FailPass, Crash, NoRowWritten, vars
  <2>2. rows[b] = None /\ b \in Blobs
    BY <1>0, <2>1 DEF DoomedIsUnrecorded, PassTyped
  <2>3. ASSUME NEW r \in Uploads, Record(r)
        PROVE  rows'[b] = None
    <3>1. uploads[r].sha # b /\ rows' = [rows EXCEPT ![uploads[r].sha] =
                                             IF @ = None THEN "clear" ELSE @]
      BY <2>1, <2>3 DEF Record
    <3> QED
      BY <2>2, <3>1 DEF RowsTyped
  <2> QED
    BY <1>0, <2>2, <2>3, RowsStep
<1> QED
  BY <1>1, <1>2

LEMMA FilesStep ==
    ASSUME TypeOK, FilesThere, DoomedIsUnrecorded, ~Window, ~WrongSizes, [Next]_vars
    PROVE  FilesThere'
<1>0. RowsTyped /\ UploadsTyped /\ PassTyped /\ RowsTyped'
  BY TypeParts, RowsStep
<1> DEFINE Stored(r) == uploads[r] # None /\ uploads[r].at = "stored"
\* What was about to be recorded, and what came to be.
<1>1. ASSUME NEW r \in Uploads, uploads'[r] # None, uploads'[r].at = "stored"
      PROVE  \/ Stored(r) /\ uploads'[r].sha = uploads[r].sha
             \/ Store(r) /\ uploads'[r].sha = uploads[r].sha
  <2>1. ASSUME NEW s \in Uploads, Store(s)
        PROVE  \/ Stored(r) /\ uploads'[r].sha = uploads[r].sha
               \/ Store(r) /\ uploads'[r].sha = uploads[r].sha
    <3>1. "stored" \in Stages
      BY DEF Stages
    <3>2. uploads'[s].sha = uploads[s].sha /\ \A q \in Uploads \ {s} : uploads'[q] = uploads[q]
      BY <1>0, <2>1, <3>1, UploadAt DEF Store
    <3> QED
      BY <1>1, <2>1, <3>2
  <2>2. ASSUME NEW s \in Uploads, NEW up, uploads' = [uploads EXCEPT ![s] = up],
               up = None \/ up.at # "stored"
        PROVE  Stored(r) /\ uploads'[r].sha = uploads[r].sha
    BY <1>0, <1>1, <2>2 DEF UploadsTyped
  <2>3. ASSUME NEW s \in Uploads, Settled(s), uploads[s] # None
        PROVE  Stored(r) /\ uploads'[r].sha = uploads[r].sha
    <3>1. CASE InParts(s)
      <4>1. "ending" \in Stages
        BY DEF Stages
      <4>2. uploads' = [uploads EXCEPT ![s] = [uploads[s] EXCEPT !.at = "ending"]]
        BY <2>3, <3>1 DEF Settled
      <4>3. uploads'[s].at = "ending" /\ \A q \in Uploads \ {s} : uploads'[q] = uploads[q]
        BY <1>0, <2>3, <4>1, <4>2, UploadAt
      <4> QED
        BY <1>1, <4>3
    <3>2. CASE ~InParts(s)
      BY <2>2, <2>3, <3>2 DEF Settled
    <3> QED
      BY <3>1, <3>2
  <2>4. ASSUME NEW s \in Uploads, NEW u, NEW b, NEW whole, NEW todo, Begin(s, u, b, whole, todo)
        PROVE  Stored(r) /\ uploads'[r].sha = uploads[r].sha
    <3> DEFINE up == [user |-> u, sha |-> b, whole |-> whole, at |-> "sending", todo |-> todo]
    <3>1. up.at # "stored" /\ uploads' = [uploads EXCEPT ![s] = up]
      BY <2>4 DEF Begin
    <3> HIDE DEF up
    <3> QED
      BY <2>2, <3>1
  <2>5. ASSUME NEW s \in Uploads, StagePart(s)
        PROVE  Stored(r) /\ uploads'[r].sha = uploads[r].sha
    <3>1. PICK todo : uploads' = [uploads EXCEPT ![s] = [uploads[s] EXCEPT !.todo = todo]]
      BY <2>5 DEF StagePart
    <3>2. uploads[s] \in Upload /\ uploads[s].at = "sending"
      BY <1>0, <2>5 DEF StagePart, InParts, UploadsTyped
    <3> DEFINE up == [uploads[s] EXCEPT !.todo = todo]
    <3>3. up.at # "stored"
      BY <3>2 DEF Upload
    <3> HIDE DEF up
    <3> QED
      BY <2>2, <3>1, <3>3 DEF up
  <2>6. ASSUME NEW s \in Uploads, Complete(s)
        PROVE  Stored(r) /\ uploads'[r].sha = uploads[r].sha
    <3>1. CASE Whole(s)
      <4>1. "assembling" \in Stages /\ uploads[s] # None
        BY <2>6 DEF Stages, Complete, InParts
      <4>2. uploads' = [uploads EXCEPT ![s] = [uploads[s] EXCEPT !.at = "assembling"]]
        BY <2>6, <3>1 DEF Complete
      <4>3. uploads'[s].at = "assembling" /\ \A q \in Uploads \ {s} : uploads'[q] = uploads[q]
        BY <1>0, <4>1, <4>2, UploadAt
      <4> QED
        BY <1>1, <4>3
    <3>2. CASE ~Whole(s)
      BY <2>2, <2>6, <3>2 DEF Complete
    <3> QED
      BY <3>1, <3>2
  <2>7. \A s \in Uploads : Abandon(s) \/ DiscardStaging(s) =>
           Stored(r) /\ uploads'[r].sha = uploads[r].sha
    BY <2>2 DEF Abandon, DiscardStaging, Ended
  <2>8. ~Crash
    BY <1>1 DEF Crash
  <2>9. UNCHANGED uploads => Stored(r) /\ uploads'[r].sha = uploads[r].sha
    BY <1>1
  <2>10. \/ \E s \in Uploads : Store(s) \/ (Settled(s) /\ uploads[s] # None)
         \/ \E s \in Uploads, u \in Users, b \in Blobs :
              BeginWhole(s, u, b) \/ BeginInParts(s, u, b)
         \/ \E s \in Uploads : StagePart(s) \/ Complete(s) \/ Abandon(s) \/ DiscardStaging(s)
         \/ Crash \/ UNCHANGED uploads
    <3>1. \A s \in Uploads : RefuseSize(s) \/ Record(s) \/ FailComplete(s) =>
             Settled(s) /\ uploads[s] # None
      BY DEF RefuseSize, Record, FailComplete, InParts
    <3>2. \A n \in Nodes, b \in Blobs : Bind(n, b) \/ Receive(n, b) \/ RestoreNode(n, b) =>
             UNCHANGED uploads
      BY DEF Bind, Receive, RestoreNode, Written
    <3>3. (\E n \in Nodes : DeleteNode(n) \/ PurgeTrash(n)) \/ Time \/ Collect \/ UNCHANGED vars
             => UNCHANGED uploads
      BY DEF DeleteNode, PurgeTrash, Time, MarkAges, ClaimAges, Collect, StartPass, DropUnbound,
             ClearStale, SeeSpent, DropSpentAndMark, Sweep, Recheck, Unlink, EndPass, vars
    <3>4. Faults => Crash \/ UNCHANGED uploads
      BY DEF Faults, FailToUnlink, FailPass
    <3>5. Clients =>
            \/ \E s \in Uploads : Store(s) \/ (Settled(s) /\ uploads[s] # None)
            \/ \E s \in Uploads, u \in Users, b \in Blobs :
                 BeginWhole(s, u, b) \/ BeginInParts(s, u, b)
            \/ \E s \in Uploads : StagePart(s) \/ Complete(s) \/ Abandon(s) \/ DiscardStaging(s)
            \/ \E n \in Nodes : DeleteNode(n) \/ PurgeTrash(n)
            \/ UNCHANGED uploads
      BY <3>1, <3>2 DEF Clients
    <3> QED
      BY <3>3, <3>4, <3>5 DEF Next
  <2>11. ASSUME NEW s \in Uploads, NEW u \in Users, NEW b \in Blobs,
                BeginWhole(s, u, b) \/ BeginInParts(s, u, b)
         PROVE  Stored(r) /\ uploads'[r].sha = uploads[r].sha
    BY <2>4, <2>11 DEF BeginWhole, BeginInParts
  <2> QED
    BY <2>1, <2>3, <2>5, <2>6, <2>7, <2>8, <2>9, <2>10, <2>11
\* A file goes only where nobody recorded it or is about to.
<1>2. ASSUME NEW b \in Blobs, b \in files, b \notin files'
      PROVE  rows'[b] = None /\ \A r \in Uploads : uploads'[r] # None /\ uploads'[r].at = "stored"
                                                     => uploads'[r].sha # b
  <2>1. (\E r \in Uploads : RefuseSize(r)) \/ (\E x \in Blobs : Unlink(x))
    BY <1>2 DEF Next, Clients, Time, Collect, Faults, BeginWhole, BeginInParts, Begin, Store,
         Record, Abandon, StagePart, Complete, FailComplete, DiscardStaging, Bind,
         Receive, RestoreNode, Written, DeleteNode, PurgeTrash, MarkAges, ClaimAges, StartPass,
         DropUnbound, ClearStale, SeeSpent, DropSpentAndMark, Sweep, Recheck, FailToUnlink,
         EndPass, FailPass, Crash, NoRowWritten, vars
  <2>2. ASSUME NEW s \in Uploads, RefuseSize(s)
        PROVE  rows'[b] = None /\ \A r \in Uploads : uploads'[r] # None /\ uploads'[r].at = "stored"
                                                     => uploads'[r].sha # b
    <3>1. /\ b = uploads[s].sha /\ rows[b] = None /\ UNCHANGED rows
          /\ \A q \in Uploads \ {s} : uploads[q] # None => uploads[q].sha # b
      BY <1>2, <2>2 DEF RefuseSize, NoRowWritten
    <3>2. uploads[s] # None /\ Settled(s)
      BY <2>2 DEF RefuseSize
    <3>3. uploads'[s] # None => uploads'[s].at = "ending"
      <4>1. CASE InParts(s)
        <5>1. "ending" \in Stages
          BY DEF Stages
        <5>2. uploads' = [uploads EXCEPT ![s] = [uploads[s] EXCEPT !.at = "ending"]]
          BY <3>2, <4>1 DEF Settled
        <5> QED
          BY <1>0, <3>2, <5>1, <5>2, UploadAt
      <4>2. CASE ~InParts(s)
        BY <1>0, <3>2, <4>2 DEF Settled, UploadsTyped
      <4> QED
        BY <4>1, <4>2
    <3>4. \A q \in Uploads \ {s} : uploads'[q] = uploads[q]
      BY <1>0, <3>2 DEF Settled, UploadsTyped
    <3> QED
      BY <3>1, <3>3, <3>4
  <2>3. ASSUME NEW x \in Blobs, Unlink(x)
        PROVE  rows'[b] = None /\ \A r \in Uploads : uploads'[r] # None /\ uploads'[r].at = "stored"
                                                     => uploads'[r].sha # b
    <3>1. b = x /\ pass = "unlink" /\ b \in doomed /\ UNCHANGED <<rows, uploads>>
      BY <1>2, <2>3 DEF Unlink
    <3>2. rows[b] = None
      BY <3>1 DEF DoomedIsUnrecorded
    <3> QED
      BY <2>3, <3>1, <3>2 DEF Unlink
  <2> QED
    BY <2>1, <2>2, <2>3
\* A file comes before what rests on it.
<1>3. ASSUME NEW b \in Blobs, rows'[b] # None
      PROVE  b \in files'
  <2>1. CASE rows[b] # None
    BY <1>2, <1>3, <2>1 DEF FilesThere
  <2>2. CASE rows[b] = None
    <3>1. PICK r \in Uploads : Record(r)
      BY <1>0, <1>3, <2>2, RowsStep
    <3>2. uploads[r].sha = b
      BY <1>0, <1>3, <2>2, <3>1 DEF Record, RowsTyped
    <3>3. b \in files
      BY <3>1, <3>2 DEF Record, FilesThere
    <3> QED
      BY <1>2, <1>3, <3>3
  <2> QED
    BY <2>1, <2>2
<1>4. ASSUME NEW r \in Uploads, uploads'[r] # None, uploads'[r].at = "stored"
      PROVE  uploads'[r].sha \in files'
  <2>1. CASE Store(r) /\ uploads'[r].sha = uploads[r].sha
    BY <2>1 DEF Store
  <2>2. CASE Stored(r) /\ uploads'[r].sha = uploads[r].sha
    <3>1. uploads[r].sha \in files /\ uploads[r].sha \in Blobs
      BY <1>0, <2>2 DEF FilesThere, UploadsTyped, Upload
    <3> QED
      BY <1>2, <1>4, <2>2, <3>1
  <2> QED
    BY <1>1, <1>4, <2>1, <2>2
<1> QED
  BY <1>3, <1>4 DEF FilesThere

-----------------------------------------------------------------------------
\* Outside the gaps the collector accepts and with no wrong size declared,
\* whatever an account keeps, live or in its history, it can read: no order of
\* upload, write, deletion, restore, purge and collection loses a content
\* somebody keeps, whenever the server dies.
THEOREM KeptAlwaysReadable ==
    ASSUME ~Overlap, ~Window, ~WrongSizes
    PROVE  Spec => []KeptIsReadable
<1> DEFINE Inv == /\ TypeOK /\ FilesThere /\ DoomedIsUnrecorded
                  /\ KeptIsClaimed /\ SpentIsUnheld
<1>1. Init => Inv
  <2> SUFFICES ASSUME Init PROVE Inv
    OBVIOUS
  <2>1. TypeOK
    BY InitTypes
  <2>2. \A u \in Users : Held(u) = {}
    BY DEF Init, Held, NamedLive, NamedInHistory
  <2> QED
    BY <2>1, <2>2 DEF Init, FilesThere, DoomedIsUnrecorded, KeptIsClaimed, SpentIsUnheld
<1>2. Inv /\ [Next]_vars => Inv'
  BY NextTypes, FilesStep, DoomedStep, KeptIsClaimedStep, SpentStep
<1>3. Inv => KeptIsReadable
  <2> SUFFICES ASSUME Inv, NEW u \in Users, NEW b \in Held(u)
               PROVE  Readable(u, b)
    BY DEF KeptIsReadable
  <2>1. Owns(u, b) /\ b \in Blobs
    BY TypeParts, KeptIsHeld, KeptIsContent DEF KeptIsClaimed, Owns
  <2>2. rows[b] # None
    BY <2>1, TypeParts DEF ClaimsTyped, Owns
  <2> QED
    BY <2>1, <2>2 DEF Readable, Holds, Owns, FilesThere
<1> HIDE DEF Inv
<1> QED
  BY <1>1, <1>2, <1>3, PTL DEF Spec

=============================================================================
