---------------------------- MODULE BlobLifecycle ----------------------------
(***************************************************************************)
(* Content from its upload to the removal of its file: the rows of `blobs` *)
(* and `user_blobs`, the files of the blob store, the uploads in flight,   *)
(* the nodes and versions that name content, and the collector's pass,     *)
(* which is a series of transactions followed by file removals.            *)
(*                                                                         *)
(* An upload writes its file first and its row second; the collector       *)
(* deletes the row first and the file second.  Every step between two      *)
(* awaits is an action of its own, so the two orders meet in every way.    *)
(***************************************************************************)
EXTENDS Naturals, FiniteSets

CONSTANTS Users,        \* accounts
          Blobs,        \* content addresses; an address is also its storage key
          Nodes,        \* file nodes of the accounts' vaults
          OwnerOf,      \* the account of each node's vault
          Uploads,      \* uploads that may be in flight together
          MaxParts,     \* parts of an upload above the part size
          Migrating,    \* accounts whose devices upload in parts
          None,
          MaxPending,   \* bound on refs_pending of one claim
          MaxFaults,    \* bound on crashes, failed passes and failed unlinks
          Overlap,      \* writers commit while the DELETE of dropSpentClaims runs
          Window,       \* uploads fall into the gap the collector accepts
          WrongSizes    \* a wrong size is declared for a content others hold

ASSUME OwnerOfIsAFunction == OwnerOf \in [Nodes -> Users]
ASSUME BoundsAreNaturals ==
  MaxPending \in Nat \ {0} /\ MaxParts \in Nat \ {0} /\ MaxFaults \in Nat
ASSUME MigratingAreUsers == Migrating \subseteq Users
ASSUME SwitchesAreBoolean == {Overlap, Window, WrongSizes} \subseteq BOOLEAN

VARIABLES rows,      \* blobs: absent, or present with its gc_marked_at
          claims,    \* user_blobs
          files,     \* what the store has at an address
          nodes,     \* nodes.sha256 and whether deleted_at is null
          versions,  \* the contents a node's version rows name
          uploads,   \* uploads between admit and their answer
          staged,    \* the parts in an account's staging directory of an address
          pass,      \* where the collector's pass stands
          spent,     \* what the DELETE of dropSpentClaims saw
          doomed,    \* the storage keys the sweep returned
          faults

vars == <<rows, claims, files, nodes, versions, uploads, staged, pass, spent,
          doomed, faults>>

Claim == [own : BOOLEAN, pending : 0..MaxPending,
          since : {None, "fresh", "stale"}]
Passes == {"idle", "unbound", "stale", "claims", "dropping", "sweep",
           "recheck", "unlink"}

Parts == 1..MaxParts
\* Bytes on their way, `assemble` reading the staged parts, a file at its
\* address, and the staging about to be discarded.
Stages == {"sending", "assembling", "stored", "ending"}
Upload == [user : Users, sha : Blobs, whole : BOOLEAN, at : Stages, todo : SUBSET Parts]
Node == [sha : Blobs, live : BOOLEAN]

\* Nothing is told from something.
ASSUME NoneIsApart ==
  None \notin Claim \cup Upload \cup Node \cup {"clear", "marked", "aged", "fresh", "stale"}

TypeOK ==
  /\ rows \in [Blobs -> {None, "clear", "marked", "aged"}]
  /\ claims \in [Users \X Blobs -> Claim \cup {None}]
  /\ \A c \in Users \X Blobs : claims[c] # None =>
       /\ claims[c].own \/ claims[c].pending > 0
       /\ claims[c].since = None <=> claims[c].pending = 0
       /\ rows[c[2]] # None
  /\ files \subseteq Blobs
  /\ nodes \in [Nodes -> Node \cup {None}]
  /\ versions \in [Nodes -> SUBSET Blobs]
  /\ uploads \in [Uploads -> Upload \cup {None}]
  /\ \A r \in Uploads : uploads[r] # None /\ uploads[r].whole =>
       uploads[r].at \in {"sending", "stored"} /\ uploads[r].todo = {}
  /\ staged \in [Users \X Blobs -> SUBSET Parts]
  /\ pass \in Passes
  /\ spent \subseteq Users \X Blobs
  /\ doomed \subseteq Blobs
  /\ faults \in 0..MaxFaults

Init ==
  /\ rows = [b \in Blobs |-> None]
  /\ claims = [c \in Users \X Blobs |-> None]
  /\ files = {}
  /\ nodes = [n \in Nodes |-> None]
  /\ versions = [n \in Nodes |-> {}]
  /\ uploads = [r \in Uploads |-> None]
  /\ staged = [c \in Users \X Blobs |-> {}]
  /\ pass = "idle"
  /\ spent = {}
  /\ doomed = {}
  /\ faults = 0

-----------------------------------------------------------------------------
(* What points at content.                                                 *)

\* Contents that nodes of an account hold, or that their history names.
NamedLive(u) == {nodes[n].sha : n \in {m \in Nodes :
                   OwnerOf[m] = u /\ nodes[m] # None /\ nodes[m].live}}
NamedInHistory(u) == UNION {versions[n] : n \in {m \in Nodes : OwnerOf[m] = u}}
Held(u) == NamedLive(u) \cup NamedInHistory(u)

\* The one expression the mark, the unmark and the sweep share.
Referenced(b) ==
  \/ \E u \in Users : claims[<<u, b>>] # None
  \/ \E n \in Nodes : nodes[n] # None /\ nodes[n].sha = b
  \/ \E n \in Nodes : b \in versions[n]

\* Mutant: a content only history names supports no claim.
SpentByNodes == {c \in Users \X Blobs : claims[c] # None /\ claims[c].pending = 0
                                        /\ c[2] \notin NamedLive(c[1])}

\* Claims nothing of their account supports any more.
Spent == {c \in Users \X Blobs : claims[c] # None /\ claims[c].pending = 0
                                 /\ c[2] \notin Held(c[1])}

\* One claim fewer, or one more, in user_blobs.
Without(cs) == [c \in Users \X Blobs |-> IF c \in cs THEN None ELSE claims[c]]
With(u, b, claim) == [claims EXCEPT ![<<u, b>>] = claim]
Fresh == [own |-> FALSE, pending |-> 0, since |-> None]
ClaimOf(u, b) == IF claims[<<u, b>>] = None THEN Fresh ELSE claims[<<u, b>>]

\* Mutant: the last reservation leaves its age behind.
BoundKeepsAge(claim) ==
  [own |-> TRUE,
   pending |-> IF claim.pending = 0 THEN 0 ELSE claim.pending - 1,
   since |-> claim.since]

\* bindBlob: refs_own up, one reservation settled.
Bound(claim) ==
  [own |-> TRUE,
   pending |-> IF claim.pending = 0 THEN 0 ELSE claim.pending - 1,
   since |-> IF claim.pending <= 1 THEN None ELSE claim.since]

\* claimBlob: refs_own up and nothing else.
Claimed(claim) == [claim EXCEPT !.own = TRUE]

\* recordUpload: one more reservation, as old as the oldest.
Reserved(claim) ==
  [claim EXCEPT !.pending = @ + 1, !.since = IF @ = None THEN "fresh" ELSE @]

\* storageKeyIfHeld: a hash is no capability, a live claim of one's own is.
Holds(u, b) ==
  /\ claims[<<u, b>>] # None /\ claims[<<u, b>>].own
  /\ rows[b] # None

\* GET /blobs: the file of what the caller holds.
Readable(u, b) == Holds(u, b) /\ b \in files

-----------------------------------------------------------------------------
(* Uploads whole: POST /blobs.                                             *)

\* With Overlap FALSE no transaction commits under the DELETE of the claims.
MayCommit == Overlap \/ pass # "dropping"

\* Nothing of the database moves while bytes are on their way.
NoRowWritten == UNCHANGED <<rows, claims, nodes, versions, pass, spent, doomed, faults>>
Ended(r) == uploads' = [uploads EXCEPT ![r] = None]
Staged(r) == staged[<<uploads[r].user, uploads[r].sha>>]
\* assemble: a run of parts from 1 without a hole.
Whole(r) == Staged(r) = Parts

\* admit: a device still registered and a size that fits, asked before a byte
\* is taken; whoever is refused has not begun.
Begin(r, u, b, whole, todo) ==
  /\ uploads[r] = None
  /\ uploads' = [uploads EXCEPT ![r] = [user |-> u, sha |-> b, whole |-> whole,
                                       at |-> "sending", todo |-> todo]]
  /\ UNCHANGED <<files, staged>> /\ NoRowWritten

BeginWhole(r, u, b) == Begin(r, u, b, TRUE, {})
InParts(r) == uploads[r] # None /\ ~uploads[r].whole

\* The bytes hash to the address they claim and are renamed into place: those
\* of the request, or those of the staged parts, if they are all there yet.
Store(r) ==
  /\ uploads[r] # None
  /\ IF InParts(r) THEN uploads[r].at = "assembling" /\ Whole(r)
                   ELSE uploads[r].at = "sending"
  /\ uploads' = [uploads EXCEPT ![r].at = "stored"]
  /\ files' = files \cup {uploads[r].sha}
  /\ UNCHANGED staged /\ NoRowWritten

\* What an upload comes to after its file is written: a whole one is answered,
\* the staging of the other is still to be discarded.
Settled(r) ==
  uploads' = [uploads EXCEPT ![r] =
                IF InParts(r) THEN [@ EXCEPT !.at = "ending"] ELSE None]

\* The bytes do not have the declared size: what stands at the address goes,
\* whoever put it there.  With WrongSizes FALSE that is this upload alone.
RefuseSize(r) ==
  /\ uploads[r] # None /\ uploads[r].at = "stored"
  /\ WrongSizes \/ ( /\ rows[uploads[r].sha] = None
                    /\ \A s \in Uploads \ {r} :
                         uploads[s] # None => uploads[s].sha # uploads[r].sha )
  /\ files' = files \ {uploads[r].sha}
  /\ Settled(r)
  /\ UNCHANGED staged /\ NoRowWritten

Record(r) ==
  /\ uploads[r] # None /\ uploads[r].at = "stored"
  /\ MayCommit
  /\ LET u == uploads[r].user
         b == uploads[r].sha
     IN  /\ Window \/ ~(pass = "unlink" /\ b \in doomed)
         /\ ClaimOf(u, b).pending < MaxPending
         /\ rows' = [rows EXCEPT ![b] = IF @ = None THEN "clear" ELSE @]
         /\ claims' = With(u, b, Reserved(ClaimOf(u, b)))
  /\ Settled(r)
  /\ UNCHANGED <<files, staged, nodes, versions, pass, spent, doomed, faults>>

\* The client went away, the bytes were others, or a statement failed: what is
\* at the address by then stays there, and so does what is staged.
Abandon(r) ==
  /\ uploads[r] # None
  /\ Ended(r)
  /\ UNCHANGED <<files, staged>> /\ NoRowWritten

-----------------------------------------------------------------------------
(* Uploads in parts: GET and PUT /blobs/:sha256/parts, POST .../complete.  *)

\* The client asks what is staged and sends the rest of it.
BeginInParts(r, u, b) ==
  /\ u \in Migrating
  /\ Begin(r, u, b, FALSE, Parts \ staged[<<u, b>>])

\* A part written beside its name and renamed over what stood there.
Landed(c, part) == staged' = [staged EXCEPT ![c] = @ \cup {part}]

\* One part after the other, in order.
StagePart(r) ==
  /\ InParts(r) /\ uploads[r].at = "sending"
  /\ \E part \in uploads[r].todo :
       /\ \A p \in uploads[r].todo : part <= p
       /\ uploads' = [uploads EXCEPT ![r].todo = @ \ {part}]
       /\ Landed(<<uploads[r].user, uploads[r].sha>>, part)
  /\ UNCHANGED files /\ NoRowWritten

\* complete: a hole is refused and what is staged kept, for a resume.
Complete(r) ==
  /\ InParts(r) /\ uploads[r].at = "sending" /\ uploads[r].todo = {}
  /\ uploads' = [uploads EXCEPT ![r] =
       IF Whole(r) THEN [@ EXCEPT !.at = "assembling"] ELSE None]
  /\ UNCHANGED <<files, staged>> /\ NoRowWritten

\* A failure of the assembly, a part swept under it included, or of the
\* statement after it, which a trigger refused.
FailComplete(r) ==
  /\ InParts(r) /\ uploads[r].at \in {"assembling", "stored"}
  /\ Settled(r)
  /\ UNCHANGED <<files, staged>> /\ NoRowWritten

\* The staging goes after the answer is known, whatever it was.
DiscardStaging(r) ==
  /\ uploads[r] # None /\ uploads[r].at = "ending"
  /\ staged' = [staged EXCEPT ![<<uploads[r].user, uploads[r].sha>>] = {}]
  /\ Ended(r)
  /\ UNCHANGED files /\ NoRowWritten

-----------------------------------------------------------------------------
(* Nodes and history.                                                      *)

\* The foreign key of nodes and versions, which every write of content meets.
Written(n, b) ==
  /\ rows[b] # None
  /\ MayCommit
  /\ nodes' = [nodes EXCEPT ![n] = [sha |-> b, live |-> TRUE]]
  /\ versions' = [versions EXCEPT ![n] = @ \cup {b}]
  /\ UNCHANGED <<rows, files, uploads, staged, pass, spent, doomed, faults>>

\* createNode, or putContent on a live file.
Bind(n, b) ==
  /\ nodes[n] # None => nodes[n].live
  /\ Written(n, b)
  /\ claims' = With(OwnerOf[n], b, Bound(ClaimOf(OwnerOf[n], b)))

\* The same content arriving from another participant of a share.
Receive(n, b) ==
  /\ nodes[n] # None => nodes[n].live
  /\ \E m \in Nodes : nodes[m] # None /\ nodes[m] = [sha |-> b, live |-> TRUE]
                      /\ OwnerOf[m] # OwnerOf[n]
  /\ Written(n, b)
  /\ claims' = With(OwnerOf[n], b, Claimed(ClaimOf(OwnerOf[n], b)))

\* A version written back, out of the trash or over the present content.
RestoreNode(n, b) ==
  /\ nodes[n] # None /\ b \in versions[n]
  /\ Written(n, b)
  /\ claims' = With(OwnerOf[n], b, Claimed(ClaimOf(OwnerOf[n], b)))

DeleteNode(n) ==
  /\ nodes[n] # None /\ nodes[n].live
  /\ MayCommit
  /\ nodes' = [nodes EXCEPT ![n].live = FALSE]
  /\ UNCHANGED <<rows, claims, files, versions, uploads, staged, pass, spent,
                 doomed, faults>>

\* The node and its versions go, then every claim its account holds on nothing.
PurgeTrash(n) ==
  /\ nodes[n] # None /\ ~nodes[n].live
  /\ MayCommit
  /\ nodes' = [nodes EXCEPT ![n] = None]
  /\ versions' = [versions EXCEPT ![n] = {}]
  /\ LET u == OwnerOf[n]
         held == NamedLive(u) \cup
                 UNION {versions[m] : m \in {k \in Nodes \ {n} : OwnerOf[k] = u}}
     IN  claims' = Without({<<u, b>> : b \in {x \in Blobs \ held :
                      claims[<<u, x>>] # None /\ claims[<<u, x>>].pending = 0}})
  /\ UNCHANGED <<rows, files, uploads, staged, pass, spent, doomed, faults>>

-----------------------------------------------------------------------------
(* Time.                                                                   *)

\* A mark older than GC_QUARANTINE_SECONDS, which no pass lasts.
MarkAges(b) ==
  /\ pass = "idle"
  /\ rows[b] = "marked"
  /\ rows' = [rows EXCEPT ![b] = "aged"]
  /\ UNCHANGED <<claims, files, nodes, versions, uploads, staged, pass,
                 spent, doomed, faults>>

\* A reservation older than UNBOUND_BLOB_TTL_SECONDS.
ClaimAges(u, b) ==
  /\ claims[<<u, b>>] # None /\ claims[<<u, b>>].since = "fresh"
  /\ claims' = [claims EXCEPT ![<<u, b>>].since = "stale"]
  /\ UNCHANGED <<rows, files, nodes, versions, uploads, staged, pass, spent,
                 doomed, faults>>

-----------------------------------------------------------------------------
(* The collector's pass.                                                   *)

\* thinVersions and removeSpentTrash, one transaction.  Any older version may
\* have aged out of the ladder; the head of a live node never has, and that of
\* a trashed one goes last, the node with it.
Thinned(n, kept) ==
  /\ kept \subseteq versions[n]
  /\ nodes[n] # None => nodes[n].sha \in kept \/ (~nodes[n].live /\ kept = {})

StartPass ==
  /\ pass = "idle"
  /\ \E kept \in [Nodes -> SUBSET Blobs] :
       /\ \A n \in Nodes : Thinned(n, kept[n])
       /\ versions' = kept
       /\ nodes' = [n \in Nodes |->
            IF nodes[n] # None /\ ~nodes[n].live /\ kept[n] = {}
            THEN None ELSE nodes[n]]
  /\ pass' = "unbound"
  /\ UNCHANGED <<rows, claims, files, uploads, staged, spent, doomed, faults>>

DropUnbound ==
  /\ pass = "unbound"
  /\ claims' = Without({c \in Users \X Blobs : claims[c] # None
                          /\ ~claims[c].own /\ claims[c].since = "stale"})
  /\ pass' = "stale"
  /\ UNCHANGED <<rows, files, nodes, versions, uploads, staged, spent,
                 doomed, faults>>

ClearStale ==
  /\ pass = "stale"
  /\ claims' = [c \in Users \X Blobs |->
       IF claims[c] # None /\ claims[c].own /\ claims[c].since = "stale"
       THEN [own |-> TRUE, pending |-> 0, since |-> None] ELSE claims[c]]
  /\ pass' = "claims"
  /\ UNCHANGED <<rows, files, nodes, versions, uploads, staged, spent,
                 doomed, faults>>

\* The snapshot under which the DELETE evaluates its subqueries.
SeeSpent ==
  /\ pass = "claims"
  /\ spent' = Spent
  /\ pass' = "dropping"
  /\ UNCHANGED <<rows, claims, files, nodes, versions, uploads, staged,
                 doomed, faults>>

\* Mutant: a blob already marked is marked again.
RemarkedAnew(referenced) ==
  [b \in Blobs |-> CASE rows[b] # None /\ b \in referenced    -> "clear"
                     [] rows[b] # None /\ b \notin referenced -> "marked"
                     [] OTHER                                 -> None]

\* markUnreferenced: the unmark, then the mark.
Remarked(referenced) ==
  [b \in Blobs |-> CASE rows[b] # None /\ b \in referenced       -> "clear"
                     [] rows[b] = "clear" /\ b \notin referenced -> "marked"
                     [] OTHER                                    -> rows[b]]

\* The rest of that DELETE, then markUnreferenced, in one transaction.  A row
\* changed since the snapshot is looked at again, its refs_pending as it is
\* now and the subqueries still as the snapshot answered them.
DropSpentAndMark ==
  /\ pass = "dropping"
  /\ LET gone == {c \in spent : claims[c] # None /\ claims[c].pending = 0}
         left == {c \in Users \X Blobs : claims[c] # None} \ gone
         referenced == {c[2] : c \in left}
                       \cup {nodes[n].sha : n \in {m \in Nodes : nodes[m] # None}}
                       \cup UNION {versions[n] : n \in Nodes}
     IN  /\ claims' = Without(gone)
         /\ rows' = Remarked(referenced)
  /\ spent' = {}
  /\ pass' = "sweep"
  /\ UNCHANGED <<files, nodes, versions, uploads, staged, doomed, faults>>

Sweep ==
  /\ pass = "sweep"
  /\ doomed' = {b \in Blobs : rows[b] = "aged" /\ ~Referenced(b)}
  /\ rows' = [b \in Blobs |-> IF b \in doomed' THEN None ELSE rows[b]]
  /\ pass' = "recheck"
  /\ UNCHANGED <<claims, files, nodes, versions, uploads, staged, spent,
                 faults>>

Recheck ==
  /\ pass = "recheck"
  /\ doomed' = {b \in doomed : rows[b] = None}
  /\ pass' = "unlink"
  /\ UNCHANGED <<rows, claims, files, nodes, versions, uploads, staged,
                 spent, faults>>

\* With Window FALSE no file is taken from an upload that has yet to record it.
Unlink(b) ==
  /\ pass = "unlink" /\ b \in doomed
  /\ Window \/ \A r \in Uploads :
       uploads[r] # None => ~(uploads[r].at = "stored" /\ uploads[r].sha = b)
  /\ files' = files \ {b}
  /\ doomed' = doomed \ {b}
  /\ UNCHANGED <<rows, claims, nodes, versions, uploads, staged, pass, spent,
                 faults>>

\* A file the disk would not give up: logged, and the loop goes on.
FailToUnlink(b) ==
  /\ pass = "unlink" /\ b \in doomed
  /\ faults < MaxFaults
  /\ faults' = faults + 1
  /\ doomed' = doomed \ {b}
  /\ UNCHANGED <<rows, claims, files, nodes, versions, uploads, staged, pass,
                 spent>>

\* Mutant: the walk takes the .part files alone, and a part has a plain number.
TempFilesAlone == {}

\* sweepParts, by upload and not by file: a staging goes when its newest part
\* is older than ABANDONED_PART_TTL_SECONDS.  Any may be that old by now, that
\* of a device which slept half way through included.
Abandoned == {c \in Users \X Blobs : staged[c] # {}}

EndPass ==
  /\ pass = "unlink" /\ doomed = {}
  /\ \E gone \in SUBSET Abandoned :
       staged' = [c \in Users \X Blobs |-> IF c \in gone THEN {} ELSE staged[c]]
  /\ pass' = "idle"
  /\ UNCHANGED <<rows, claims, files, nodes, versions, uploads, spent, doomed,
                 faults>>

-----------------------------------------------------------------------------
(* Faults.                                                                 *)

\* A statement of the pass failed: its transaction is rolled back, the pass
\* logged and left where it was.
FailPass ==
  /\ pass # "idle" /\ faults < MaxFaults
  /\ faults' = faults + 1
  /\ pass' = "idle" /\ spent' = {} /\ doomed' = {}
  /\ UNCHANGED <<rows, claims, files, nodes, versions, uploads, staged>>

\* The process dies: the requests and the pass go, rows and files stay.
Crash ==
  /\ faults < MaxFaults
  /\ faults' = faults + 1
  /\ uploads' = [r \in Uploads |-> None]
  /\ pass' = "idle" /\ spent' = {} /\ doomed' = {}
  /\ UNCHANGED <<rows, claims, files, nodes, versions, staged>>

-----------------------------------------------------------------------------

Collect ==
  \/ StartPass \/ DropUnbound \/ ClearStale \/ SeeSpent \/ DropSpentAndMark
  \/ Sweep \/ Recheck \/ EndPass
  \/ \E b \in Blobs : Unlink(b)

Time ==
  \/ \E b \in Blobs : MarkAges(b)
  \/ \E u \in Users, b \in Blobs : ClaimAges(u, b)

Clients ==
  \/ \E r \in Uploads, u \in Users, b \in Blobs :
       BeginWhole(r, u, b) \/ BeginInParts(r, u, b)
  \/ \E r \in Uploads : Store(r) \/ RefuseSize(r) \/ Record(r) \/ Abandon(r)
  \/ \E r \in Uploads : \/ StagePart(r) \/ Complete(r) \/ FailComplete(r)
                        \/ DiscardStaging(r)
  \/ \E n \in Nodes, b \in Blobs : Bind(n, b) \/ Receive(n, b) \/ RestoreNode(n, b)
  \/ \E n \in Nodes : DeleteNode(n) \/ PurgeTrash(n)

Faults == FailPass \/ Crash \/ \E b \in Blobs : FailToUnlink(b)

Next == Clients \/ Time \/ Collect \/ Faults

Spec == Init /\ [][Next]_vars

\* The timer starts a pass every sweepIntervalSeconds and the pass goes on by
\* itself; marks and reservations grow old, a mark between two passes, hence
\* the strong form.  It is strong for the pass too, which with Window FALSE an
\* upload in flight holds back from time to time.  A request ends, one way or
\* another; clients owe nothing else.
FairSpec ==
  /\ Spec
  /\ SF_vars(Collect)
  /\ \A r \in Uploads : WF_vars(Record(r) \/ Abandon(r))
  /\ \A c \in Migrating \X Blobs : SF_vars(EndPass /\ staged'[c] = {})
  /\ \A b \in Blobs : SF_vars(MarkAges(b))
  /\ \A u \in Users, b \in Blobs : WF_vars(ClaimAges(u, b))

-----------------------------------------------------------------------------
(* Properties.                                                             *)

\* Whatever a live node or a surviving version names can be read by its owner:
\* the claim GET /blobs asks for, the row it joins and the file it streams.
KeptIsReadable == \A u \in Users : \A b \in Held(u) : Readable(u, b)

\* A blob nobody references any more loses its row, unless somebody uses it.
GarbageIsCollected ==
  \A b \in Blobs :
    (rows[b] # None /\ ~Referenced(b)) ~> (rows[b] = None \/ Referenced(b))

\* Parts nobody completes do not count against their account's ceiling for
\* ever, whatever came between them and `complete`.
StagingEnds ==
  \A c \in Migrating \X Blobs : staged[c] # {} ~> staged[c] = {}
=============================================================================
