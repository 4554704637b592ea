----------------------------- MODULE FolderMoves -----------------------------
(***************************************************************************)
(* Folders in a pass of one device: plugin/src/engine/engine.ts from the   *)
(* walk to the last pull, with rename.ts, remap.ts, reconcile.ts and       *)
(* scopes.ts.  The disk has no folder identities: that a folder moved, was *)
(* emptied or was deleted is read off the files that vanished and those    *)
(* that turned up.  Folders may be shared; a file cannot move across the   *)
(* edge of a share, so it is created anew on one side and deleted on the   *)
(* other, which takes it from everybody in the share.                      *)
(*                                                                         *)
(* Other devices of the account and other members write at any moment of   *)
(* a pass; the person acts between two of them.  What a pass does about    *)
(* the content of single files, and with a restored or reset server, is in *)
(* SyncPass.                                                               *)
(***************************************************************************)
EXTENDS Naturals, SequencesExt

CONSTANTS
    Folders,    \* folder paths: sequences of names
    FileNames,  \* names of files
    CopyOf,     \* conflictCopyName: the name of the copy of a file
    Texts,      \* plaintexts
    FileOf,     \* which file a text is a version of
    Small,      \* texts below RENAME_MIN_BYTES
    Shares,     \* shares the account is in
    Start,      \* the rows of the vault at the beginning, by node id
    Nil,
    MaxNodes,   \* bound: node ids
    MaxRemote,  \* bound: writes of others
    MaxLocal,   \* bound: operations of the person
    MaxFaults,  \* bound: failed calls and crashes
    MaxEvents,  \* bound: all of these together
    FolderMishaps     \* which of MishapKinds may happen

\* What files and shared folders do not come through, each allowed or not.
MishapKinds ==
    { "news while held",     \* a shared folder held back, a new file in it here or there
      "name in use again",   \* a folder here has the name of a shared one that went
      "same name elsewhere", \* a shared folder went, a file elsewhere is called as one of it
      "renamed and edited",  \* others rename and edit one file between two passes
      "renamed onto",        \* others rename a file onto the path of another one here
      "renamed in it too",   \* a folder moved here, others renamed a file that was in it
      "renamed there too" }  \* a shared folder renamed there, a file that was in it here

Top == 0
Nodes == 1..MaxNodes
Parent(p) == Front(p)
Child(d, name) == Append(d, name)
Under(d, p) == IsStrictPrefix(d, p)
FilePaths == {Child(d, x) : d \in Folders \cup {<<>>}, x \in FileNames}
Names == {Last(p) : p \in Folders \cup FilePaths}
RowsAt(paths) == [path : paths, text : Texts \cup {Nil},
                  share : Shares \cup {Nil}, root : BOOLEAN]
Row == RowsAt(FilePaths \cup Folders)

ASSUME FoldersAreClosed ==
    \A d \in Folders : /\ d \in Seq(Names) /\ d # <<>>
                       /\ \A i \in 1..Len(d) : SubSeq(d, 1, i) \in Folders
ASSUME FilesAreNotFolders == FilePaths \cap Folders = {}
ASSUME NilIsApart == Nil \notin Texts \cup RowsAt(Seq(Names))
ASSUME TextsAreOfFiles == Small \subseteq Texts /\ DOMAIN FileOf = Texts
ASSUME CopiesAreNamed == CopyOf \in [FileNames -> FileNames \cup {Nil}]
ASSUME StartIsOfRows == Start \in Seq(Row) /\ Len(Start) <= MaxNodes
ASSUME FolderBoundsAreNaturals ==
    {MaxNodes, MaxRemote, MaxLocal, MaxFaults, MaxEvents} \subseteq Nat
ASSUME FolderMishapsAreKnown == FolderMishaps \subseteq MishapKinds

VARIABLES
    nodes,   \* the live rows of the vault, by id
    issued,  \* how many node ids were given out
    disk,    \* the files of the device
    dirs,    \* its folders, the empty ones too
    known,   \* VaultState: what the last finished pass saved
    pass,    \* PassContext, or Nil between two passes
    shelf,   \* history: where the person sees each shared folder
    meant,   \* history: files somebody took out of a share, or deleted there
    done     \* how much of each bound is spent

folderVars == <<nodes, issued, disk, dirs, known, pass, shelf, meant, done>>

-----------------------------------------------------------------------------
(* Trees: the rows of the server, and the picture a pass has of them.      *)

Held(tree) == {n \in Nodes : tree[n] # Nil}
At(tree, p) == {n \in Held(tree) : tree[n].path = p}
IsFile(tree, n) == tree[n].text # Nil
FolderAt(tree, p) == {n \in At(tree, p) : ~IsFile(tree, n)}
Roots(tree) == {n \in Held(tree) : tree[n].root}
Bare(tree, d) == \A n \in Held(tree) : ~Under(d, tree[n].path)
Above(p) == {d \in Folders : Under(d, p)}

\* contentScopeFor: what lies at p is named under the scope of the folder it is
\* in, the share's for one in a share, and the vault's where no folder is found.
ScopeAt(tree, p) ==
    LET in == FolderAt(tree, Parent(p))
    IN  IF in = {} THEN Nil ELSE tree[CHOOSE n \in in : TRUE].share

\* One node at a path, in folders, named under the scope of the one it is in.
IsTree(tree) ==
    \A n \in Held(tree) :
        LET p == tree[n].path
        IN  /\ p \in IF IsFile(tree, n) THEN FilePaths ELSE Folders
            /\ At(tree, p) = {n}
            /\ \A d \in Above(p) : FolderAt(tree, d) # {}
            /\ ~tree[n].root => tree[n].share = ScopeAt(tree, p)

StartTree == [n \in Nodes |-> IF n \in DOMAIN Start THEN Start[n] ELSE Nil]
ASSUME StartIsATree == IsTree(StartTree)

Crosses(tree, p, q) == ScopeAt(tree, p) # ScopeAt(tree, q)

\* `from/...` rewritten to `to/...`.
Rel(d, p) == SubSeq(p, Len(d) + 1, Len(p))
Rehung(p, from, to) == IF p = from \/ Under(from, p) THEN to \o Rel(from, p) ELSE p

\* remapTree
RemapTree(tree, from, to) ==
    [n \in Nodes |-> IF tree[n] = Nil THEN Nil
                     ELSE [tree[n] EXCEPT !.path = Rehung(@, from, to)]]

\* remapState
RemapState(rec, from, to) ==
    [p \in FilePaths |->
        IF \E q \in FilePaths : Under(from, q) /\ Rehung(q, from, to) = p
        THEN rec[CHOOSE q \in FilePaths : Under(from, q) /\ Rehung(q, from, to) = p]
        ELSE IF Under(from, p) THEN Nil ELSE rec[p]]

-----------------------------------------------------------------------------
(* What the server accepts.                                                *)

PlaceOf(id) == IF id = Top THEN <<>> ELSE nodes[id].path
ShareIn(id) == IF id = Top THEN Nil ELSE nodes[id].share
\* Bound: the paths rows have.
InBounds(rows) ==
    \A n \in Held(rows) : rows[n].path \in IF IsFile(rows, n) THEN FilePaths ELSE Folders

Stands(id) == id \in {Top} \cup Held(nodes)

\* createNode: a live parent, a free name, named under the scope of the parent.
CreateAccepted(parent, name, scope) ==
    /\ Stands(parent) /\ ShareIn(parent) = scope
    /\ At(nodes, Child(PlaceOf(parent), name)) = {}

Fresh == issued + 1
CreatedNode(parent, name, text) ==
    [nodes EXCEPT ![Fresh] = [path |-> Child(PlaceOf(parent), name), text |-> text,
                              share |-> ShareIn(parent), root |-> FALSE]]

\* Faulty: moveNode does not look whose shares the two parents are in.
MoveAcceptedAnywhere(n, parent, name) ==
    /\ nodes[n] # Nil /\ Stands(parent)
    /\ parent # n /\ ~Under(nodes[n].path, PlaceOf(parent))
    /\ At(nodes, Child(PlaceOf(parent), name)) \subseteq {n}

\* moveNode: between two parents on one side of the edge of a share.
MoveAccepted(n, parent, name) ==
    /\ nodes[n] # Nil /\ Stands(parent)
    /\ ShareIn(parent) = ScopeAt(nodes, nodes[n].path)
    /\ parent # n /\ ~Under(nodes[n].path, PlaceOf(parent))
    /\ At(nodes, Child(PlaceOf(parent), name)) \subseteq {n}
MovedNode(n, parent, name) ==
    RemapTree(nodes, nodes[n].path, Child(PlaceOf(parent), name))

\* deleteNode: a folder after what is in it, and never the root of a share.
DeleteAccepted(n) == nodes[n] # Nil /\ ~nodes[n].root /\ Bare(nodes, nodes[n].path)

\* putContent, on the content the writer started from.
PutAccepted(n, base) == nodes[n] # Nil /\ nodes[n].text = base

-----------------------------------------------------------------------------
(* rename.ts: which folders moved.                                         *)

Here == {p \in FilePaths : disk[p] # Nil}

\* leftover: an empty folder the server still holds, which no share is on.
Leftover(tree, d) ==
    \A n \in At(tree, d) : ~IsFile(tree, n) /\ tree[n].share = Nil /\ Bare(tree, d)

ParentChainExists(tree, d) ==
    \A a \in Folders : Under(a, d) => FolderAt(tree, a) # {}

Gone(vanished, d) == {v \in vanished : Under(d, v.path)}

\* destinationOf: the folder every file of d turned up under, the one with the
\* most of the same bytes if there are several, and none if that is a tie.
FitsUnder(tree, gone, d) ==
    {e \in Folders : \A v \in gone :
        LET p == e \o Rel(d, v.path)
        IN  p \in Here /\ At(tree, p) = {}}
Matching(gone, d, e) == Cardinality({v \in gone : disk[e \o Rel(d, v.path)] = v.hash})
DestinationOf(tree, gone, d) ==
    {e \in FitsUnder(tree, gone, d) :
        \A x \in FitsUnder(tree, gone, d) \ {e} : Matching(gone, d, x) < Matching(gone, d, e)}

\* What a folder of vanished files could be the move of: at most one.
MovesOf(tree, vanished, d) ==
    {e \in DestinationOf(tree, Gone(vanished, d), d) :
        /\ e # d /\ ~Under(d, e)
        /\ ParentChainExists(tree, e) /\ Leftover(tree, e)}
MayMove(tree, vanished, d) ==
    /\ Gone(vanished, d) # {} /\ FolderAt(tree, d) # {}
    /\ \A p \in Here : ~Under(d, p)
    /\ MovesOf(tree, vanished, d) # {}
To(tree, vanished, d) == CHOOSE e \in MovesOf(tree, vanished, d) : TRUE

\* folderMoves: shallowest first, none inside another, no two into one folder;
\* and moveRenamedFolders: a folder still on disk did not move.
Plans(tree, vanished) ==
    LET may == {d \in Folders : MayMove(tree, vanished, d)}
        to  == [d \in may |-> To(tree, vanished, d)]
    IN  {plan \in SUBSET may :
           \A d \in may : d \in plan <=>
              ~\E e \in plan \ {d} :
                  Under(e, d) \/ (to[e] = to[d] /\ Len(e) <= Len(d))}
FolderMoves(tree, vanished, plan) ==
    {[from |-> d, to |-> To(tree, vanished, d),
      node |-> CHOOSE n \in FolderAt(tree, d) : TRUE,
      gone |-> {v.hash : v \in Gone(vanished, d)}] : d \in plan \ dirs}

-----------------------------------------------------------------------------
(* A share root that was emptied, or is gone, and no move explains it.     *)

Unexplained(tree, plan, s) ==
    LET d == tree[s].path
    IN  /\ \A p \in Here : ~Under(d, p)
        /\ \A m \in plan : ~(m.from = d \/ Under(d, m.from) \/ Under(m.from, d))
        /\ d \notin dirs

\* Files new here that could be one of those gone, by the end of their path.
CouldBe(rec, d, gone) ==
    {p \in Here : rec[p] = Nil /\ \E v \in gone : IsSuffix(Rel(d, v.path), p)}

\* regroupedUnder
RegroupedUnder(d, gone, found) ==
    {e \in Folders : \A v \in gone : e \o Rel(d, v.path) \in found}

\* Faulty: a share root is not held back for files that turned up.
HeldRootsNever(tree, rec, vanished, plan) == {}

\* holdShareRoots: they turned up in a folder the server has never seen, or under
\* one of the shared folder's own name.
HeldRoots(tree, rec, vanished, plan) ==
    {s \in Roots(tree) :
        LET d     == tree[s].path
            gone  == Gone(vanished, d)
            could == CouldBe(rec, d, gone)
        IN  /\ Unexplained(tree, plan, s) /\ gone # {}
            /\ \/ \E e \in RegroupedUnder(d, gone, could) : Last(e) = Last(d)
               \/ \E p \in could : Len(p) = 1 \/ At(tree, Parent(p)) = {}}

\* restoreDeletedShareRoots: gone, and none of its files turned up anywhere.
RestoredFrom(tree, rec, vanished, plan, s) ==
    LET d    == tree[s].path
        gone == {v \in Gone(vanished, d) : tree[v.node] # Nil /\ tree[v.node].path = v.path}
    IN  IF Unexplained(tree, plan, s) /\ CouldBe(rec, d, gone) = {} THEN gone ELSE {}

-----------------------------------------------------------------------------
(* The pass.                                                               *)

NoRecord == [p \in FilePaths |-> Nil]

Spend(what) ==
    /\ done.remote + done.local + done.faults < MaxEvents
    /\ done' = [done EXCEPT ![what] = @ + 1]

\* A call carried out: its answer arrives, or a fault takes it.
Answered(learnt, lost) ==
    \/ pass' = learnt /\ UNCHANGED done
    \/ done.faults < MaxFaults /\ pass' = lost /\ Spend("faults")

\* A call refused, or one that did not get through.
Failed(refused) ==
    \/ refused /\ UNCHANGED done
    \/ done.faults < MaxFaults /\ Spend("faults")

\* Paths this device had synced and can no longer find.
Vanished ==
    {[path |-> p, node |-> known[p].node, hash |-> known[p].hash, text |-> known[p].text] :
        p \in {q \in FilePaths : known[q] # Nil /\ disk[q] = Nil}}

\* What a pass that starts now would find.
RowOf(p) == IF known[p] = Nil THEN Nil ELSE nodes[known[p].node]
RenamedOnto ==
    \E p, q \in Here : p # q /\ known[p] # Nil /\ At(nodes, q) = {known[p].node}
RenamedAndEdited ==
    \E p \in Here : RowOf(p) # Nil /\ RowOf(p).path # p /\ RowOf(p).text # known[p].text
RenamedInItToo ==
    \E d \in Folders : MayMove(nodes, Vanished, d) /\
        \E v \in Gone(Vanished, d) : nodes[v.node] # Nil /\ nodes[v.node].path # v.path
RenamedThereToo(s) ==
    \E p \in FilePaths :
        /\ RowOf(p) # Nil /\ RowOf(p).share = nodes[s].share
        /\ disk[p] # known[p].hash /\ ~Under(nodes[s].path, p)
NewsWhileHeld(s) ==
    LET d     == nodes[s].path
        at    == shelf[nodes[s].share]
        gone  == Gone(Vanished, d)
        could == CouldBe(known, d, gone)
    IN  /\ d \notin dirs
        /\ \E v \in gone : at = Nil \/ at \o Rel(d, v.path) \notin Here
        /\ \/ \E p \in Here \ could : known[p] = Nil /\ at # Nil /\ Under(at, p)
           \/ could # {} /\ \E n \in Held(nodes) :
                 /\ IsFile(nodes, n) /\ Under(d, nodes[n].path)
                 /\ IF known[nodes[n].path] = Nil THEN TRUE
                    ELSE known[nodes[n].path].node # n
NameInUseAgain(s) == nodes[s].path \in dirs /\ shelf[nodes[s].share] # nodes[s].path
SameNameElsewhere(s) ==
    LET d == nodes[s].path
    IN  /\ d \notin dirs
        /\ \A e \in Folders : e = d \/ Under(e, d) => ~MayMove(nodes, Vanished, e)
        /\ \E p \in {q \in Here : known[q] = Nil}, v \in Gone(Vanished, d) :
              /\ Last(p) = Last(v.path)
              /\ IsSuffix(Rel(d, v.path), p) => Len(p) > 1 /\ At(nodes, Parent(p)) # {}

Happened(kind) ==
    CASE kind = "renamed onto"        -> RenamedOnto
      [] kind = "renamed and edited"  -> RenamedAndEdited
      [] kind = "renamed in it too"   -> RenamedInItToo
      [] kind = "renamed there too"   -> \E s \in Roots(nodes) : RenamedThereToo(s)
      [] kind = "news while held"     -> \E s \in Roots(nodes) : NewsWhileHeld(s)
      [] kind = "name in use again"   -> \E s \in Roots(nodes) : NameInUseAgain(s)
      [] kind = "same name elsewhere" -> \E s \in Roots(nodes) : SameNameElsewhere(s)

\* The walk, the measuring of the disk and, from the two alone, what is to be
\* done about folders.
StartPass ==
    /\ pass = Nil /\ {k \in MishapKinds : Happened(k)} \subseteq FolderMishaps
    /\ \E chosen \in Plans(nodes, Vanished) :
         LET plan     == FolderMoves(nodes, Vanished, chosen)
             held     == HeldRoots(nodes, known, Vanished, plan)
             gone     == UNION {Gone(Vanished, nodes[s].path) : s \in held}
             apart    == UNION {CouldBe(known, nodes[s].path,
                                        Gone(Vanished, nodes[s].path)) : s \in held}
             restored == UNION {RestoredFrom(nodes, known, Vanished \ gone, plan, s)
                                  : s \in Roots(nodes)}
         IN  pass' =
               [ tree     |-> nodes,
                 ids      |-> nodes,
                 known    |-> [p \in FilePaths |->
                                 IF p \in {v.path : v \in restored} THEN Nil ELSE known[p]],
                 plan     |-> plan,
                 vanished |-> Vanished \ (gone \cup restored),
                 queue    |-> Here \ apart,
                 handled  |-> Here \cup {v.path : v \in gone},
                 crossed  |-> {},
                 early    |-> {},
                 half     |-> Nil,
                 tried    |-> {},
                 touched  |-> {},
                 held     |-> held,
                 quiet    |-> TRUE ]
    /\ UNCHANGED <<nodes, issued, disk, dirs, known, shelf, meant, done>>

Disturbed(rec) == [rec EXCEPT !.quiet = FALSE]

\* A node the walk saw as it is now: If-Match on its revision.
Unchanged(n) == n \notin pass.touched

-----------------------------------------------------------------------------
(* moveRenamedFolders.                                                     *)

Shallowest(m) == pass # Nil /\ m \in pass.plan /\ \A x \in pass.plan : Len(m.from) <= Len(x.from)

\* holdBack: nothing uploaded, nothing deleted, nothing pulled.
HeldBack(m) ==
    LET gone == Gone(pass.vanished, m.from)
    IN  [Disturbed(pass) EXCEPT
            !.plan = @ \ {m}, !.vanished = @ \ gone,
            !.handled = @ \cup {v.path : v \in gone},
            !.queue = {p \in @ : ~Under(m.to, p)}]

\* Across the edge of a share each file goes on its own; a share root does not go.
CrossFolder(m) ==
    /\ Shallowest(m) /\ Crosses(pass.tree, m.from, m.to)
    /\ pass' = IF pass.tree[m.node].root THEN HeldBack(m)
               ELSE [pass EXCEPT !.plan = @ \ {m}, !.crossed = @ \cup {m.from}]
    /\ UNCHANGED <<nodes, issued, disk, dirs, known, shelf, meant, done>>

\* The parent of the new place, which may have gone as a leftover itself.
Parented(tree, p) == Parent(p) = <<>> \/ FolderAt(tree, Parent(p)) # {}
Ready(m) ==
    Shallowest(m) /\ ~Crosses(pass.tree, m.from, m.to) /\ Parented(pass.tree, m.to)

\* The folder in the way, left over from one deleted here.
Replaces(m) == FolderAt(pass.tree, m.to)
ReplaceLeftover(m, n) ==
    /\ Ready(m) /\ n \in Replaces(m)
    /\ \/ /\ DeleteAccepted(n) /\ Unchanged(n)
          /\ nodes' = [nodes EXCEPT ![n] = Nil]
          /\ Answered([pass EXCEPT !.tree[n] = Nil, !.ids[n] = Nil], HeldBack(m))
       \/ /\ Failed(~DeleteAccepted(n) \/ ~Unchanged(n))
          /\ pass' = HeldBack(m) /\ UNCHANGED nodes
    /\ UNCHANGED <<issued, disk, dirs, known, shelf, meant>>

\* One move of the folder node.  What vanished with the bytes of its files is
\* accounted for, wherever it was.
ParentId(tree, p) ==
    IF Parent(p) = <<>> THEN Top ELSE CHOOSE n \in FolderAt(tree, Parent(p)) : TRUE
CarriedButVanished(m) ==  \* Faulty: what the move explains is still to be deleted.
    [pass EXCEPT
        !.plan = @ \ {m},
        !.tree = RemapTree(@, m.from, m.to),
        !.known = RemapState(@, m.from, m.to)]
Carried(m) ==
    [pass EXCEPT
        !.plan = @ \ {m},
        !.tree = RemapTree(@, m.from, m.to),
        !.known = RemapState(@, m.from, m.to),
        !.vanished = {v \in @ : v.hash \notin m.gone}]

MoveFolder(m) ==
    /\ Ready(m) /\ Replaces(m) = {}
    /\ LET n  == m.node
           at == ParentId(pass.tree, m.to)
           ok == MoveAccepted(n, at, Last(m.to)) /\ Unchanged(n)
       IN  \/ /\ ok /\ nodes' = MovedNode(n, at, Last(m.to)) /\ InBounds(nodes')
              /\ Answered(Carried(m), HeldBack(m))
           \/ Failed(~ok) /\ pass' = HeldBack(m) /\ UNCHANGED nodes
    /\ UNCHANGED <<issued, disk, dirs, known, shelf, meant>>

-----------------------------------------------------------------------------
(* The files: decide, and what is done.                                    *)

On(p) == At(pass.tree, p)
TheOne(p) == CHOOSE n \in On(p) : TRUE
ServerText(p) == pass.tree[TheOne(p)].text
Record(n, hash, text) == [node |-> n, hash |-> hash, text |-> text]

\* renameSourceFor
SourcesOf(p) ==
    LET same == {v \in pass.vanished : v.hash = disk[p]}
    IN  IF disk[p] \in Small \/ Cardinality(same) # 1 THEN {}
        ELSE {v \in same : pass.ids[v.node] # Nil}

Decide(p) ==
    LET k == pass.known[p]
        same == On(p) # {} /\ k # Nil /\ k.node \in On(p)
    IN  CASE same /\ k.hash = disk[p] /\ k.text = ServerText(p) -> "nothing"
          [] same /\ k.hash = disk[p] /\ k.text # ServerText(p) -> "pull"
          [] same /\ k.hash # disk[p] -> "push-edit"
          [] On(p) # {} /\ ~same -> IF disk[p] = ServerText(p) THEN "adopt" ELSE "conflict"
          [] On(p) = {} /\ k # Nil ->
                CASE pass.ids[k.node] # Nil -> "remote-rename"
                  [] pass.ids[k.node] = Nil /\ k.hash = disk[p] -> "remove-local"
                  [] OTHER -> "push-new"
          [] OTHER -> IF SourcesOf(p) # {} THEN "push-move" ELSE "push-new"

\* The files that ask for something, shallowest first.
Due ==
    IF pass = Nil \/ pass.plan # {} \/ pass.half # Nil THEN {}
    ELSE {p \in pass.queue : Decide(p) # "nothing"}
Foremost == LET due == Due IN {p \in due : \A q \in due : Len(p) <= Len(q)}
Turn(p, kind) == Decide(p) = kind

Taken(p) == [pass EXCEPT !.queue = @ \ {p}, !.handled = @ \cup {p}]
Learnt(rec, p, r) == [rec EXCEPT !.known[p] = r]

\* pull of one node over a file that did not change here, and adopt.
Pull(p) ==
    /\ Turn(p, "pull")
    /\ disk' = [disk EXCEPT ![p] = ServerText(p)]
    /\ pass' = Learnt(Taken(p), p, Record(TheOne(p), ServerText(p), ServerText(p)))
    /\ UNCHANGED <<nodes, issued, dirs, known, shelf, meant, done>>

Adopt(p) ==
    /\ Turn(p, "adopt")
    /\ pass' = Learnt(Taken(p), p, Record(TheOne(p), disk[p], ServerText(p)))
    /\ UNCHANGED <<nodes, issued, disk, dirs, known, shelf, meant, done>>

\* resolveConflict: the server's text takes the path, what was there goes beside
\* it and is uploaded by this pass.
CopyPath(p) == Child(Parent(p), CopyOf[Last(p)])
Resolved(files, p, rec, n, text) ==
    IF files[p] = text
    THEN pass' = Learnt(rec, p, Record(n, text, text)) /\ disk' = files
    ELSE /\ CopyOf[Last(p)] # Nil
         /\ disk' = [files EXCEPT ![p] = text, ![CopyPath(p)] = files[p]]
         /\ pass' = [Learnt(rec, p, Record(n, text, text)) EXCEPT !.queue = @ \cup {CopyPath(p)}]

Conflict(p) ==
    /\ Turn(p, "conflict")
    /\ Resolved(disk, p, Taken(p), TheOne(p), ServerText(p))
    /\ UNCHANGED <<nodes, issued, dirs, known, shelf, meant, done>>

\* pushEdit against node n of the file at p, on the content last synced.
Put(files, p, rec, n, base) ==
    \/ /\ PutAccepted(n, base)
       /\ nodes' = [nodes EXCEPT ![n].text = files[p]]
       /\ Answered(Learnt(rec, p, Record(n, files[p], files[p])), Disturbed(rec))
       /\ disk' = files
    \/ /\ nodes[n] # Nil /\ ~PutAccepted(n, base)
       /\ Resolved(files, p, Disturbed(rec), n, nodes[n].text)
       /\ UNCHANGED <<nodes, done>>
    \/ /\ Failed(nodes[n] = Nil) /\ pass' = Disturbed(rec) /\ disk' = files
       /\ UNCHANGED nodes

PushEdit(p) ==
    /\ Turn(p, "push-edit")
    /\ Put(disk, p, Taken(p), TheOne(p), pass.known[p].text)
    /\ UNCHANGED <<issued, dirs, known, shelf, meant>>

\* applyRemoteRename: the new name is written, the old one removed, its folder
\* stays, and an edit goes to the node where it is now.
FollowRename(p) ==
    /\ Turn(p, "remote-rename")
    /\ LET k     == pass.known[p]
           to    == pass.ids[k.node].path
           files == [disk EXCEPT ![p] = Nil, ![to] = disk[p]]
           rec   == [Learnt(Learnt(Taken(p), p, Nil), to,
                            Record(k.node, disk[p], pass.ids[k.node].text))
                       EXCEPT !.handled = @ \cup {to}]
       IN  /\ dirs' = dirs \cup Above(to)
           /\ IF k.hash = disk[p]
              THEN pass' = rec /\ disk' = files /\ UNCHANGED <<nodes, done>>
              ELSE Put(files, to, rec, k.node, k.text)
    /\ UNCHANGED <<issued, known, shelf, meant>>

RemoveLocal(p) ==
    /\ Turn(p, "remove-local")
    /\ disk' = [disk EXCEPT ![p] = Nil]
    /\ pass' = Learnt(Taken(p), p, Nil)
    /\ UNCHANGED <<nodes, issued, dirs, known, shelf, meant, done>>

-----------------------------------------------------------------------------
(* New files and moved ones.                                               *)

\* ensureFolders: the folders on the way to a file, one call each.  A new file's
\* scope was read before; the one of a moved file is read after.
Missing(p) == {d \in Above(p) : At(pass.tree, d) = {}}
Uploading(p) == Turn(p, "push-new") \/ Turn(p, "push-move")

Placed(rec, n, path, text, share) ==
    LET row == [path |-> path, text |-> text, share |-> share, root |-> FALSE]
    IN  [rec EXCEPT !.tree[n] = row, !.ids[n] = row]

\* The source of a move was taken from what vanished before the first call.
Consumed(p) ==
    [Taken(p) EXCEPT !.vanished =
        IF Decide(p) = "push-move" THEN @ \ SourcesOf(p) ELSE @]

MakeFolder(p, d) ==
    /\ Uploading(p) /\ d \in Missing(p) /\ \A e \in Missing(p) : Len(d) <= Len(e)
    /\ LET at    == ParentId(pass.tree, d)
           scope == ScopeAt(pass.tree, d)
           ok    == CreateAccepted(at, Last(d), scope)
           made  == [Placed(pass, Fresh, d, Nil, scope) EXCEPT
                        !.early = IF Decide(p) = "push-new" THEN @ \cup {p} ELSE @]
           failed == Disturbed(Consumed(p))
       IN  \/ /\ ok /\ issued < MaxNodes
              /\ nodes' = CreatedNode(at, Last(d), Nil) /\ InBounds(nodes')
              /\ issued' = issued + 1
              /\ Answered(made, failed)
           \/ Failed(~ok) /\ pass' = failed /\ UNCHANGED <<nodes, issued>>
    /\ UNCHANGED <<disk, dirs, known, shelf, meant>>

\* pushNew, at the end of pass record `rec` and before `after`.
Upload(p, scope, rec, after) ==
    LET at == ParentId(pass.tree, p)
        ok == CreateAccepted(at, Last(p), scope)
    IN  \/ /\ ok /\ issued < MaxNodes
           /\ nodes' = CreatedNode(at, Last(p), disk[p]) /\ InBounds(nodes')
           /\ issued' = issued + 1
           /\ Answered([Learnt(Placed(rec, Fresh, p, disk[p], scope), p,
                               Record(Fresh, disk[p], disk[p])) EXCEPT !.half = after],
                       Disturbed(rec))
        \/ Failed(~ok) /\ pass' = Disturbed(rec) /\ UNCHANGED <<nodes, issued>>

PushNew(p) ==
    /\ Turn(p, "push-new") /\ Missing(p) = {}
    /\ Upload(p, IF p \in pass.early THEN Nil ELSE ScopeAt(pass.tree, p), Taken(p), Nil)
    /\ UNCHANGED <<disk, dirs, known, shelf, meant>>

\* pushMove on one side of an edge: the node keeps its id.  A refusal leaves the
\* source claimed.
PushMove(p, v) ==
    /\ Turn(p, "push-move") /\ Missing(p) = {}
    /\ ~Crosses(pass.tree, pass.ids[v.node].path, p)
    /\ LET at  == ParentId(pass.tree, p)
           ok  == MoveAccepted(v.node, at, Last(p)) /\ Unchanged(v.node)
           rec == Consumed(p)
           unmoved == [Disturbed(rec) EXCEPT !.handled = @ \cup {v.path}]
           moved == [Placed(Learnt(Learnt(rec, v.path, Nil), p,
                                   Record(v.node, disk[p], v.text)),
                            v.node, p, v.text, ScopeAt(pass.tree, p))
                       EXCEPT !.ids[v.node] = [pass.ids[v.node] EXCEPT !.path = p]]
       IN  \/ /\ ok /\ nodes' = MovedNode(v.node, at, Last(p)) /\ InBounds(nodes')
              /\ Answered(moved, unmoved)
           \/ Failed(~ok) /\ pass' = unmoved /\ UNCHANGED nodes
    /\ UNCHANGED <<issued, disk, dirs, known, shelf, meant>>

\* pushMove across an edge: created on this side, then deleted on the other.
CrossFile(p, v) ==
    /\ Turn(p, "push-move") /\ Missing(p) = {}
    /\ Crosses(pass.tree, pass.ids[v.node].path, p)
    /\ Upload(p, ScopeAt(pass.tree, p), Consumed(p), v)
    /\ UNCHANGED <<disk, dirs, known, shelf, meant>>

\* pushDelete
Deleted(rec, v) ==
    [rec EXCEPT !.tree = [n \in Nodes |-> IF n \in At(@, rec.ids[v.node].path) THEN Nil ELSE @[n]],
                !.ids[v.node] = Nil, !.known[v.path] = Nil]
PushDelete(v, rec) ==
    IF pass.ids[v.node] = Nil
    THEN pass' = [rec EXCEPT !.known[v.path] = Nil] /\ UNCHANGED <<nodes, done>>
    ELSE \/ /\ DeleteAccepted(v.node) /\ Unchanged(v.node)
            /\ nodes' = [nodes EXCEPT ![v.node] = Nil]
            /\ Answered(Deleted(rec, v), Disturbed(rec))
         \/ /\ Failed(~DeleteAccepted(v.node) \/ ~Unchanged(v.node))
            /\ pass' = Disturbed(rec) /\ UNCHANGED nodes

DropSource ==
    /\ pass # Nil /\ pass.half # Nil
    /\ LET rec == [pass EXCEPT !.half = Nil] IN PushDelete(pass.half, rec)
    /\ UNCHANGED <<issued, disk, dirs, known, shelf, meant>>

-----------------------------------------------------------------------------
(* After the files.                                                        *)

FilesDone == pass # Nil /\ pass.plan = {} /\ pass.half = Nil /\ Due = {}

\* What the walk did not claim was deleted here, unless the server shows it
\* somewhere else.
DeleteVanished(v) ==
    /\ FilesDone /\ v \in pass.vanished
    /\ LET rec == [pass EXCEPT !.vanished = @ \ {v}, !.handled = @ \cup {v.path}]
       IN  IF pass.ids[v.node] # Nil /\ pass.ids[v.node].path # v.path
           THEN pass' = [rec EXCEPT !.known[v.path] = Nil] /\ UNCHANGED <<nodes, done>>
           ELSE PushDelete(v, rec)
    /\ UNCHANGED <<issued, disk, dirs, known, shelf, meant>>

\* removeCrossedFolders, removeDeletedFolders: what nothing is left under.
Emptied(d) == FolderAt(pass.tree, d) # {} /\ Bare(pass.tree, d)
CrossedDue == {d \in pass.crossed : Emptied(d)}
DeletedDue ==
    {d \in Folders \ (dirs \cup pass.tried) :
        Emptied(d) /\ \A n \in At(pass.tree, d) : ~pass.tree[n].root}

RemoveFolder(d) ==
    /\ FilesDone /\ pass.vanished = {}
    /\ d \in IF CrossedDue # {} THEN CrossedDue ELSE DeletedDue
    /\ \E n \in FolderAt(pass.tree, d) :
         LET ok  == DeleteAccepted(n) /\ Unchanged(n)
             rec == [pass EXCEPT !.crossed = @ \ {d},
                                 !.tried = IF CrossedDue # {} THEN @ ELSE @ \cup {d}]
         IN  \/ /\ ok /\ nodes' = [nodes EXCEPT ![n] = Nil]
                /\ Answered([rec EXCEPT !.tree[n] = Nil, !.ids[n] = Nil], Disturbed(rec))
             \/ Failed(~ok) /\ pass' = Disturbed(rec) /\ UNCHANGED nodes
    /\ UNCHANGED <<issued, disk, dirs, known, shelf, meant>>

\* The last pull, of what nothing here stood for, and the save.
ServerOnly ==
    {n \in Held(pass.tree) : IsFile(pass.tree, n) /\ pass.tree[n].path \notin pass.handled}
PulledAt(p) == {n \in ServerOnly : pass.tree[n].path = p}
FinishPass ==
    /\ FilesDone /\ pass.vanished = {} /\ CrossedDue = {} /\ DeletedDue = {}
    /\ disk' = [p \in FilePaths |->
                  IF PulledAt(p) = {} THEN disk[p]
                  ELSE pass.tree[CHOOSE n \in PulledAt(p) : TRUE].text]
    /\ known' = [p \in FilePaths |->
                   IF PulledAt(p) = {} THEN pass.known[p]
                   ELSE LET n == CHOOSE n \in PulledAt(p) : TRUE
                        IN  Record(n, pass.tree[n].text, pass.tree[n].text)]
    /\ dirs' = dirs \cup UNION {Above(pass.tree[n].path) : n \in ServerOnly}
    /\ shelf' = [s \in Shares |->
                   LET at == {d \in dirs' : \E n \in FolderAt(pass.tree, d) :
                                 pass.tree[n].root /\ pass.tree[n].share = s}
                   IN  IF at = {} THEN shelf[s] ELSE CHOOSE d \in at : TRUE]
    /\ pass' = Nil
    /\ UNCHANGED <<nodes, issued, meant, done>>

\* moveRenamedFolders asks for the parent before its try: without one the pass throws.
Orphaned ==
    \E m \in pass.plan : /\ Shallowest(m) /\ ~Crosses(pass.tree, m.from, m.to)
                         /\ ~Parented(pass.tree, m.to)

\* The app is closed: what the pass learned is lost, what it did is not.
Crash ==
    /\ pass # Nil
    /\ IF Orphaned THEN UNCHANGED done ELSE done.faults < MaxFaults /\ Spend("faults")
    /\ pass' = Nil
    /\ UNCHANGED <<nodes, issued, disk, dirs, known, shelf, meant>>

-----------------------------------------------------------------------------
(* Other devices of the account, and other members.                        *)

Disturbing(ns) ==
    /\ done.remote < MaxRemote /\ Spend("remote")
    /\ pass' = IF pass = Nil THEN Nil
               ELSE [pass EXCEPT !.touched = @ \cup ns, !.quiet = FALSE]
    /\ UNCHANGED <<disk, dirs, known, shelf>>

\* Files of which a version is anywhere.
About == {FileOf[nodes[n].text] : n \in {m \in Held(nodes) : IsFile(nodes, m)}}
         \cup {FileOf[disk[p]] : p \in Here}

StandingFolders == {Top} \cup {n \in Held(nodes) : ~IsFile(nodes, n)}

OtherCreate(at, name, text) ==
    /\ Disturbing({})
    /\ at \in StandingFolders /\ issued < MaxNodes
    /\ CreateAccepted(at, name, ShareIn(at))
    /\ text # Nil => FileOf[text] \notin About
    /\ nodes' = CreatedNode(at, name, text) /\ InBounds(nodes')
    /\ issued' = issued + 1
    /\ UNCHANGED meant

OtherEdit(n, text) ==
    /\ Disturbing({n})
    /\ nodes[n] # Nil /\ IsFile(nodes, n)
    /\ text # nodes[n].text /\ FileOf[text] = FileOf[nodes[n].text]
    /\ nodes' = [nodes EXCEPT ![n].text = text]
    /\ UNCHANGED <<issued, meant>>

OtherMove(n, at, name) ==
    /\ Disturbing({n})
    /\ nodes[n] # Nil /\ at \in StandingFolders
    /\ MoveAccepted(n, at, name) /\ Child(PlaceOf(at), name) # nodes[n].path
    /\ nodes' = MovedNode(n, at, name) /\ InBounds(nodes')
    /\ UNCHANGED <<issued, meant>>

OtherDelete(n) ==
    /\ Disturbing({n})
    /\ DeleteAccepted(n)
    /\ nodes' = [nodes EXCEPT ![n] = Nil]
    /\ meant' = IF IsFile(nodes, n) THEN meant \cup {FileOf[nodes[n].text]} ELSE meant
    /\ UNCHANGED issued

-----------------------------------------------------------------------------
(* The person, between two passes.                                         *)

Acting ==
    /\ pass = Nil /\ done.local < MaxLocal /\ Spend("local")
    /\ UNCHANGED <<nodes, issued, known, pass>>

Standing(d) == d = <<>> \/ d \in dirs

\* In the shared folder, as the person sees it.
Shared(p) == {s \in Shares : shelf[s] # Nil /\ Under(shelf[s], p)}
Versions(ps) == {FileOf[disk[p]] : p \in ps}

Write(p, text) ==
    /\ Acting
    /\ Standing(Parent(p)) /\ disk[p] # text
    /\ IF disk[p] = Nil THEN FileOf[text] \notin About ELSE FileOf[text] = FileOf[disk[p]]
    /\ disk' = [disk EXCEPT ![p] = text]
    /\ UNCHANGED <<dirs, shelf, meant>>

\* What is carried out of a share was meant to leave it.
Carry(p, q) ==
    IF Shared(p) # Shared(q) /\ Shared(p) # {} THEN meant \cup Versions({p})
    ELSE meant
MoveFile(p, q) ==
    /\ Acting
    /\ disk[p] # Nil /\ disk[q] = Nil /\ Standing(Parent(q))
    /\ disk' = [disk EXCEPT ![q] = disk[p], ![p] = Nil]
    /\ meant' = Carry(p, q)
    /\ UNCHANGED <<dirs, shelf>>

DeleteFile(p) ==
    /\ Acting
    /\ disk[p] # Nil
    /\ disk' = [disk EXCEPT ![p] = Nil]
    /\ meant' = meant \cup Versions({p})
    /\ UNCHANGED <<dirs, shelf>>

FilesIn(d) == {p \in Here : Under(d, p)}
RenameFolder(d, e) ==
    /\ Acting
    /\ d \in dirs /\ e \notin dirs /\ Standing(Parent(e)) /\ d # e /\ ~Under(d, e)
    /\ \A x \in dirs : Rehung(x, d, e) \in Folders
    /\ disk' = [p \in FilePaths |->
                  IF Under(e, p) /\ d \o Rel(e, p) \in FilePaths THEN disk[d \o Rel(e, p)]
                  ELSE IF Under(d, p) THEN Nil ELSE disk[p]]
    /\ dirs' = {Rehung(x, d, e) : x \in dirs}
    /\ shelf' = [s \in Shares |-> IF shelf[s] = Nil THEN Nil ELSE Rehung(shelf[s], d, e)]
    /\ meant' = IF Shared(d) # {} /\ Shared(d) # Shared(e)
                THEN meant \cup Versions(FilesIn(d)) ELSE meant

\* Deleting the shared folder itself, or one it is in, means none of its files.
DeleteFolder(d) ==
    /\ Acting
    /\ d \in dirs
    /\ disk' = [p \in FilePaths |-> IF Under(d, p) THEN Nil ELSE disk[p]]
    /\ dirs' = {x \in dirs : x # d /\ ~Under(d, x)}
    /\ shelf' = [s \in Shares |->
                   IF shelf[s] # Nil /\ (shelf[s] = d \/ Under(d, shelf[s])) THEN Nil
                   ELSE shelf[s]]
    /\ meant' = IF Shared(d) # {} THEN meant \cup Versions(FilesIn(d)) ELSE meant

CreateFolder(d) ==
    /\ Acting
    /\ d \notin dirs /\ Standing(Parent(d))
    /\ dirs' = dirs \cup {d}
    /\ UNCHANGED <<disk, shelf, meant>>

-----------------------------------------------------------------------------

\* FoldersInit: the device is in step with the server.
FoldersInit ==
    /\ nodes = StartTree
    /\ issued = Len(Start)
    /\ disk = [p \in FilePaths |->
                 IF At(nodes, p) = {} THEN Nil ELSE nodes[CHOOSE n \in At(nodes, p) : TRUE].text]
    /\ dirs = {d \in Folders : At(nodes, d) # {}}
    /\ known = [p \in FilePaths |->
                  IF At(nodes, p) = {} THEN Nil
                  ELSE LET n == CHOOSE n \in At(nodes, p) : TRUE
                       IN  [node |-> n, hash |-> nodes[n].text, text |-> nodes[n].text]]
    /\ pass = Nil
    /\ shelf = [s \in Shares |->
                  nodes[CHOOSE n \in Roots(nodes) : nodes[n].share = s].path]
    /\ meant = {}
    /\ done = [remote |-> 0, local |-> 0, faults |-> 0]

FoldersNext ==
    \/ StartPass
    \/ /\ pass # Nil
       /\ \E m \in pass.plan :
             CrossFolder(m) \/ MoveFolder(m) \/ \E n \in Nodes : ReplaceLeftover(m, n)
    \/ \E p \in Foremost :
          \/ Pull(p) \/ Adopt(p) \/ Conflict(p) \/ PushEdit(p) \/ FollowRename(p)
          \/ RemoveLocal(p) \/ PushNew(p)
          \/ \E d \in Folders : MakeFolder(p, d)
          \/ \E v \in SourcesOf(p) : PushMove(p, v) \/ CrossFile(p, v)
    \/ /\ pass # Nil
       /\ \E v \in pass.vanished : DeleteVanished(v)
    \/ DropSource \/ FinishPass \/ Crash
    \/ \E d \in Folders : RemoveFolder(d) \/ DeleteFolder(d) \/ CreateFolder(d)
    \/ \E d, e \in Folders : RenameFolder(d, e)
    \/ \E n \in Nodes :
          \/ OtherDelete(n) \/ \E t \in Texts : OtherEdit(n, t)
          \/ \E at \in Nodes \cup {Top}, x \in Names : OtherMove(n, at, x)
    \/ \E at \in Nodes \cup {Top}, x \in Names, t \in Texts \cup {Nil} : OtherCreate(at, x, t)
    \/ \E p \in FilePaths : DeleteFile(p) \/ \E t \in Texts : Write(p, t)
    \/ \E p, q \in FilePaths : MoveFile(p, q)

FoldersSpec == FoldersInit /\ [][FoldersNext]_folderVars

-----------------------------------------------------------------------------

\* The rows form one tree, in which a share has one scope from its root down; every
\* file and folder here is in folders that are here.
FoldersTypeOK ==
    /\ nodes \in [Nodes -> Row \cup {Nil}] /\ issued \in 0..MaxNodes
    /\ IsTree(nodes)
    /\ disk \in [FilePaths -> Texts \cup {Nil}] /\ dirs \subseteq Folders
    /\ \A p \in Here \cup dirs : Above(p) \subseteq dirs

\* What a share holds stays in it, whatever a pass makes of folders renamed, moved,
\* merged or deleted here: a file leaves it when somebody took that file out or
\* deleted it.  (A file may be on its way, under another name, into the folder the
\* pass knows as the shared one.)
InShare(rows, s) ==
    {FileOf[rows[n].text] : n \in {m \in Held(rows) : IsFile(rows, m) /\ rows[m].share = s}}
OnItsWay(s) ==
    IF pass = Nil THEN {} ELSE Versions({p \in Here : ScopeAt(pass.tree, p) = s})
ShareKeepsItsFiles ==
    [][\A s \in Shares :
          InShare(nodes, s) \ InShare(nodes', s) \subseteq meant' \cup OnItsWay(s)]_folderVars

\* After a pass nobody disturbed and nothing was held back in, disk and server
\* have the same files; one that is behind is recorded as behind, so that the next
\* pass brings it; and no folder is on the server that nothing is in and that is not
\* here, but the root of a share.
QuietPassAgrees ==
    [][ (pass # Nil /\ pass' = Nil /\ pass.quiet /\ pass.held = {} /\ done' = done) =>
          /\ \A p \in FilePaths :
               /\ disk'[p] # Nil <=> At(nodes', p) # {}
               /\ \A n \in At(nodes', p) :
                    /\ known'[p].node = n
                    /\ nodes'[n].text = disk'[p] <=> nodes'[n].text = known'[p].text
          /\ \A n \in Held(nodes') : ~IsFile(nodes', n) =>
               nodes'[n].path \in dirs' \/ nodes'[n].root \/ ~Bare(nodes', nodes'[n].path)
      ]_folderVars
=============================================================================
