---------------------------- MODULE EngineProofs ----------------------------
(***************************************************************************)
(* Proofs about module SyncPass, for any paths, nodes, contents and        *)
(* bounds: the types, that a pass deletes only what the person did, and    *)
(* that it loses no copy.                                                  *)
(*                                                                         *)
(* A job may be two writes of the disk with the world in between, so the   *)
(* types already take what its second half goes on from.  What a pass      *)
(* counts on beyond them is one invariant, WorkInv: a file that waits is   *)
(* there, one that waits twice is new, what vanished is on record once and *)
(* nothing waits at its path.                                              *)
(*                                                                         *)
(* What a pass deletes was meant to be deleted because a node that still   *)
(* stands where this device left it can only have lost its file to the     *)
(* person, and no step brings one back to such a place.                    *)
(*                                                                         *)
(* No copy is lost because what a step writes over is held by the server,  *)
(* or lies elsewhere under a path the pass will not write over again.  The *)
(* first takes the record to be true of the server: of every entry but the *)
(* one of a rename being followed, and after a restore but for the files   *)
(* the pass has not come to.  The second is said of contents, not of       *)
(* files: a copy may move from one path to another in two steps.           *)
(***************************************************************************)
EXTENDS SyncPass, TLAPS

------------------------------------------------------------------------------
(* The types.                                                               *)

\* What a half-done job goes on from is still there.
HalfPoints ==
    pass # None /\ pass.half # None =>
        /\ pass.half.job = "drop" =>
             /\ pass.half.to # pass.half.path /\ On(pass.half.to) # None
             /\ pass.known[pass.half.path] # None
        /\ pass.half.job = "fill" => On(pass.half.path) # None

TypeInv == TypeOK /\ HalfPoints

\* None is none of the things it stands beside.
LEMMA Apart ==
    /\ None \notin Nodes /\ None \notin Contents /\ None \notin Rows
    /\ None \notin KnownNodes /\ None \notin TreeNodes /\ None \notin Epochs
    /\ None \notin Backups /\ None \notin Halves /\ None \notin Passes
BY NoneIsApart

\* The parts of a pass.
LEMMA PassTyped ==
    ASSUME TypeOK, pass # None
    PROVE  /\ pass \in Passes
           /\ pass.verdict \in {"continuous", "restore", "reset"}
           /\ pass.tree \in [Paths -> TreeNodes \cup {None}]
           /\ pass.meta \in Files /\ pass.known \in Knowledge
           /\ pass.vanished \subseteq Vanished
           /\ pass.queue \subseteq Paths /\ pass.late \subseteq Paths
           /\ pass.handled \subseteq Paths
           /\ pass.half \in Halves \cup {None} /\ pass.at \in Epochs
BY DEF TypeOK, Passes

\* The pictures a pass works from stay.
SamePictures(r) == r.verdict = pass.verdict /\ r.meta = pass.meta /\ r.at = pass.at

\* r is the pass with p taken, or with its half done.
Went(r, p) ==
    /\ pass.half # None =>
         r.queue = pass.queue /\ r.late = pass.late /\ r.handled = pass.handled
    /\ pass.half = None =>
         /\ r.handled = pass.handled \cup {p}
         /\ IF p \in pass.queue
            THEN r.queue = pass.queue \ {p} /\ r.late = pass.late
            ELSE r.queue = pass.queue /\ r.late = pass.late \ {p}

LEMMA OnwardIs ==
    ASSUME TypeOK, pass # None, NEW p \in Paths
    PROVE  /\ Onward(p) \in Passes
           /\ SamePictures(Onward(p)) /\ Went(Onward(p), p)
           /\ Onward(p).tree = pass.tree /\ Onward(p).known = pass.known
           /\ Onward(p).vanished = pass.vanished /\ Onward(p).half = None
<1>1. pass \in Passes
      BY PassTyped
<1>2. CASE pass.half # None
      BY <1>1, <1>2 DEF Onward, Passes, SamePictures, Went
<1>3. CASE pass.half = None /\ p \in pass.queue
      BY <1>1, <1>3 DEF Onward, Taken, Passes, SamePictures, Went
<1>4. CASE pass.half = None /\ p \notin pass.queue
      BY <1>1, <1>4 DEF Onward, Taken, Passes, SamePictures, Went
<1>   QED BY <1>2, <1>3, <1>4

Entry(n, h, s) == [node |-> n, hash |-> h, sha |-> s]

\* r is q but for what it knows.
Rest(r, q) ==
    /\ r.verdict = q.verdict /\ r.meta = q.meta /\ r.at = q.at
    /\ r.tree = q.tree /\ r.vanished = q.vanished /\ r.half = q.half
    /\ r.queue = q.queue /\ r.late = q.late /\ r.handled = q.handled

\* Learning and forgetting change one entry.
LEMMA LearntIs ==
    ASSUME NEW r \in Passes, NEW p \in Paths,
           NEW n \in Nodes, NEW h \in Contents, NEW s \in Contents
    PROVE  /\ Learnt(r, p, n, h, s) \in Passes /\ Rest(Learnt(r, p, n, h, s), r)
           /\ Learnt(r, p, n, h, s).known = [r.known EXCEPT ![p] = Entry(n, h, s)]
<1>1. Entry(n, h, s) \in KnownNodes
      BY DEF KnownNodes, Entry
<1>2. r.known \in Knowledge
      BY DEF Passes
<1>3. [r.known EXCEPT ![p] = Entry(n, h, s)] \in Knowledge
      BY <1>1, <1>2 DEF Knowledge
<1>4. Learnt(r, p, n, h, s) = [r EXCEPT !.known = [r.known EXCEPT ![p] = Entry(n, h, s)]]
      BY DEF Learnt, Passes, Entry
<1>   QED BY <1>3, <1>4 DEF Passes, Rest

LEMMA ForgottenIs ==
    ASSUME NEW r \in Passes, NEW p \in Paths
    PROVE  /\ Forgotten(r, p) \in Passes /\ Rest(Forgotten(r, p), r)
           /\ Forgotten(r, p).known = [r.known EXCEPT ![p] = None]
<1>1. r.known \in Knowledge
      BY DEF Passes
<1>2. [r.known EXCEPT ![p] = None] \in Knowledge
      BY <1>1 DEF Knowledge
<1>3. Forgotten(r, p) = [r EXCEPT !.known = [r.known EXCEPT ![p] = None]]
      BY DEF Forgotten, Passes
<1>   QED BY <1>2, <1>3 DEF Passes, Rest

------------------------------------------------------------------------------
(* What each step does, field by field.                                     *)

Ahead == pass.queue \cup pass.late

\* The whole of a pass but its queues.
Made(known, tree, vanished, half) ==
    /\ pass # None /\ pass' \in Passes /\ pass' # None /\ SamePictures(pass')
    /\ pass'.known = known /\ pass'.tree = tree
    /\ pass'.vanished = vanished /\ pass'.half = half

LEMMA Due ==
    ASSUME TypeOK, NEW p, Turn(p)
    PROVE  pass # None /\ pass.half = None /\ p \in Ahead /\ p \in Paths
BY PassTyped DEF Turn, AtWork, Ahead

LEMMA HalfwayIs ==
    ASSUME TypeOK, NEW p, NEW job, Halfway(p, job)
    PROVE  /\ pass # None /\ pass.half # None /\ pass.half \in Halves
           /\ pass.half.path = p /\ pass.half.job = job /\ p \in Paths
           /\ job = "take" => /\ pass.half.node \in Nodes /\ pass.half.sha \in Contents
                              /\ pass.half.copy \in Paths
           /\ job = "drop" => pass.half.to \in Paths /\ pass.half.hash \in Contents
           /\ job = "edit" => pass.half.hash \in Contents /\ pass.half.base \in Contents
BY PassTyped DEF Halfway, Halves

\* decide, kind by kind.
LEMMA Decided ==
    ASSUME NEW p
    PROVE  /\ Decide(p) = "nothing" =>
                /\ On(p) # None /\ Known(p) # None /\ Known(p).node = On(p).node
                /\ ~LocalChanged(p) /\ ~RemoteChanged(p)
           /\ Decide(p) = "pull" =>
                /\ On(p) # None /\ Known(p) # None /\ Known(p).node = On(p).node
                /\ ~LocalChanged(p) /\ ~PreferLocal
           /\ Decide(p) = "push-edit" =>
                On(p) # None /\ Known(p) # None /\ Known(p).node = On(p).node
           /\ Decide(p) = "adopt" => On(p) # None /\ Measured(p) = On(p).sha
           /\ Decide(p) = "conflict" => On(p) # None
           /\ Decide(p) = "remote-rename" =>
                On(p) = None /\ Known(p) # None /\ Where(Known(p).node) # {}
           /\ Decide(p) = "remove-local" =>
                /\ On(p) = None /\ Known(p) # None /\ Where(Known(p).node) = {}
                /\ ~LocalChanged(p) /\ ~PreferLocal
           /\ Decide(p) = "push-new" => On(p) = None
           /\ Decide(p) = "push-move" => On(p) = None /\ Known(p) = None
<1>1. CASE On(p) # None /\ Known(p) # None /\ Known(p).node = On(p).node
  <2>1. Decide(p) = KnownHere(p)
        BY <1>1 DEF Decide
  <2>2. KnownHere(p) \in {"nothing", "pull", "push-edit"}
        BY DEF KnownHere
  <2>3. KnownHere(p) = "nothing" => ~LocalChanged(p) /\ ~RemoteChanged(p)
        BY DEF KnownHere
  <2>4. KnownHere(p) = "pull" => ~LocalChanged(p) /\ ~PreferLocal
        BY DEF KnownHere
  <2>   QED BY <1>1, <2>1, <2>2, <2>3, <2>4
<1>2. CASE On(p) # None /\ (Known(p) = None \/ Known(p).node # On(p).node)
  <2>1. Decide(p) = IF Measured(p) = On(p).sha THEN "adopt" ELSE "conflict"
        BY <1>2 DEF Decide
  <2>   QED BY <1>2, <2>1
<1>3. CASE On(p) = None /\ Known(p) # None
  <2>1. Decide(p) = GoneFromHere(p)
        BY <1>3 DEF Decide
  <2>2. GoneFromHere(p) \in {"remote-rename", "remove-local", "push-new"}
        BY DEF GoneFromHere
  <2>3. GoneFromHere(p) = "remote-rename" => Where(Known(p).node) # {}
        BY DEF GoneFromHere
  <2>4. GoneFromHere(p) = "remove-local" =>
          Where(Known(p).node) = {} /\ ~LocalChanged(p) /\ ~PreferLocal
        BY DEF GoneFromHere
  <2>   QED BY <1>3, <2>1, <2>2, <2>3, <2>4
<1>4. CASE On(p) = None /\ Known(p) = None
  <2>1. Decide(p) = IF RenameSources(p) # {} THEN "push-move" ELSE "push-new"
        BY <1>4 DEF Decide
  <2>   QED BY <1>4, <2>1
<1>   QED BY <1>1, <1>2, <1>3, <1>4

\* What the walk has of a path.
LEMMA OnTyped ==
    ASSUME TypeOK, pass # None, NEW p \in Paths, On(p) # None
    PROVE  /\ On(p) \in TreeNodes /\ On(p).node \in Nodes /\ On(p).sha \in Contents
           /\ On(p).rev \in Nat \ {0}
BY PassTyped DEF On, TreeNodes

LEMMA KnownTyped ==
    ASSUME TypeOK, pass # None, NEW p \in Paths, Known(p) # None
    PROVE  /\ Known(p) \in KnownNodes /\ Known(p).node \in Nodes
           /\ Known(p).hash \in Contents /\ Known(p).sha \in Contents
BY PassTyped DEF Known, Knowledge, KnownNodes

LEMMA MeasuredTyped ==
    ASSUME TypeOK, pass # None, NEW p \in Paths
    PROVE  /\ Measured(p) \in Contents \cup {None}
           /\ disk[p] \in Contents \cup {None}
           /\ disk[p] # None => Measured(p) \in Contents
BY PassTyped, Apart DEF Measured, TypeOK, Files

LEMMA LeaveAloneIs ==
    ASSUME TypeInv, NEW p, LeaveAlone(p)
    PROVE  /\ Turn(p) /\ Decide(p) = "nothing" /\ pass.verdict # "reset"
           /\ Made(pass.known, pass.tree, pass.vanished, None) /\ Went(pass', p)
<1>1. TypeOK /\ Turn(p) /\ pass # None /\ p \in Paths /\ pass' = Onward(p)
      BY Due DEF LeaveAlone, Reconciling, TypeInv, Onward
<1>   QED BY <1>1, OnwardIs, Apart DEF LeaveAlone, Reconciling, Made

\* pull, in all three places, from what the pass is by then.
LEMMA PullIntoIs ==
    ASSUME TypeOK, pass # None, NEW p \in Paths, On(p) # None, NEW r \in Passes,
           SamePictures(r), r.known = pass.known, r.tree = pass.tree,
           r.vanished = pass.vanished, r.half = None, PullInto(p, r)
    PROVE  /\ Made([pass.known EXCEPT ![p] = Entry(On(p).node, On(p).sha, On(p).sha)],
                   pass.tree, pass.vanished, None)
           /\ pass'.queue = r.queue /\ pass'.late = r.late /\ pass'.handled = r.handled
           /\ disk' = [disk EXCEPT ![p] = On(p).sha]
<1>1. On(p).node \in Nodes /\ On(p).sha \in Contents
      BY OnTyped
<1>2. pass' = Learnt(r, p, On(p).node, On(p).sha, On(p).sha)
      BY DEF PullInto
<1>3. /\ pass' \in Passes /\ Rest(pass', r)
      /\ pass'.known = [r.known EXCEPT ![p] = Entry(On(p).node, On(p).sha, On(p).sha)]
      BY <1>1, <1>2, LearntIs
<1>   QED BY <1>3, Apart DEF PullInto, OnDisk, Made, SamePictures, Rest

LEMMA PullIs ==
    ASSUME TypeInv, NEW p, Pull(p)
    PROVE  /\ Turn(p) /\ Decide(p) = "pull" /\ On(p) # None
           /\ Made([pass.known EXCEPT ![p] = Entry(On(p).node, On(p).sha, On(p).sha)],
                   pass.tree, pass.vanished, None)
           /\ Went(pass', p)
           /\ disk' = [disk EXCEPT ![p] = On(p).sha]
<1>1. /\ TypeOK /\ Turn(p) /\ pass # None /\ p \in Paths /\ Decide(p) = "pull"
      /\ PullInto(p, Onward(p))
      BY Due DEF Pull, Reconciling, TypeInv
<1>2. On(p) # None
      BY <1>1, Decided
<1>3. /\ Made([pass.known EXCEPT ![p] = Entry(On(p).node, On(p).sha, On(p).sha)],
              pass.tree, pass.vanished, None)
      /\ pass'.queue = Onward(p).queue /\ pass'.late = Onward(p).late
      /\ pass'.handled = Onward(p).handled
      /\ disk' = [disk EXCEPT ![p] = On(p).sha]
      BY <1>1, <1>2, OnwardIs, PullIntoIs
<1>4. Went(pass', p)
      BY <1>1, <1>3, OnwardIs DEF Went
<1>   QED BY <1>1, <1>2, <1>3, <1>4

LEMMA AdoptIs ==
    ASSUME TypeInv, NEW p, Adopt(p)
    PROVE  /\ Turn(p) /\ Decide(p) = "adopt" /\ pass.verdict # "reset"
           /\ On(p) # None /\ Measured(p) = On(p).sha
           /\ Made([pass.known EXCEPT ![p] = Entry(On(p).node, On(p).sha, On(p).sha)],
                   pass.tree, pass.vanished, None)
           /\ Went(pass', p)
<1>1. TypeOK /\ Turn(p) /\ pass # None /\ p \in Paths /\ Decide(p) = "adopt"
      BY Due DEF Adopt, Reconciling, TypeInv
<1>2. On(p) # None /\ Measured(p) = On(p).sha
      BY <1>1, Decided
<1>3. On(p).node \in Nodes /\ On(p).sha \in Contents
      BY <1>1, <1>2, OnTyped
<1>4. pass' = Learnt(Onward(p), p, On(p).node, On(p).sha, On(p).sha)
      BY <1>2 DEF Adopt
<1>5. pass' \in Passes /\ Rest(pass', Onward(p))
      /\ pass'.known = [Onward(p).known EXCEPT ![p] = Entry(On(p).node, On(p).sha, On(p).sha)]
      BY <1>1, <1>3, <1>4, OnwardIs, LearntIs
<1>   QED BY <1>1, <1>2, <1>5, OnwardIs, Apart
         DEF Adopt, Reconciling, Made, SamePictures, Rest, Went

\* A job with a second half, taken up: resolveConflict, ...
TakeHalf(p, n, sha, q) == [job |-> "take", path |-> p, node |-> n, sha |-> sha, copy |-> q]

LEMMA CopyAsideIs ==
    ASSUME TypeOK, pass # None, NEW p \in Paths, NEW n \in Nodes, NEW sha \in Contents,
           disk[p] # None, CopyAside(p, n, sha)
    PROVE  \E q \in CopyNames(p) :
               /\ q \in Paths /\ q # p /\ q \in CopyOf[p] /\ disk[p] # sha
               /\ disk' = [disk EXCEPT ![q] = disk[p]]
               /\ Made(pass.known, pass.tree, pass.vanished, TakeHalf(p, n, sha, q))
               /\ Went(pass', p)
<1>1. PICK q \in CopyNames(p) :
        /\ disk' = [disk EXCEPT ![q] = disk[p]]
        /\ pass' = [Onward(p) EXCEPT !.half = TakeHalf(p, n, sha, q)]
      BY DEF CopyAside, OnDisk, TakeHalf
<1>2. q \in CopyOf[p] /\ q \in Paths /\ q # p
      BY <1>1, PathsAssumption DEF CopyNames
<1>3. TakeHalf(p, n, sha, q) \in Halves
      BY <1>2 DEF TakeHalf, Halves
<1>4. PICK h : h = TakeHalf(p, n, sha, q)
      OBVIOUS
<1>5. PICK r : r = Onward(p)
      OBVIOUS
<1>6. /\ r \in Passes /\ SamePictures(r) /\ Went(r, p)
      /\ r.tree = pass.tree /\ r.known = pass.known /\ r.vanished = pass.vanished
      BY <1>5, OnwardIs
<1>7. pass' = [r EXCEPT !.half = h] /\ h \in Halves
      BY <1>1, <1>3, <1>4, <1>5
<1>8. /\ pass' \in Passes /\ SamePictures(pass') /\ Went(pass', p)
      /\ pass'.tree = pass.tree /\ pass'.known = pass.known
      /\ pass'.vanished = pass.vanished /\ pass'.half = h
      BY <1>6, <1>7 DEF Passes, SamePictures, Went
<1>9. Made(pass.known, pass.tree, pass.vanished, TakeHalf(p, n, sha, q))
      BY <1>4, <1>8, Apart DEF Made
<1>10. disk[p] # sha
      BY DEF CopyAside
<1>   QED BY <1>1, <1>2, <1>8, <1>9, <1>10

LEMMA BindIs ==
    ASSUME TypeOK, pass # None, NEW p \in Paths, NEW n \in Nodes, NEW sha \in Contents,
           Bind(p, n, sha)
    PROVE  /\ disk[p] = sha
           /\ Made([pass.known EXCEPT ![p] = Entry(n, sha, sha)],
                   pass.tree, pass.vanished, None)
           /\ Went(pass', p)
<1>1. pass' = Learnt(Onward(p), p, n, sha, sha)
      BY DEF Bind
<1>2. pass' \in Passes /\ Rest(pass', Onward(p))
      /\ pass'.known = [Onward(p).known EXCEPT ![p] = Entry(n, sha, sha)]
      BY <1>1, OnwardIs, LearntIs
<1>   QED BY <1>2, OnwardIs, Apart DEF Bind, Made, SamePictures, Rest, Went

LEMMA TakeServerIs ==
    ASSUME TypeInv, NEW p, TakeServer(p)
    PROVE  LET half == pass.half IN
           /\ Halfway(p, "take") /\ p \in Paths
           /\ half.node \in Nodes /\ half.sha \in Contents /\ half.copy \in Paths
           /\ Made([pass.known EXCEPT ![p] = Entry(half.node, half.sha, half.sha)],
                   pass.tree, pass.vanished, None)
           /\ pass'.queue = pass.queue /\ pass'.late = pass.late \cup {half.copy}
           /\ pass'.handled = pass.handled
           /\ disk' = [disk EXCEPT ![p] = half.sha]
<1>1. /\ TypeOK /\ Halfway(p, "take") /\ pass # None /\ pass.half # None /\ p \in Paths
      /\ pass.half.node \in Nodes /\ pass.half.sha \in Contents /\ pass.half.copy \in Paths
      BY HalfwayIs DEF TakeServer, TypeInv
<1>2. PICK r : r = Learnt(Onward(p), p, pass.half.node, pass.half.sha, pass.half.sha)
      OBVIOUS
<1>3. r \in Passes /\ Rest(r, Onward(p))
      /\ r.known = [Onward(p).known EXCEPT ![p] =
                      Entry(pass.half.node, pass.half.sha, pass.half.sha)]
      BY <1>1, <1>2, OnwardIs, LearntIs
<1>4. pass' = [r EXCEPT !.late = r.late \cup {pass.half.copy}]
      BY <1>2, <1>3 DEF TakeServer, Passes
<1>5. pass' \in Passes /\ pass'.late = r.late \cup {pass.half.copy}
      /\ pass'.verdict = r.verdict /\ pass'.meta = r.meta /\ pass'.at = r.at
      /\ pass'.tree = r.tree /\ pass'.vanished = r.vanished /\ pass'.half = r.half
      /\ pass'.queue = r.queue /\ pass'.handled = r.handled /\ pass'.known = r.known
      BY <1>1, <1>3, <1>4 DEF Passes
<1>   QED BY <1>1, <1>3, <1>5, OnwardIs, Apart
         DEF TakeServer, OnDisk, Made, SamePictures, Rest, Went

LEMMA RemoveLocalIs ==
    ASSUME TypeInv, NEW p, RemoveLocal(p)
    PROVE  /\ Turn(p) /\ Decide(p) = "remove-local" /\ pass.verdict # "reset"
           /\ Made([pass.known EXCEPT ![p] = None], pass.tree, pass.vanished, None)
           /\ Went(pass', p)
           /\ disk' = [disk EXCEPT ![p] = None]
<1>1. TypeOK /\ Turn(p) /\ pass # None /\ p \in Paths
      BY Due DEF RemoveLocal, Reconciling, TypeInv
<1>2. pass' \in Passes /\ Rest(pass', Onward(p))
      /\ pass'.known = [Onward(p).known EXCEPT ![p] = None]
      BY <1>1, OnwardIs, ForgottenIs DEF RemoveLocal
<1>   QED BY <1>1, <1>2, OnwardIs, Apart
         DEF RemoveLocal, Reconciling, Made, SamePictures, Rest, Went

\* ... applyRemoteRename ...
DropHalf(p, to, hash) == [job |-> "drop", path |-> p, to |-> to, hash |-> hash]
EditHalf(p, hash, base) == [job |-> "edit", path |-> p, hash |-> hash, base |-> base]

LEMMA FollowRenameIs ==
    ASSUME TypeInv, NEW p, FollowRename(p)
    PROVE  \E to \in Paths :
               /\ Turn(p) /\ Decide(p) = "remote-rename" /\ pass.verdict # "reset"
               /\ disk[p] # None /\ Measured(p) \in Contents
               /\ On(p) = None /\ Known(p) # None /\ to # p
               /\ On(to) # None /\ On(to).node = Known(p).node
               /\ Followable(p, to)
               /\ disk' = [disk EXCEPT ![to] = disk[p]]
               /\ Made(pass.known, pass.tree, pass.vanished, DropHalf(p, to, Measured(p)))
               /\ Went(pass', p)
<1>1. /\ TypeOK /\ Turn(p) /\ pass # None /\ p \in Paths /\ pass.verdict # "reset"
      /\ Decide(p) = "remote-rename" /\ disk[p] # None
      BY Due DEF FollowRename, Reconciling, TypeInv
<1>2. On(p) = None /\ Known(p) # None /\ Where(Known(p).node) # {}
      BY <1>1, Decided
<1>3. PICK to : to = CHOOSE q \in Where(Known(p).node) : TRUE
      OBVIOUS
<1>4. to \in Where(Known(p).node)
      BY <1>2, <1>3
<1>5. to \in Paths /\ On(to) # None /\ On(to).node = Known(p).node /\ to # p
      BY <1>2, <1>4 DEF Where
<1>6. Measured(p) \in Contents
      BY <1>1, MeasuredTyped
<1>7. PICK h : h = DropHalf(p, to, Measured(p))
      OBVIOUS
<1>8. h \in Halves
      BY <1>1, <1>5, <1>6, <1>7 DEF DropHalf, Halves
<1>9. PICK r : r = Onward(p)
      OBVIOUS
<1>10. /\ r \in Passes /\ SamePictures(r) /\ Went(r, p)
       /\ r.tree = pass.tree /\ r.known = pass.known /\ r.vanished = pass.vanished
      BY <1>1, <1>9, OnwardIs
<1>11. /\ pass' = [r EXCEPT !.half = h] /\ disk' = [disk EXCEPT ![to] = disk[p]]
       /\ Followable(p, to)
      BY <1>3, <1>7, <1>9 DEF FollowRename, OnDisk, DropHalf
<1>12. /\ pass' \in Passes /\ SamePictures(pass') /\ Went(pass', p)
       /\ pass'.tree = pass.tree /\ pass'.known = pass.known
       /\ pass'.vanished = pass.vanished /\ pass'.half = h
      BY <1>8, <1>10, <1>11 DEF Passes, SamePictures, Went
<1>13. Made(pass.known, pass.tree, pass.vanished, DropHalf(p, to, Measured(p)))
      BY <1>1, <1>7, <1>12, Apart DEF Made
<1>   QED BY <1>1, <1>2, <1>5, <1>6, <1>11, <1>12, <1>13

LEMMA DropOldNameIs ==
    ASSUME TypeInv, NEW p, DropOldName(p)
    PROVE  LET to == pass.half.to
               hash == pass.half.hash IN
           /\ Halfway(p, "drop") /\ p \in Paths /\ to \in Paths /\ to # p
           /\ hash \in Contents /\ On(to) # None /\ Known(p) # None
           /\ Made([[pass.known EXCEPT ![p] = None]
                        EXCEPT ![to] = Entry(On(to).node, hash, On(to).sha)],
                   pass.tree, pass.vanished,
                   IF Known(p).hash = hash THEN None ELSE EditHalf(to, hash, Known(p).sha))
           /\ pass'.queue = pass.queue /\ pass'.late = pass.late
           /\ pass'.handled = pass.handled \cup {to}
           /\ disk' = [disk EXCEPT ![p] = None]
<1>1. /\ TypeOK /\ Halfway(p, "drop") /\ pass # None /\ pass.half # None /\ p \in Paths
      /\ pass.half.path = p /\ pass.half.job = "drop"
      /\ pass.half.to \in Paths /\ pass.half.hash \in Contents
      BY HalfwayIs DEF DropOldName, TypeInv
<1>2. pass.half.to # p /\ On(pass.half.to) # None /\ Known(p) # None
      BY <1>1 DEF TypeInv, HalfPoints, Known
<1>3. PICK to, hash, sha, n :
        /\ to = pass.half.to /\ hash = pass.half.hash
        /\ sha = On(pass.half.to).sha /\ n = On(pass.half.to).node
      OBVIOUS
<1>4. to \in Paths /\ hash \in Contents /\ sha \in Contents /\ n \in Nodes
      BY <1>1, <1>2, <1>3, OnTyped
<1>5. PICK f : f = Forgotten(Onward(p), p)
      OBVIOUS
<1>6. /\ f \in Passes /\ Rest(f, Onward(p))
      /\ f.known = [Onward(p).known EXCEPT ![p] = None]
      BY <1>1, <1>5, OnwardIs, ForgottenIs
<1>7. PICK r : r = Learnt(f, to, n, hash, sha)
      OBVIOUS
<1>8. /\ r \in Passes /\ Rest(r, f)
      /\ r.known = [f.known EXCEPT ![to] = Entry(n, hash, sha)]
      BY <1>4, <1>6, <1>7, LearntIs
<1>9. PICK h : h = IF Known(p).hash = hash THEN None ELSE EditHalf(to, hash, Known(p).sha)
      OBVIOUS
<1>10. h \in Halves \cup {None}
  <2>1. Known(p).sha \in Contents
        BY <1>1, <1>2, KnownTyped
  <2>   QED BY <1>4, <1>9, <2>1 DEF EditHalf, Halves
<1>11. pass' = [r EXCEPT !.handled = r.handled \cup {to}, !.half = h]
      BY <1>3, <1>5, <1>7, <1>8, <1>9 DEF DropOldName, EditHalf, Passes
<1>12. /\ pass' \in Passes /\ pass'.handled = r.handled \cup {to} /\ pass'.half = h
       /\ pass'.verdict = r.verdict /\ pass'.meta = r.meta /\ pass'.at = r.at
       /\ pass'.tree = r.tree /\ pass'.vanished = r.vanished
       /\ pass'.queue = r.queue /\ pass'.late = r.late /\ pass'.known = r.known
      BY <1>4, <1>8, <1>10, <1>11 DEF Passes
<1>13. /\ pass'.known = [[pass.known EXCEPT ![p] = None] EXCEPT ![to] = Entry(n, hash, sha)]
       /\ SamePictures(pass') /\ pass'.tree = pass.tree /\ pass'.vanished = pass.vanished
       /\ pass'.queue = pass.queue /\ pass'.late = pass.late
       /\ pass'.handled = pass.handled \cup {to}
      BY <1>1, <1>6, <1>8, <1>12, OnwardIs DEF Rest, SamePictures, Went
<1>14. disk' = [disk EXCEPT ![p] = None]
      BY DEF DropOldName
<1>15. Made([[pass.known EXCEPT ![p] = None] EXCEPT ![to] = Entry(n, hash, sha)],
            pass.tree, pass.vanished, h)
      BY <1>1, <1>12, <1>13, Apart DEF Made
<1>   QED BY <1>1, <1>2, <1>3, <1>4, <1>9, <1>13, <1>14, <1>15

\* ... and resyncAfterReset.
LEMMA RebindIs ==
    ASSUME TypeInv, NEW p, Rebind(p)
    PROVE  /\ Turn(p) /\ pass.verdict = "reset" /\ On(p) # None /\ On(p).sha = Measured(p)
           /\ Made([pass.known EXCEPT ![p] = Entry(On(p).node, On(p).sha, On(p).sha)],
                   pass.tree, pass.vanished, None)
           /\ Went(pass', p)
<1>1. TypeOK /\ Turn(p) /\ pass # None /\ p \in Paths /\ pass.verdict = "reset"
      /\ On(p) # None /\ On(p).sha = Measured(p)
      BY Due DEF Rebind, Resetting, TypeInv
<1>2. On(p).node \in Nodes /\ On(p).sha \in Contents
      BY <1>1, OnTyped
<1>3. pass' = Learnt(Onward(p), p, On(p).node, On(p).sha, On(p).sha)
      BY <1>1 DEF Rebind
<1>4. pass' \in Passes /\ Rest(pass', Onward(p))
      /\ pass'.known = [Onward(p).known EXCEPT ![p] = Entry(On(p).node, On(p).sha, On(p).sha)]
      BY <1>1, <1>2, <1>3, OnwardIs, LearntIs
<1>   QED BY <1>1, <1>4, OnwardIs, Apart DEF Made, SamePictures, Rest, Went

ResetHalf(job, p) == [job |-> job, path |-> p]

LEMMA QuarantineIs ==
    ASSUME TypeInv, NEW p, Quarantine(p)
    PROVE  /\ Turn(p) /\ pass.verdict = "reset" /\ disk[p] # None
           /\ Made(pass.known, pass.tree, pass.vanished, ResetHalf("erase", p))
           /\ Went(pass', p)
           /\ kept' = [kept EXCEPT ![p] = {disk[p]} \cup
                          IF "second quarantine" \in Mishaps THEN {} ELSE kept[p]]
<1>1. TypeOK /\ Turn(p) /\ pass # None /\ p \in Paths /\ pass.verdict = "reset"
      /\ disk[p] # None
      BY Due DEF Quarantine, Displaced, Resetting, TypeInv
<1>2. PICK h : h = ResetHalf("erase", p)
      OBVIOUS
<1>3. PICK r : r = Onward(p)
      OBVIOUS
<1>4. h \in Halves
      BY <1>1, <1>2 DEF ResetHalf, Halves
<1>5. /\ r \in Passes /\ SamePictures(r) /\ Went(r, p)
      /\ r.tree = pass.tree /\ r.known = pass.known /\ r.vanished = pass.vanished
      BY <1>1, <1>3, OnwardIs
<1>6. pass' = [r EXCEPT !.half = h]
      BY <1>2, <1>3 DEF Quarantine, ResetHalf
<1>7. /\ pass' \in Passes /\ SamePictures(pass') /\ Went(pass', p)
      /\ pass'.tree = pass.tree /\ pass'.known = pass.known
      /\ pass'.vanished = pass.vanished /\ pass'.half = h
      BY <1>4, <1>5, <1>6 DEF Passes, SamePictures, Went
<1>8. Made(pass.known, pass.tree, pass.vanished, ResetHalf("erase", p))
      BY <1>1, <1>2, <1>7, Apart DEF Made
<1>9. kept' = [kept EXCEPT ![p] = {disk[p]} \cup
                  IF "second quarantine" \in Mishaps THEN {} ELSE kept[p]]
      BY <1>1 DEF Quarantine, TypeOK
<1>   QED BY <1>1, <1>7, <1>8, <1>9

LEMMA EraseIs ==
    ASSUME TypeInv, NEW p, Erase(p)
    PROVE  /\ Halfway(p, "erase") /\ p \in Paths
           /\ Made(pass.known, pass.tree, pass.vanished,
                   IF On(p) = None THEN None ELSE ResetHalf("fill", p))
           /\ Went(pass', p)
           /\ disk' = [disk EXCEPT ![p] = None]
<1>1. TypeOK /\ Halfway(p, "erase") /\ pass # None /\ pass.half # None /\ p \in Paths
      BY HalfwayIs DEF Erase, TypeInv
<1>2. PICK h : h = IF On(p) = None THEN None ELSE ResetHalf("fill", p)
      OBVIOUS
<1>3. PICK r : r = Onward(p)
      OBVIOUS
<1>4. h \in Halves \cup {None}
      BY <1>1, <1>2 DEF ResetHalf, Halves
<1>5. /\ r \in Passes /\ SamePictures(r) /\ Went(r, p) /\ r.half = None
      /\ r.tree = pass.tree /\ r.known = pass.known /\ r.vanished = pass.vanished
      BY <1>1, <1>3, OnwardIs
<1>6. pass' = IF On(p) = None THEN r ELSE [r EXCEPT !.half = ResetHalf("fill", p)]
      BY <1>3 DEF Erase, ResetHalf
<1>7. pass' = [r EXCEPT !.half = h]
      BY <1>2, <1>5, <1>6 DEF Passes
<1>8. /\ pass' \in Passes /\ SamePictures(pass') /\ Went(pass', p)
      /\ pass'.tree = pass.tree /\ pass'.known = pass.known
      /\ pass'.vanished = pass.vanished /\ pass'.half = h
      BY <1>4, <1>5, <1>7 DEF Passes, SamePictures, Went
<1>9. Made(pass.known, pass.tree, pass.vanished,
           IF On(p) = None THEN None ELSE ResetHalf("fill", p))
      BY <1>1, <1>2, <1>8, Apart DEF Made
<1>   QED BY <1>1, <1>8, <1>9 DEF Erase

LEMMA FillIs ==
    ASSUME TypeInv, NEW p, Fill(p)
    PROVE  /\ Halfway(p, "fill") /\ p \in Paths /\ On(p) # None
           /\ Made([pass.known EXCEPT ![p] = Entry(On(p).node, On(p).sha, On(p).sha)],
                   pass.tree, pass.vanished, None)
           /\ Went(pass', p)
           /\ disk' = [disk EXCEPT ![p] = On(p).sha]
<1>1. /\ TypeOK /\ Halfway(p, "fill") /\ pass # None /\ pass.half # None /\ p \in Paths
      /\ pass.half.path = p /\ pass.half.job = "fill" /\ PullInto(p, Onward(p))
      BY HalfwayIs DEF Fill, TypeInv
<1>2. On(p) # None
      BY <1>1 DEF TypeInv, HalfPoints
<1>3. /\ Made([pass.known EXCEPT ![p] = Entry(On(p).node, On(p).sha, On(p).sha)],
              pass.tree, pass.vanished, None)
      /\ pass'.queue = Onward(p).queue /\ pass'.late = Onward(p).late
      /\ pass'.handled = Onward(p).handled
      /\ disk' = [disk EXCEPT ![p] = On(p).sha]
      BY <1>1, <1>2, OnwardIs, PullIntoIs
<1>4. Went(pass', p)
      BY <1>1, <1>3, OnwardIs DEF Went
<1>   QED BY <1>1, <1>2, <1>3, <1>4

\* The jobs that write to the server.  Whatever comes of the call, the file is done.
Leaf(n, sha, rev) == [node |-> n, sha |-> sha, rev |-> rev]

Lost == Made(pass.known, pass.tree, pass.vanished, None) /\ MayNotSucceed

LEMMA OnwardLost ==
    ASSUME TypeOK, pass # None, NEW p \in Paths, pass' = Onward(p)
    PROVE  Made(pass.known, pass.tree, pass.vanished, None) /\ Went(pass', p)
BY OnwardIs, Apart DEF Made, SamePictures, Went

LEMMA EditingIs ==
    ASSUME TypeOK, NEW p, Editing(p)
    PROVE  /\ pass # None /\ p \in Paths
           /\ \/ /\ Turn(p) /\ Decide(p) = "push-edit" /\ pass.half = None
                 /\ pass.verdict # "reset"
                 /\ On(p) # None /\ Known(p) # None /\ Known(p).node = On(p).node
              \/ Halfway(p, "edit") /\ pass.half # None
<1>1. CASE Reconciling(p, "push-edit")
      BY <1>1, Due, Decided DEF Reconciling
<1>2. CASE Halfway(p, "edit")
      BY <1>2, HalfwayIs
<1>   QED BY <1>1, <1>2 DEF Editing

LEMMA PushEditIs ==
    ASSUME TypeInv, NEW p, PushEdit(p)
    PROVE  \E n \in Live :
               /\ Editing(p) /\ p \in Paths /\ pass # None
               /\ n = On(p).node /\ nodes[n].sha = BaseSha(p)
               /\ disk[p] # None /\ disk[p] \in Contents /\ Edit(n, disk[p])
               /\ Went(pass', p)
               /\ \/ /\ EditHash(p) \in Contents
                     /\ Made([pass.known EXCEPT ![p] = Entry(n, EditHash(p), disk[p])],
                             pass.tree, pass.vanished, None)
                  \/ Lost
<1>1. TypeOK /\ Editing(p) /\ p \in Paths /\ pass # None /\ disk[p] # None
      BY EditingIs DEF PushEdit, TypeInv
<1>2. disk[p] \in Contents
      BY <1>1, MeasuredTyped
<1>3. EditHash(p) \in Contents
  <2>1. CASE pass.half = None
        BY <1>1, <2>1, MeasuredTyped DEF EditHash
  <2>2. CASE pass.half # None
        BY <1>1, <2>2, EditingIs, HalfwayIs DEF EditHash, Turn
  <2>   QED BY <2>1, <2>2
<1>4. PICK n : n = On(p).node
      OBVIOUS
<1>5. /\ n \in Live /\ nodes[n].sha = BaseSha(p) /\ Edit(n, disk[p])
      /\ Answered(Learnt(Onward(p), p, n, EditHash(p), disk[p]), Onward(p))
      BY <1>4 DEF PushEdit
<1>6. n \in Nodes
      BY <1>5 DEF Live
<1>7. CASE pass' = Learnt(Onward(p), p, n, EditHash(p), disk[p])
  <2>1. pass' \in Passes /\ Rest(pass', Onward(p))
        /\ pass'.known = [Onward(p).known EXCEPT ![p] = Entry(n, EditHash(p), disk[p])]
        BY <1>1, <1>2, <1>3, <1>6, <1>7, OnwardIs, LearntIs
  <2>2. /\ Made([pass.known EXCEPT ![p] = Entry(n, EditHash(p), disk[p])],
                pass.tree, pass.vanished, None)
        /\ Went(pass', p)
        BY <1>1, <2>1, OnwardIs, Apart DEF Made, SamePictures, Rest, Went
  <2>   QED BY <1>1, <1>2, <1>3, <1>4, <1>5, <2>2
<1>8. CASE pass' = Onward(p) /\ MayFail
  <2>1. Lost /\ Went(pass', p)
        BY <1>1, <1>8, OnwardLost DEF Lost, MayFail
  <2>   QED BY <1>1, <1>2, <1>4, <1>5, <2>1
<1>   QED BY <1>5, <1>7, <1>8 DEF Answered

LEMMA FreshIs ==
    ASSUME Nodes \ issued # {}
    PROVE  Fresh \in Nodes /\ Fresh \notin issued
BY DEF Fresh

LEMMA PushNewIs ==
    ASSUME TypeInv, NEW p, PushNew(p)
    PROVE  \E n \in Nodes \ issued :
               /\ Turn(p) /\ Decide(p) = "push-new" /\ pass.verdict # "reset"
               /\ p \in Paths /\ pass # None /\ On(p) = None
               /\ n = Fresh /\ disk[p] # None /\ disk[p] \in Contents /\ Create(p, disk[p])
               /\ Went(pass', p)
               /\ \/ /\ Measured(p) \in Contents
                     /\ Made([pass.known EXCEPT ![p] = Entry(n, Measured(p), disk[p])],
                             [pass.tree EXCEPT ![p] = Leaf(n, disk[p], 1)],
                             pass.vanished, None)
                  \/ Lost
<1>1. /\ TypeOK /\ Turn(p) /\ Decide(p) = "push-new" /\ pass.verdict # "reset"
      /\ p \in Paths /\ pass # None /\ disk[p] # None /\ On(p) = None
      BY Due, Decided DEF PushNew, Reconciling, TypeInv
<1>2. disk[p] \in Contents /\ Measured(p) \in Contents
      BY <1>1, MeasuredTyped
<1>3. PICK n : n = Fresh
      OBVIOUS
<1>4. n \in Nodes \ issued
      BY <1>3, FreshIs DEF PushNew, Create
<1>5. /\ Create(p, disk[p])
      /\ Answered([Learnt(Onward(p), p, n, Measured(p), disk[p])
                      EXCEPT !.tree[p] = Leaf(n, disk[p], 1)], Onward(p))
      BY <1>3 DEF PushNew, Leaf
<1>6. CASE pass' = [Learnt(Onward(p), p, n, Measured(p), disk[p])
                       EXCEPT !.tree[p] = Leaf(n, disk[p], 1)]
  <2>1. PICK r : r = Learnt(Onward(p), p, n, Measured(p), disk[p])
        OBVIOUS
  <2>2. /\ r \in Passes /\ Rest(r, Onward(p))
        /\ r.known = [Onward(p).known EXCEPT ![p] = Entry(n, Measured(p), disk[p])]
        BY <1>1, <1>2, <1>4, <2>1, OnwardIs, LearntIs
  <2>3. PICK l : l = Leaf(n, disk[p], 1)
        OBVIOUS
  <2>4. l \in TreeNodes
        BY <1>2, <1>4, <2>3 DEF Leaf, TreeNodes
  <2>5. r.tree \in [Paths -> TreeNodes \cup {None}]
        BY <2>2 DEF Passes
  <2>6. [r.tree EXCEPT ![p] = l] \in [Paths -> TreeNodes \cup {None}]
        BY <2>4, <2>5
  <2>7. pass' = [r EXCEPT !.tree = [r.tree EXCEPT ![p] = l]]
        BY <1>6, <2>1, <2>2, <2>3 DEF Passes
  <2>8. /\ pass' \in Passes /\ pass'.tree = [r.tree EXCEPT ![p] = l]
        /\ pass'.verdict = r.verdict /\ pass'.meta = r.meta /\ pass'.at = r.at
        /\ pass'.vanished = r.vanished /\ pass'.known = r.known /\ pass'.half = r.half
        /\ pass'.queue = r.queue /\ pass'.late = r.late /\ pass'.handled = r.handled
        BY <2>2, <2>6, <2>7 DEF Passes
  <2>9. /\ Made([pass.known EXCEPT ![p] = Entry(n, Measured(p), disk[p])],
                [pass.tree EXCEPT ![p] = l], pass.vanished, None)
        /\ Went(pass', p)
        BY <1>1, <2>2, <2>8, OnwardIs, Apart DEF Made, SamePictures, Rest, Went
  <2>   QED BY <1>1, <1>2, <1>3, <1>4, <1>5, <2>3, <2>9
<1>7. CASE pass' = Onward(p) /\ MayFail
  <2>1. Lost /\ Went(pass', p)
        BY <1>1, <1>7, OnwardLost DEF Lost, MayFail
  <2>   QED BY <1>1, <1>2, <1>3, <1>4, <1>5, <2>1
<1>   QED BY <1>5, <1>6, <1>7 DEF Answered

\* r is rid of p, whatever else it handled.
Rid(r, p) ==
    IF p \in pass.queue THEN r.queue = pass.queue \ {p} /\ r.late = pass.late
                        ELSE r.queue = pass.queue /\ r.late = pass.late \ {p}

LEMMA SourcesAre ==
    ASSUME NEW p, NEW v \in RenameSources(p)
    PROVE  /\ v \in pass.vanished /\ v.hash = Measured(p) /\ Where(v.node) # {}
           /\ Measured(p) \notin Small
BY DEF RenameSources

LEMMA VanishedTyped ==
    ASSUME TypeOK, pass # None, NEW v \in pass.vanished
    PROVE  /\ v \in Vanished /\ v.path \in Paths /\ v.node \in Nodes
           /\ v.hash \in Contents /\ v.sha \in Contents
BY PassTyped DEF Vanished

LEMMA ClaimedIs ==
    ASSUME TypeOK, pass # None, NEW p \in Paths, NEW v
    PROVE  /\ Claimed(p, v) \in Passes /\ SamePictures(Claimed(p, v)) /\ Went(Claimed(p, v), p)
           /\ Claimed(p, v).tree = pass.tree /\ Claimed(p, v).known = pass.known
           /\ Claimed(p, v).vanished = pass.vanished \ {v} /\ Claimed(p, v).half = None
<1>1. PICK r : r = Onward(p)
      OBVIOUS
<1>2. /\ r \in Passes /\ SamePictures(r) /\ Went(r, p) /\ r.half = None
      /\ r.tree = pass.tree /\ r.known = pass.known /\ r.vanished = pass.vanished
      BY <1>1, OnwardIs
<1>3. Claimed(p, v) = [r EXCEPT !.vanished = r.vanished \ {v}]
      BY <1>1, <1>2 DEF Claimed, Passes
<1>   QED BY <1>2, <1>3 DEF Passes, SamePictures, Went

UnmovedNow(p, v) ==
    /\ Made(pass.known, pass.tree, pass.vanished \ {v}, None) /\ Rid(pass', p)
    /\ pass'.handled = pass.handled \cup {p, v.path}

LEMMA UnmovedIs ==
    ASSUME TypeOK, pass # None, pass.half = None, NEW p \in Paths, NEW v \in pass.vanished,
           pass' = Unmoved(p, v)
    PROVE  UnmovedNow(p, v)
<1>1. PICK r : r = Claimed(p, v)
      OBVIOUS
<1>2. /\ r \in Passes /\ SamePictures(r) /\ Went(r, p) /\ r.half = None
      /\ r.tree = pass.tree /\ r.known = pass.known /\ r.vanished = pass.vanished \ {v}
      BY <1>1, ClaimedIs
<1>3. v.path \in Paths
      BY VanishedTyped
<1>4. pass' = [r EXCEPT !.handled = r.handled \cup {v.path}]
      BY <1>1, <1>2 DEF Unmoved, Passes
<1>5. /\ pass' \in Passes /\ SamePictures(pass') /\ pass'.half = None
      /\ pass'.tree = pass.tree /\ pass'.known = pass.known
      /\ pass'.vanished = pass.vanished \ {v} /\ pass'.queue = r.queue /\ pass'.late = r.late
      /\ pass'.handled = r.handled \cup {v.path}
      BY <1>2, <1>3, <1>4 DEF Passes, SamePictures
<1>6. r.handled = pass.handled \cup {p} /\ Rid(r, p)
      BY <1>2 DEF Went, Rid
<1>7. pass'.handled = pass.handled \cup {p, v.path} /\ Rid(pass', p)
      BY <1>5, <1>6 DEF Rid
<1>   QED BY <1>5, <1>7, Apart DEF UnmovedNow, Made

\* The tree, the node of v moved to p.
MovedTree(p, v) ==
    [q \in Paths |->
        CASE q = p -> Leaf(v.node, v.sha, On(CHOOSE r \in Where(v.node) : TRUE).rev + 1)
          [] q \in Where(v.node) \ {p} -> None
          [] OTHER -> On(q)]

LEMMA MovedTreeTyped ==
    ASSUME TypeOK, pass # None, NEW p \in Paths, NEW v \in pass.vanished, Where(v.node) # {}
    PROVE  MovedTree(p, v) \in [Paths -> TreeNodes \cup {None}]
<1>1. PICK from : from = CHOOSE r \in Where(v.node) : TRUE
      OBVIOUS
<1>2. from \in Paths /\ On(from) # None
      BY <1>1 DEF Where
<1>3. On(from).rev + 1 \in Nat \ {0}
      BY <1>2, OnTyped
<1>4. Leaf(v.node, v.sha, On(from).rev + 1) \in TreeNodes
      BY <1>3, VanishedTyped DEF Leaf, TreeNodes
<1>5. \A q \in Paths : On(q) \in TreeNodes \cup {None}
      BY PassTyped DEF On
<1>   QED BY <1>1, <1>4, <1>5 DEF MovedTree

LEMMA PushMoveIs ==
    ASSUME TypeInv, NEW p, NEW v, PushMove(p, v)
    PROVE  /\ Turn(p) /\ Decide(p) = "push-move" /\ pass.verdict # "reset"
           /\ p \in Paths /\ pass # None /\ pass.half = None
           /\ On(p) = None /\ Known(p) = None
           /\ v \in pass.vanished /\ v.hash = Measured(p) /\ Where(v.node) # {}
           /\ PreferLocal /\ ~AsSynced(v) => "renamed and restored" \in Mishaps
           /\ AsWalked(v.node) /\ v.node \in Live /\ Move(v.node, p)
           /\ \/ /\ Made([[pass.known EXCEPT ![v.path] = None]
                             EXCEPT ![p] = Entry(v.node, v.hash, v.sha)],
                         MovedTree(p, v), pass.vanished \ {v}, None)
                 /\ Went(pass', p)
              \/ UnmovedNow(p, v) /\ MayNotSucceed
<1>1. /\ TypeOK /\ Turn(p) /\ Decide(p) = "push-move" /\ pass.verdict # "reset"
      /\ p \in Paths /\ pass # None /\ pass.half = None
      BY Due DEF PushMove, Reconciling, TypeInv
<1>2. /\ v \in pass.vanished /\ v.hash = Measured(p) /\ Where(v.node) # {}
      /\ v.path \in Paths /\ v.node \in Nodes /\ v.hash \in Contents /\ v.sha \in Contents
      BY <1>1, SourcesAre, VanishedTyped DEF PushMove
<1>3. ASSUME pass' = Moved(p, v)
      PROVE  /\ Made([[pass.known EXCEPT ![v.path] = None]
                         EXCEPT ![p] = Entry(v.node, v.hash, v.sha)],
                     MovedTree(p, v), pass.vanished \ {v}, None)
             /\ Went(pass', p)
  <2>1. PICK c, t, n, h, s, from :
          /\ c = Claimed(p, v) /\ t = MovedTree(p, v)
          /\ n = v.node /\ h = v.hash /\ s = v.sha /\ from = v.path
        OBVIOUS
  <2>2. /\ c \in Passes /\ SamePictures(c) /\ Went(c, p) /\ c.half = None
        /\ c.tree = pass.tree /\ c.known = pass.known /\ c.vanished = pass.vanished \ {v}
        BY <1>1, <2>1, ClaimedIs
  <2>3. PICK f : f = Forgotten(c, from)
        OBVIOUS
  <2>4. f \in Passes /\ Rest(f, c) /\ f.known = [c.known EXCEPT ![from] = None]
        BY <1>2, <2>1, <2>2, <2>3, ForgottenIs
  <2>5. PICK r : r = Learnt(f, p, n, h, s)
        OBVIOUS
  <2>6. r \in Passes /\ Rest(r, f) /\ r.known = [f.known EXCEPT ![p] = Entry(n, h, s)]
        BY <1>1, <1>2, <2>1, <2>4, <2>5, LearntIs
  <2>7. t \in [Paths -> TreeNodes \cup {None}]
        BY <1>1, <1>2, <2>1, MovedTreeTyped
  <2>8. pass' = [r EXCEPT !.tree = t]
        BY <1>2, <1>3, <2>1, <2>3, <2>5 DEF Moved, MovedTree, Leaf
  <2>9. /\ pass' \in Passes /\ pass'.tree = t
        /\ pass'.verdict = r.verdict /\ pass'.meta = r.meta /\ pass'.at = r.at
        /\ pass'.vanished = r.vanished /\ pass'.known = r.known /\ pass'.half = r.half
        /\ pass'.queue = r.queue /\ pass'.late = r.late /\ pass'.handled = r.handled
        BY <2>6, <2>7, <2>8 DEF Passes
  <2>10. /\ SamePictures(pass') /\ Went(pass', p)
         /\ pass'.vanished = pass.vanished \ {v} /\ pass'.half = None
         /\ pass'.known = [[pass.known EXCEPT ![from] = None] EXCEPT ![p] = Entry(n, h, s)]
        BY <2>2, <2>4, <2>6, <2>9 DEF SamePictures, Rest, Went
  <2>   QED BY <1>1, <2>1, <2>9, <2>10, Apart DEF Made
<1>4. ASSUME pass' = Unmoved(p, v)
      PROVE  UnmovedNow(p, v)
      BY <1>1, <1>2, <1>4, UnmovedIs
<1>5. On(p) = None /\ Known(p) = None
      BY <1>1, Decided
<1>6. /\ AsWalked(v.node) /\ v.node \in Live /\ Move(v.node, p)
      /\ PreferLocal /\ ~AsSynced(v) => "renamed and restored" \in Mishaps
      /\ pass' = Moved(p, v) \/ (pass' = Unmoved(p, v) /\ MayNotSucceed)
      BY DEF PushMove, Answered, AsWalked, MayFail
<1>   QED BY <1>1, <1>2, <1>3, <1>4, <1>5, <1>6

LEMMA FailFileIs ==
    ASSUME TypeInv, NEW p, FailFile(p)
    PROVE  /\ p \in Paths /\ pass # None /\ MayNotSucceed
           /\ Turn(p) \/ (pass.half # None /\ pass.half.path = p)
           /\ Reconciling(p, "remote-rename") => "rename fails" \in Mishaps
           /\ \/ Made(pass.known, pass.tree, pass.vanished, None) /\ Went(pass', p)
              \/ \E v \in pass.vanished :
                     Reconciling(p, "push-move") /\ pass.half = None /\ UnmovedNow(p, v)
<1>1. /\ TypeOK /\ pass # None /\ MayNotSucceed
      /\ Turn(p) \/ (pass.half # None /\ pass.half.path = p)
      /\ (Reconciling(p, "remote-rename") => "rename fails" \in Mishaps)
      BY DEF FailFile, TypeInv
<1>2. p \in Paths
  <2>1. pass.half # None => pass.half.path \in Paths
        BY <1>1, PassTyped DEF Halves
  <2>   QED BY <1>1, <2>1, Due
<1>3. ASSUME \E v \in RenameSources(p) : Reconciling(p, "push-move")
      PROVE  \E v \in pass.vanished :
                 Reconciling(p, "push-move") /\ pass.half = None /\ UnmovedNow(p, v)
  <2>1. PICK v : v = CHOOSE w \in RenameSources(p) : TRUE
        OBVIOUS
  <2>2. v \in RenameSources(p) /\ Reconciling(p, "push-move") /\ pass' = Unmoved(p, v)
        BY <1>3, <2>1 DEF FailFile
  <2>3. v \in pass.vanished /\ pass.half = None
        BY <1>1, <2>2, SourcesAre, Due DEF Reconciling
  <2>   QED BY <1>1, <1>2, <2>2, <2>3, UnmovedIs
<1>4. ASSUME ~\E v \in RenameSources(p) : Reconciling(p, "push-move")
      PROVE  Made(pass.known, pass.tree, pass.vanished, None) /\ Went(pass', p)
  <2>1. pass' = Onward(p)
        BY <1>4 DEF FailFile
  <2>   QED BY <1>1, <1>2, <2>1, OnwardLost
<1>   QED BY <1>1, <1>2, <1>3, <1>4

\* What follows the files.
LEMMA SettledIs ==
    ASSUME TypeOK, FilesDone, NEW v \in pass.vanished
    PROVE  /\ Settled(v) \in Passes /\ SamePictures(Settled(v))
           /\ Settled(v).tree = pass.tree /\ Settled(v).known = pass.known
           /\ Settled(v).vanished = pass.vanished \ {v} /\ Settled(v).half = None
           /\ Settled(v).queue = {} /\ Settled(v).late = {}
           /\ Settled(v).handled = pass.handled \cup {v.path}
<1>1. /\ pass \in Passes /\ v.path \in Paths /\ pass.half = None
      /\ pass.queue = {} /\ pass.late = {}
      BY PassTyped, VanishedTyped DEF FilesDone
<1>   QED BY <1>1 DEF Settled, Passes, SamePictures

\* A vanished path is settled: handled, and no candidate any more.
SettledNow(v) ==
    /\ FilesDone /\ pass'.queue = {} /\ pass'.late = {}
    /\ pass'.handled = pass.handled \cup {v.path}

LEMMA ForgottenNow ==
    ASSUME TypeOK, FilesDone, NEW v \in pass.vanished,
           pass' = Forgotten(Settled(v), v.path)
    PROVE  /\ Made([pass.known EXCEPT ![v.path] = None], pass.tree, pass.vanished \ {v}, None)
           /\ SettledNow(v)
<1>1. pass # None /\ v.path \in Paths
      BY VanishedTyped DEF FilesDone
<1>2. /\ pass' \in Passes /\ Rest(pass', Settled(v))
      /\ pass'.known = [Settled(v).known EXCEPT ![v.path] = None]
      BY <1>1, SettledIs, ForgottenIs
<1>   QED BY <1>1, <1>2, SettledIs, Apart DEF Made, SamePictures, Rest, SettledNow

LEMMA PushDeleteIs ==
    ASSUME TypeInv, NEW v \in pass.vanished, PushDelete(v)
    PROVE  /\ FilesDone /\ pass # None /\ Where(v.node) = {v.path} /\ ~PreferLocal
           /\ AsWalked(v.node) /\ v.node \in Live /\ Trash(v.node)
           /\ SettledNow(v)
           /\ \/ Made([pass.known EXCEPT ![v.path] = None],
                      [pass.tree EXCEPT ![v.path] = None], pass.vanished \ {v}, None)
              \/ Made(pass.known, pass.tree, pass.vanished \ {v}, None) /\ MayNotSucceed
<1>1. TypeOK /\ FilesDone /\ pass # None /\ v.path \in Paths
      BY VanishedTyped DEF PushDelete, FilesDone, TypeInv
<1>2. ASSUME pass' = [Forgotten(Settled(v), v.path) EXCEPT !.tree[v.path] = None]
      PROVE  /\ Made([pass.known EXCEPT ![v.path] = None],
                     [pass.tree EXCEPT ![v.path] = None], pass.vanished \ {v}, None)
             /\ SettledNow(v)
  <2>1. PICK r, p : r = Forgotten(Settled(v), v.path) /\ p = v.path
        OBVIOUS
  <2>2. r \in Passes /\ Rest(r, Settled(v)) /\ r.known = [Settled(v).known EXCEPT ![p] = None]
        BY <1>1, <2>1, SettledIs, ForgottenIs
  <2>3. r.tree \in [Paths -> TreeNodes \cup {None}]
        BY <2>2 DEF Passes
  <2>4. [r.tree EXCEPT ![p] = None] \in [Paths -> TreeNodes \cup {None}]
        BY <2>3
  <2>5. pass' = [r EXCEPT !.tree = [r.tree EXCEPT ![p] = None]]
        BY <1>2, <2>1, <2>2 DEF Passes
  <2>6. /\ pass' \in Passes /\ pass'.tree = [r.tree EXCEPT ![p] = None]
        /\ pass'.verdict = r.verdict /\ pass'.meta = r.meta /\ pass'.at = r.at
        /\ pass'.vanished = r.vanished /\ pass'.known = r.known /\ pass'.half = r.half
        /\ pass'.queue = r.queue /\ pass'.late = r.late /\ pass'.handled = r.handled
        BY <2>2, <2>4, <2>5 DEF Passes
  <2>   QED BY <1>1, <2>1, <2>2, <2>6, SettledIs, Apart
            DEF Made, SamePictures, Rest, SettledNow
<1>3. ASSUME pass' = Settled(v)
      PROVE  /\ Made(pass.known, pass.tree, pass.vanished \ {v}, None) /\ SettledNow(v)
      BY <1>1, <1>3, SettledIs, Apart DEF Made, SamePictures, SettledNow
<1>4. /\ Where(v.node) = {v.path} /\ ~PreferLocal /\ AsWalked(v.node)
      /\ v.node \in Live /\ Trash(v.node)
      /\ \/ pass' = [Forgotten(Settled(v), v.path) EXCEPT !.tree[v.path] = None]
         \/ pass' = Settled(v) /\ MayNotSucceed
      BY DEF PushDelete, NotThere, AsWalked, Answered, MayFail
<1>   QED BY <1>1, <1>2, <1>3, <1>4

LEMMA FailDeleteIs ==
    ASSUME TypeInv, NEW v \in pass.vanished, FailDelete(v)
    PROVE  /\ FilesDone /\ pass # None /\ ~PreferLocal
           /\ Made(pass.known, pass.tree, pass.vanished \ {v}, None) /\ SettledNow(v)
<1>1. TypeOK /\ FilesDone /\ pass # None /\ ~PreferLocal /\ pass' = Settled(v)
      BY DEF FailDelete, FilesDone, TypeInv
<1>   QED BY <1>1, SettledIs, Apart DEF Made, SamePictures, SettledNow

LEMMA HandledIs ==
    ASSUME TypeOK, FilesDone, NEW p \in Paths
    PROVE  /\ Handled(p) \in Passes /\ SamePictures(Handled(p))
           /\ Handled(p).tree = pass.tree /\ Handled(p).known = pass.known
           /\ Handled(p).vanished = pass.vanished /\ Handled(p).half = None
           /\ Handled(p).queue = {} /\ Handled(p).late = {}
           /\ Handled(p).handled = pass.handled \cup {p}
<1>1. pass \in Passes /\ pass.half = None /\ pass.queue = {} /\ pass.late = {}
      BY PassTyped DEF FilesDone
<1>   QED BY <1>1 DEF Handled, Passes, SamePictures

LEMMA PullRestIs ==
    ASSUME TypeInv, NEW p \in Paths, PullRest(p)
    PROVE  /\ FilesDone /\ pass # None /\ pass.vanished = {} /\ On(p) # None
           /\ p \notin pass.handled
           /\ Made([pass.known EXCEPT ![p] = Entry(On(p).node, On(p).sha, On(p).sha)],
                   pass.tree, pass.vanished, None)
           /\ pass'.queue = {} /\ pass'.late = {} /\ pass'.handled = pass.handled \cup {p}
           /\ disk' = [disk EXCEPT ![p] = On(p).sha]
<1>1. /\ TypeOK /\ FilesDone /\ pass # None /\ pass.vanished = {} /\ On(p) # None
      /\ p \notin pass.handled /\ PullInto(p, Handled(p))
      BY DEF PullRest, ServerOnly, FilesDone, TypeInv
<1>   QED BY <1>1, HandledIs, PullIntoIs

LEMMA FailPullIs ==
    ASSUME TypeInv, NEW p \in Paths, FailPull(p)
    PROVE  /\ FilesDone /\ pass # None /\ pass.vanished = {} /\ On(p) # None /\ MayNotSucceed
           /\ Made(pass.known, pass.tree, pass.vanished, None)
           /\ pass'.queue = {} /\ pass'.late = {} /\ pass'.handled = pass.handled \cup {p}
<1>1. /\ TypeOK /\ FilesDone /\ pass # None /\ pass.vanished = {} /\ On(p) # None
      /\ pass' = Handled(p) /\ MayNotSucceed
      BY DEF FailPull, ServerOnly, FilesDone, TypeInv, MayFail
<1>   QED BY <1>1, HandledIs, Apart DEF Made, SamePictures

\* resolveConflict, called from either place.
LEMMA ResolvingIs ==
    ASSUME TypeInv, NEW p, Conflict(p) \/ BaseMismatch(p)
    PROVE  \E n \in Nodes, sha \in Contents :
               /\ CopyAside(p, n, sha) \/ Bind(p, n, sha)
               /\ p \in Paths /\ pass # None /\ disk[p] # None
               /\ \/ /\ Turn(p) /\ Decide(p) \in {"conflict", "push-edit"} /\ On(p) # None
                     /\ pass.half = None /\ pass.verdict # "reset"
                  \/ Halfway(p, "edit") /\ pass.half # None
               /\ \/ On(p) # None /\ sha = On(p).sha
                  \/ n \in Live /\ sha = nodes[n].sha
<1>1. TypeOK
      BY DEF TypeInv
<1>2. CASE Conflict(p)
  <2>1. /\ Turn(p) /\ Decide(p) = "conflict" /\ pass # None /\ p \in Paths /\ disk[p] # None
        /\ pass.half = None /\ pass.verdict # "reset" /\ On(p) # None
        BY <1>1, <1>2, Due, Decided DEF Conflict, Reconciling
  <2>2. On(p).node \in Nodes /\ On(p).sha \in Contents
        BY <1>1, <2>1, OnTyped
  <2>3. CopyAside(p, On(p).node, On(p).sha) \/ Bind(p, On(p).node, On(p).sha)
        BY <1>2 DEF Conflict
  <2>   QED BY <2>1, <2>2, <2>3
<1>3. CASE BaseMismatch(p)
  <2>1. PICK n : n = On(p).node
        OBVIOUS
  <2>2. /\ n \in Live /\ disk[p] # None /\ Editing(p)
        /\ CopyAside(p, n, nodes[n].sha) \/ Bind(p, n, nodes[n].sha)
        BY <1>3, <2>1 DEF BaseMismatch
  <2>3. n \in Nodes /\ nodes[n].sha \in Contents
        BY <1>1, <2>2 DEF TypeOK, Live, Rows
  <2>   QED BY <1>1, <2>2, <2>3, EditingIs
<1>   QED BY <1>2, <1>3

\* The server and the bounds.
ServerTyped ==
    /\ nodes \in [Nodes -> Rows \cup {None}]
    /\ held \subseteq Contents /\ issued \subseteq Nodes /\ epoch \in Epochs
    /\ backup \in Backups \cup {None}
DoneTyped ==
    done \in [remote : 0..MaxRemote, local : 0..MaxLocal, faults : 0..MaxFaults,
              epochs : 0..MaxEpochs]

LEMMA LiveTyped ==
    ASSUME TypeOK, NEW n \in Live
    PROVE  n \in Nodes /\ nodes[n] \in Rows /\ nodes[n].sha \in Contents /\ nodes[n].path \in Paths
BY DEF TypeOK, Live, Rows

LEMMA CreateTyped ==
    ASSUME TypeOK, NEW p \in Paths, NEW c \in Contents, Create(p, c)
    PROVE  ServerTyped' /\ issued \subseteq issued'
<1>1. Fresh \in Nodes
      BY FreshIs DEF Create
<1>2. [path |-> p, sha |-> c, rev |-> 1, live |-> TRUE] \in Rows
      BY DEF Rows
<1>   QED BY <1>1, <1>2 DEF Create, TypeOK, ServerTyped

LEMMA RowChanged ==
    ASSUME TypeOK, NEW n \in Nodes, NEW row \in Rows, nodes' = [nodes EXCEPT ![n] = row],
           held' \subseteq Contents, UNCHANGED <<issued, epoch, backup>>
    PROVE  ServerTyped' /\ issued \subseteq issued'
BY DEF TypeOK, ServerTyped

LEMMA EditTyped ==
    ASSUME TypeOK, NEW n \in Live, NEW c \in Contents, Edit(n, c)
    PROVE  ServerTyped' /\ issued \subseteq issued'
<1>1. n \in Nodes /\ nodes[n] \in Rows /\ nodes \in [Nodes -> Rows \cup {None}]
      BY LiveTyped DEF TypeOK
<1>2. PICK o, row : o = nodes[n] /\ row = [o EXCEPT !.sha = c, !.rev = o.rev + 1]
      OBVIOUS
<1>3. o \in Rows /\ o.rev + 1 \in Nat \ {0}
      BY <1>1, <1>2 DEF Rows
<1>4. row \in Rows
      BY <1>2, <1>3 DEF Rows
<1>5. nodes' = [nodes EXCEPT ![n] = row]
      BY <1>1, <1>2 DEF Edit, Rows
<1>6. held' \subseteq Contents /\ UNCHANGED <<issued, epoch, backup>>
      BY DEF Edit, TypeOK
<1>   QED BY <1>1, <1>4, <1>5, <1>6, RowChanged

LEMMA MoveTyped ==
    ASSUME TypeOK, NEW n \in Live, NEW p \in Paths, Move(n, p)
    PROVE  ServerTyped' /\ issued \subseteq issued'
<1>1. n \in Nodes /\ nodes[n] \in Rows /\ nodes \in [Nodes -> Rows \cup {None}]
      BY LiveTyped DEF TypeOK
<1>2. PICK o, row : o = nodes[n] /\ row = [o EXCEPT !.path = p, !.rev = o.rev + 1]
      OBVIOUS
<1>3. o \in Rows /\ o.rev + 1 \in Nat \ {0}
      BY <1>1, <1>2 DEF Rows
<1>4. row \in Rows
      BY <1>2, <1>3 DEF Rows
<1>5. nodes' = [nodes EXCEPT ![n] = row]
      BY <1>1, <1>2 DEF Move, Rows
<1>6. held' \subseteq Contents /\ UNCHANGED <<issued, epoch, backup>>
      BY DEF Move, TypeOK
<1>   QED BY <1>1, <1>4, <1>5, <1>6, RowChanged

LEMMA TrashTyped ==
    ASSUME TypeOK, NEW n \in Live, Trash(n)
    PROVE  ServerTyped' /\ issued \subseteq issued'
<1>1. n \in Nodes /\ nodes[n] \in Rows /\ nodes \in [Nodes -> Rows \cup {None}]
      BY LiveTyped DEF TypeOK
<1>2. PICK o, row : o = nodes[n] /\ row = [o EXCEPT !.live = FALSE, !.rev = o.rev + 1]
      OBVIOUS
<1>3. o \in Rows /\ o.rev + 1 \in Nat \ {0}
      BY <1>1, <1>2 DEF Rows
<1>4. row \in Rows
      BY <1>2, <1>3 DEF Rows
<1>5. nodes' = [nodes EXCEPT ![n] = row]
      BY <1>1, <1>2 DEF Trash, Rows
<1>6. held' \subseteq Contents /\ UNCHANGED <<issued, epoch, backup>>
      BY DEF Trash, TypeOK
<1>   QED BY <1>1, <1>4, <1>5, <1>6, RowChanged

LEMMA ReviveTyped ==
    ASSUME TypeOK, NEW n \in Nodes, nodes[n] # None, Revive(n)
    PROVE  ServerTyped' /\ issued \subseteq issued'
<1>1. n \in Nodes /\ nodes[n] \in Rows /\ nodes \in [Nodes -> Rows \cup {None}]
      BY DEF TypeOK
<1>2. PICK o, row : o = nodes[n] /\ row = [o EXCEPT !.live = TRUE, !.rev = o.rev + 1]
      OBVIOUS
<1>3. o \in Rows /\ o.rev + 1 \in Nat \ {0}
      BY <1>1, <1>2 DEF Rows
<1>4. row \in Rows
      BY <1>2, <1>3 DEF Rows
<1>5. nodes' = [nodes EXCEPT ![n] = row]
      BY <1>1, <1>2 DEF Revive, Rows
<1>6. held' \subseteq Contents /\ UNCHANGED <<issued, epoch, backup>>
      BY DEF Revive, TypeOK
<1>   QED BY <1>1, <1>4, <1>5, <1>6, RowChanged

\* An event is counted, and counted once.
LEMMA Spent ==
    ASSUME TypeOK
    PROVE  /\ Spend("remote") /\ done.remote < MaxRemote => DoneTyped' /\ done' # done
           /\ Spend("local") /\ done.local < MaxLocal =>
                DoneTyped' /\ done' # done /\ done'.remote = done.remote
           /\ Spend("faults") /\ done.faults < MaxFaults =>
                DoneTyped' /\ done' # done /\ done'.remote = done.remote
           /\ Spend("epochs") /\ done.epochs < MaxEpochs =>
                DoneTyped' /\ done' # done /\ done'.remote = done.remote
<1>1. /\ MaxRemote \in Nat /\ MaxLocal \in Nat /\ MaxFaults \in Nat /\ MaxEpochs \in Nat
      BY BoundsAssumption
<1>2. done \in [remote : 0..MaxRemote, local : 0..MaxLocal, faults : 0..MaxFaults,
                epochs : 0..MaxEpochs]
      BY DEF TypeOK
<1>3. ASSUME Spend("remote"), done.remote < MaxRemote
      PROVE  DoneTyped' /\ done' # done
  <2>1. done' = [done EXCEPT !.remote = done.remote + 1]
        BY <1>2, <1>3 DEF Spend
  <2>2. done'.remote = done.remote + 1 /\ done.remote + 1 \in 0..MaxRemote
        BY <1>1, <1>2, <1>3, <2>1
  <2>   QED BY <1>1, <1>2, <2>1, <2>2 DEF DoneTyped
<1>4. ASSUME Spend("local"), done.local < MaxLocal
      PROVE  DoneTyped' /\ done' # done /\ done'.remote = done.remote
  <2>1. done' = [done EXCEPT !.local = done.local + 1]
        BY <1>2, <1>4 DEF Spend
  <2>2. done'.local = done.local + 1 /\ done.local + 1 \in 0..MaxLocal
        BY <1>1, <1>2, <1>4, <2>1
  <2>   QED BY <1>1, <1>2, <2>1, <2>2 DEF DoneTyped
<1>5. ASSUME Spend("faults"), done.faults < MaxFaults
      PROVE  DoneTyped' /\ done' # done /\ done'.remote = done.remote
  <2>1. done' = [done EXCEPT !.faults = done.faults + 1]
        BY <1>2, <1>5 DEF Spend
  <2>2. done'.faults = done.faults + 1 /\ done.faults + 1 \in 0..MaxFaults
        BY <1>1, <1>2, <1>5, <2>1
  <2>   QED BY <1>1, <1>2, <2>1, <2>2 DEF DoneTyped
<1>6. ASSUME Spend("epochs"), done.epochs < MaxEpochs
      PROVE  DoneTyped' /\ done' # done /\ done'.remote = done.remote
  <2>1. done' = [done EXCEPT !.epochs = done.epochs + 1]
        BY <1>2, <1>6 DEF Spend
  <2>2. done'.epochs = done.epochs + 1 /\ done.epochs + 1 \in 0..MaxEpochs
        BY <1>1, <1>2, <1>6, <2>1
  <2>   QED BY <1>1, <1>2, <2>1, <2>2 DEF DoneTyped
<1>   QED BY <1>3, <1>4, <1>5, <1>6

\* The walk and the measuring that a pass starts with.
LEMMA WalkedIs ==
    ASSUME TypeOK
    PROVE  /\ Walked \in [Paths -> TreeNodes \cup {None}]
           /\ \A p \in Paths : Walked[p] # None =>
                 \E n \in Live : /\ nodes[n].path = p
                                 /\ Walked[p].node = n /\ Walked[p].sha = nodes[n].sha
<1>1. ASSUME NEW p \in Paths, ~Free(p)
      PROVE  /\ Walked[p] \in TreeNodes
             /\ \E n \in Live : /\ nodes[n].path = p
                                /\ Walked[p].node = n /\ Walked[p].sha = nodes[n].sha
  <2>1. \E m \in Live : nodes[m].path = p
        BY <1>1 DEF Free
  <2>2. PICK n : n = CHOOSE m \in Live : nodes[m].path = p
        OBVIOUS
  <2>3. n \in Live /\ nodes[n].path = p
        BY <2>1, <2>2
  <2>4. Walked[p] = [node |-> n, sha |-> nodes[n].sha, rev |-> nodes[n].rev]
        BY <1>1, <2>2 DEF Walked
  <2>5. n \in Nodes /\ nodes[n] \in Rows
        BY <2>3, LiveTyped
  <2>   QED BY <2>3, <2>4, <2>5 DEF Rows, TreeNodes
<1>2. \A p \in Paths : Free(p) => Walked[p] = None
      BY DEF Walked
<1>3. \A p \in Paths : Walked[p] \in TreeNodes \cup {None}
      BY <1>1, <1>2
<1>4. Walked \in [Paths -> TreeNodes \cup {None}]
      BY <1>3 DEF Walked
<1>   QED BY <1>1, <1>2, <1>4

\* What the store remembers of a path.
Remembered(p) == [path |-> p, node |-> state.known[p].node,
                  hash |-> state.known[p].hash, sha |-> state.known[p].sha]

LEMMA StartPassIs ==
    ASSUME TypeOK, StartPass
    PROVE  /\ pass = None /\ pass' # None /\ pass' \in Passes
           /\ pass'.verdict = Verdict /\ pass'.tree = Walked /\ pass'.meta = disk
           /\ pass'.known = IF Verdict = "reset" THEN Nothing ELSE state.known
           /\ pass'.vanished =
                IF Verdict = "reset" THEN {}
                ELSE {Remembered(p) : p \in {q \in Paths : state.known[q] # None
                                                           /\ disk[q] = None}}
           /\ pass'.queue = {p \in Paths : disk[p] # None}
           /\ pass'.late = {} /\ pass'.handled = {} /\ pass'.half = None /\ pass'.at = epoch
<1>1. Verdict \in {"continuous", "restore", "reset"}
      BY DEF Verdict
<1>2. Walked \in [Paths -> TreeNodes \cup {None}] /\ disk \in Files /\ epoch \in Epochs
      BY WalkedIs DEF TypeOK
<1>3. PICK known : known = IF Verdict = "reset" THEN Nothing ELSE state.known
      OBVIOUS
<1>4. known \in Knowledge
  <2>1. state.known \in Knowledge
        BY DEF TypeOK
  <2>2. Nothing \in Knowledge
        BY DEF Nothing, Knowledge
  <2>   QED BY <1>3, <2>1, <2>2
<1>5. PICK gone : gone = IF Verdict = "reset" THEN {}
                         ELSE {Remembered(p) : p \in {q \in Paths : state.known[q] # None
                                                                    /\ disk[q] = None}}
      OBVIOUS
<1>6. gone \subseteq Vanished
  <2>1. ASSUME NEW p \in Paths, state.known[p] # None
        PROVE  Remembered(p) \in Vanished
    <3>1. state.known[p] \in KnownNodes
          BY <2>1 DEF TypeOK, Knowledge
    <3>   QED BY <3>1 DEF Remembered, Vanished, KnownNodes
  <2>   QED BY <1>5, <2>1
<1>7. pass' = [verdict |-> Verdict, tree |-> Walked, meta |-> disk, known |-> known,
               vanished |-> gone, queue |-> {p \in Paths : disk[p] # None},
               late |-> {}, handled |-> {}, half |-> None, at |-> epoch]
      BY <1>3, <1>5 DEF StartPass, Remembered
<1>8. {p \in Paths : disk[p] # None} \subseteq Paths
      OBVIOUS
<1>9. pass' \in Passes
      BY <1>1, <1>2, <1>4, <1>6, <1>7, <1>8 DEF Passes
<1>10. /\ pass'.verdict = Verdict /\ pass'.tree = Walked /\ pass'.meta = disk
       /\ pass'.known = known /\ pass'.vanished = gone
       /\ pass'.queue = {p \in Paths : disk[p] # None}
       /\ pass'.late = {} /\ pass'.handled = {} /\ pass'.half = None /\ pass'.at = epoch
      BY <1>7
<1>11. pass = None /\ pass' # None
      BY <1>9, Apart DEF StartPass
<1>   QED BY <1>3, <1>5, <1>9, <1>10, <1>11

\* The half of a job leaves what the next half goes on from.
LEMMA MadeTyped ==
    ASSUME NEW known, NEW tree, NEW vanished, NEW half, Made(known, tree, vanished, half)
    PROVE  pass' \in Passes /\ pass' # None
BY DEF Made

LEMMA NoHalf ==
    ASSUME NEW known, NEW tree, NEW vanished, Made(known, tree, vanished, None)
    PROVE  pass' \in Passes /\ pass' # None /\ HalfPoints'
BY DEF Made, HalfPoints

LEMMA OtherHalf ==
    ASSUME NEW known, NEW tree, NEW vanished, NEW half, half.job \notin {"drop", "fill"},
           Made(known, tree, vanished, half)
    PROVE  pass' \in Passes /\ pass' # None /\ HalfPoints'
BY DEF Made, HalfPoints

\* The disk after one write.
LEMMA WrittenTyped ==
    ASSUME TypeOK, NEW p \in Paths, NEW c \in Contents \cup {None}, disk' = [disk EXCEPT ![p] = c]
    PROVE  disk' \in Files
BY DEF TypeOK, Files

\* A step of a pass that leaves the server and the bounds alone ...
LocalTyped ==
    /\ UNCHANGED <<server, state, dropped, done>>
    /\ disk' \in Files /\ kept' \in [Paths -> SUBSET Contents]
    /\ pass' \in Passes \cup {None} /\ HalfPoints'

LEMMA LocalKeeps ==
    ASSUME TypeInv, LocalTyped
    PROVE  TypeInv'
BY DEF TypeInv, TypeOK, LocalTyped, server

\* ... and one that leaves the disk alone.
RemoteTyped ==
    /\ UNCHANGED <<disk, kept, state, dropped>>
    /\ ServerTyped' /\ issued \subseteq issued' /\ DoneTyped'
    /\ pass' \in Passes \cup {None} /\ HalfPoints'

LEMMA RemoteKeeps ==
    ASSUME TypeInv, RemoteTyped
    PROVE  TypeInv'
BY DEF TypeInv, TypeOK, RemoteTyped, ServerTyped, DoneTyped

LEMMA LeaveAloneTyped == ASSUME TypeInv, NEW p, LeaveAlone(p) PROVE LocalTyped
<1>1. pass' \in Passes /\ HalfPoints'
      BY LeaveAloneIs, NoHalf
<1>   QED BY <1>1 DEF LocalTyped, LeaveAlone, TypeInv, TypeOK

LEMMA PullTyped == ASSUME TypeInv, NEW p, Pull(p) PROVE LocalTyped
<1>1. pass' \in Passes /\ HalfPoints'
      BY PullIs, NoHalf
<1>2. TypeOK /\ pass # None /\ p \in Paths /\ On(p) # None /\ disk' = [disk EXCEPT ![p] = On(p).sha]
      BY PullIs, Due DEF TypeInv
<1>3. disk' \in Files
      BY <1>2, OnTyped, WrittenTyped
<1>   QED BY <1>1, <1>3 DEF LocalTyped, Pull, PullInto, TypeInv, TypeOK

LEMMA AdoptTyped == ASSUME TypeInv, NEW p, Adopt(p) PROVE LocalTyped
<1>1. pass' \in Passes /\ HalfPoints'
      BY AdoptIs, NoHalf
<1>   QED BY <1>1 DEF LocalTyped, Adopt, TypeInv, TypeOK

LEMMA ResolvingTyped ==
    ASSUME TypeInv, NEW p, Conflict(p) \/ BaseMismatch(p) PROVE LocalTyped
<1>1. PICK n \in Nodes, sha \in Contents :
        /\ CopyAside(p, n, sha) \/ Bind(p, n, sha)
        /\ p \in Paths /\ pass # None /\ disk[p] # None
      BY ResolvingIs
<1>2. TypeOK /\ disk[p] \in Contents
      BY <1>1, MeasuredTyped DEF TypeInv
<1>3. CASE CopyAside(p, n, sha)
  <2>1. PICK q \in CopyNames(p) :
          /\ q \in Paths /\ disk' = [disk EXCEPT ![q] = disk[p]]
          /\ Made(pass.known, pass.tree, pass.vanished, TakeHalf(p, n, sha, q))
        BY <1>1, <1>2, <1>3, CopyAsideIs
  <2>2. TakeHalf(p, n, sha, q).job = "take"
        BY DEF TakeHalf
  <2>3. pass' \in Passes /\ HalfPoints' /\ disk' \in Files
        BY <1>2, <2>1, <2>2, OtherHalf, WrittenTyped
  <2>   QED BY <1>3, <2>3 DEF LocalTyped, CopyAside, TypeInv, TypeOK
<1>4. CASE Bind(p, n, sha)
  <2>1. pass' \in Passes /\ HalfPoints'
        BY <1>1, <1>2, <1>4, BindIs, NoHalf
  <2>   QED BY <1>4, <2>1 DEF LocalTyped, Bind, TypeInv, TypeOK
<1>   QED BY <1>1, <1>3, <1>4

LEMMA TakeServerTyped == ASSUME TypeInv, NEW p, TakeServer(p) PROVE LocalTyped
<1>1. pass' \in Passes /\ HalfPoints'
      BY TakeServerIs, NoHalf
<1>2. TypeOK /\ p \in Paths /\ pass.half.sha \in Contents
      /\ disk' = [disk EXCEPT ![p] = pass.half.sha]
      BY TakeServerIs DEF TypeInv
<1>3. disk' \in Files
      BY <1>2, WrittenTyped
<1>   QED BY <1>1, <1>3 DEF LocalTyped, TakeServer, TypeInv, TypeOK

LEMMA FollowRenameTyped == ASSUME TypeInv, NEW p, FollowRename(p) PROVE LocalTyped
<1>1. PICK to \in Paths :
        /\ Turn(p) /\ disk[p] # None /\ Known(p) # None /\ to # p /\ On(to) # None
        /\ disk' = [disk EXCEPT ![to] = disk[p]]
        /\ Made(pass.known, pass.tree, pass.vanished, DropHalf(p, to, Measured(p)))
      BY FollowRenameIs
<1>2. TypeOK /\ pass # None /\ p \in Paths
      BY <1>1, Due DEF TypeInv
<1>3. disk' \in Files
      BY <1>1, <1>2, MeasuredTyped, WrittenTyped
<1>4. PICK h : h = DropHalf(p, to, Measured(p))
      OBVIOUS
<1>5. h.job = "drop" /\ h.path = p /\ h.to = to
      BY <1>4 DEF DropHalf
<1>6. pass' \in Passes /\ HalfPoints'
      BY <1>1, <1>4, <1>5 DEF Made, HalfPoints, On, Known
<1>   QED BY <1>3, <1>6 DEF LocalTyped, FollowRename, TypeInv, TypeOK

LEMMA DropOldNameTyped == ASSUME TypeInv, NEW p, DropOldName(p) PROVE LocalTyped
<1>1. PICK h, known :
        /\ Made(known, pass.tree, pass.vanished, h)
        /\ h = IF Known(p).hash = pass.half.hash THEN None
               ELSE EditHalf(pass.half.to, pass.half.hash, Known(p).sha)
      BY DropOldNameIs
<1>2. h # None => h.job = "edit"
      BY <1>1 DEF EditHalf
<1>3. pass' \in Passes /\ HalfPoints'
      BY <1>1, <1>2 DEF Made, HalfPoints
<1>4. TypeOK /\ p \in Paths /\ disk' = [disk EXCEPT ![p] = None]
      BY DropOldNameIs DEF TypeInv
<1>5. disk' \in Files
      BY <1>4, WrittenTyped
<1>   QED BY <1>3, <1>5 DEF LocalTyped, DropOldName, TypeInv, TypeOK

LEMMA RemoveLocalTyped == ASSUME TypeInv, NEW p, RemoveLocal(p) PROVE LocalTyped
<1>1. pass' \in Passes /\ HalfPoints'
      BY RemoveLocalIs, NoHalf
<1>2. TypeOK /\ p \in Paths /\ disk' = [disk EXCEPT ![p] = None]
      BY RemoveLocalIs, Due DEF TypeInv
<1>3. disk' \in Files
      BY <1>2, WrittenTyped
<1>   QED BY <1>1, <1>3 DEF LocalTyped, RemoveLocal, TypeInv, TypeOK

LEMMA RebindTyped == ASSUME TypeInv, NEW p, Rebind(p) PROVE LocalTyped
<1>1. pass' \in Passes /\ HalfPoints'
      BY RebindIs, NoHalf
<1>   QED BY <1>1 DEF LocalTyped, Rebind, TypeInv, TypeOK

LEMMA QuarantineTyped == ASSUME TypeInv, NEW p, Quarantine(p) PROVE LocalTyped
<1>1. ResetHalf("erase", p).job = "erase"
      BY DEF ResetHalf
<1>2. Made(pass.known, pass.tree, pass.vanished, ResetHalf("erase", p))
      BY QuarantineIs
<1>3. pass' \in Passes /\ HalfPoints'
      BY <1>1, <1>2, OtherHalf
<1>4. TypeOK /\ pass # None /\ p \in Paths /\ disk[p] # None
      BY QuarantineIs, Due DEF TypeInv
<1>5. disk[p] \in Contents
      BY <1>4, MeasuredTyped
<1>6. kept' \in [Paths -> SUBSET Contents]
  <2>1. PICK cs : cs = {disk[p]} \cup IF "second quarantine" \in Mishaps THEN {} ELSE kept[p]
        OBVIOUS
  <2>2. cs \subseteq Contents
        BY <1>4, <1>5, <2>1 DEF TypeOK
  <2>3. kept' = [kept EXCEPT ![p] = cs]
        BY <2>1, QuarantineIs
  <2>   QED BY <1>4, <2>2, <2>3 DEF TypeOK
<1>   QED BY <1>3, <1>6 DEF LocalTyped, Quarantine, TypeInv, TypeOK

LEMMA EraseTyped == ASSUME TypeInv, NEW p, Erase(p) PROVE LocalTyped
<1>1. PICK h : h = IF On(p) = None THEN None ELSE ResetHalf("fill", p)
      OBVIOUS
<1>2. Made(pass.known, pass.tree, pass.vanished, h)
      BY <1>1, EraseIs
<1>3. h # None => h.job = "fill" /\ h.path = p /\ On(p) # None
      BY <1>1 DEF ResetHalf
<1>4. pass' \in Passes /\ HalfPoints'
      BY <1>2, <1>3 DEF Made, HalfPoints, On
<1>5. TypeOK /\ p \in Paths /\ disk' = [disk EXCEPT ![p] = None]
      BY EraseIs DEF TypeInv
<1>6. disk' \in Files
      BY <1>5, WrittenTyped
<1>   QED BY <1>4, <1>6 DEF LocalTyped, Erase, TypeInv, TypeOK

LEMMA FillTyped == ASSUME TypeInv, NEW p, Fill(p) PROVE LocalTyped
<1>1. pass' \in Passes /\ HalfPoints'
      BY FillIs, NoHalf
<1>2. TypeOK /\ pass # None /\ p \in Paths /\ On(p) # None /\ disk' = [disk EXCEPT ![p] = On(p).sha]
      BY FillIs, HalfwayIs DEF TypeInv
<1>3. disk' \in Files
      BY <1>2, OnTyped, WrittenTyped
<1>   QED BY <1>1, <1>3 DEF LocalTyped, Fill, PullInto, TypeInv, TypeOK

\* The bounds after a call that may have been answered or lost.
LEMMA AnsweredTyped ==
    ASSUME TypeOK, NEW learnt, NEW lost, Answered(learnt, lost)
    PROVE  DoneTyped' /\ done'.remote = done.remote
<1>1. DoneTyped
      BY DEF TypeOK, DoneTyped
<1>2. CASE UNCHANGED done
      BY <1>1, <1>2 DEF DoneTyped
<1>3. CASE MayFail /\ Spend("faults")
      BY <1>3, Spent DEF MayFail
<1>   QED BY <1>2, <1>3 DEF Answered

LEMMA PushEditTyped == ASSUME TypeInv, NEW p, PushEdit(p) PROVE RemoteTyped
<1>1. PICK n \in Live :
        /\ disk[p] \in Contents /\ Edit(n, disk[p])
        /\ \/ Made([pass.known EXCEPT ![p] = Entry(n, EditHash(p), disk[p])],
                   pass.tree, pass.vanished, None)
           \/ Lost
      BY PushEditIs
<1>2. TypeOK
      BY DEF TypeInv
<1>3. pass' \in Passes /\ HalfPoints'
      BY <1>1, NoHalf DEF Lost
<1>4. DoneTyped'
      BY <1>2, AnsweredTyped DEF PushEdit
<1>5. ServerTyped' /\ issued \subseteq issued'
      BY <1>1, <1>2, EditTyped
<1>   QED BY <1>3, <1>4, <1>5 DEF RemoteTyped, PushEdit

LEMMA PushNewTyped == ASSUME TypeInv, NEW p, PushNew(p) PROVE RemoteTyped
<1>1. PICK n \in Nodes \ issued :
        /\ p \in Paths /\ disk[p] \in Contents /\ Create(p, disk[p])
        /\ \/ Made([pass.known EXCEPT ![p] = Entry(n, Measured(p), disk[p])],
                   [pass.tree EXCEPT ![p] = Leaf(n, disk[p], 1)], pass.vanished, None)
           \/ Lost
      BY PushNewIs
<1>2. TypeOK
      BY DEF TypeInv
<1>3. pass' \in Passes /\ HalfPoints'
      BY <1>1, NoHalf DEF Lost
<1>4. DoneTyped'
      BY <1>2, AnsweredTyped DEF PushNew
<1>5. ServerTyped' /\ issued \subseteq issued'
      BY <1>1, <1>2, CreateTyped
<1>   QED BY <1>3, <1>4, <1>5 DEF RemoteTyped, PushNew

LEMMA PushMoveTyped == ASSUME TypeInv, NEW p, NEW v, PushMove(p, v) PROVE RemoteTyped
<1>1. /\ p \in Paths /\ v.node \in Live /\ Move(v.node, p)
      /\ \/ Made([[pass.known EXCEPT ![v.path] = None]
                     EXCEPT ![p] = Entry(v.node, v.hash, v.sha)],
                 MovedTree(p, v), pass.vanished \ {v}, None)
         \/ UnmovedNow(p, v)
      BY PushMoveIs
<1>2. TypeOK
      BY DEF TypeInv
<1>3. pass' \in Passes /\ HalfPoints'
      BY <1>1, NoHalf DEF UnmovedNow
<1>4. DoneTyped'
      BY <1>2, AnsweredTyped DEF PushMove
<1>5. ServerTyped' /\ issued \subseteq issued'
      BY <1>1, <1>2, MoveTyped
<1>   QED BY <1>3, <1>4, <1>5 DEF RemoteTyped, PushMove

\* The server and the bounds, left as they are.
LEMMA SameTyped ==
    ASSUME TypeOK, UNCHANGED server
    PROVE  ServerTyped' /\ issued \subseteq issued'
BY DEF TypeOK, ServerTyped, server

LEMMA SameDone ==
    ASSUME TypeOK, UNCHANGED done \/ (Spend("faults") /\ done.faults < MaxFaults)
    PROVE  DoneTyped' /\ done'.remote = done.remote
<1>1. DoneTyped
      BY DEF TypeOK, DoneTyped
<1>2. CASE UNCHANGED done
      BY <1>1, <1>2 DEF DoneTyped
<1>   QED BY <1>2, Spent

LEMMA FailFileTyped == ASSUME TypeInv, NEW p, FailFile(p) PROVE RemoteTyped
<1>1. TypeOK /\ UNCHANGED <<server, disk, kept, state, dropped>>
      BY DEF FailFile, TypeInv
<1>2. pass' \in Passes /\ HalfPoints'
      BY FailFileIs, NoHalf DEF UnmovedNow
<1>3. DoneTyped'
      BY <1>1, SameDone DEF FailFile, MayFail
<1>4. ServerTyped' /\ issued \subseteq issued'
      BY <1>1, SameTyped
<1>   QED BY <1>1, <1>2, <1>3, <1>4 DEF RemoteTyped

LEMMA VanishedStepTyped == ASSUME TypeInv, VanishedStep PROVE RemoteTyped
<1>1. TypeOK
      BY DEF TypeInv
<1>2. PICK v \in pass.vanished : ForgetVanished(v) \/ PushDelete(v) \/ FailDelete(v)
      BY DEF VanishedStep
<1>3. CASE ForgetVanished(v)
  <2>1. FilesDone /\ pass' = Forgotten(Settled(v), v.path)
        /\ UNCHANGED <<server, disk, kept, state, dropped, done>>
        BY <1>3 DEF ForgetVanished
  <2>2. Made([pass.known EXCEPT ![v.path] = None], pass.tree, pass.vanished \ {v}, None)
        BY <1>1, <2>1, ForgottenNow
  <2>3. pass' \in Passes /\ HalfPoints'
        BY <2>2, NoHalf
  <2>4. DoneTyped' /\ ServerTyped' /\ issued \subseteq issued'
        BY <1>1, <2>1, SameTyped, SameDone
  <2>   QED BY <2>1, <2>3, <2>4 DEF RemoteTyped
<1>4. CASE PushDelete(v)
  <2>1. /\ v.node \in Live /\ Trash(v.node)
        /\ \/ Made([pass.known EXCEPT ![v.path] = None],
                   [pass.tree EXCEPT ![v.path] = None], pass.vanished \ {v}, None)
           \/ Made(pass.known, pass.tree, pass.vanished \ {v}, None)
        BY <1>4, PushDeleteIs
  <2>2. pass' \in Passes /\ HalfPoints'
        BY <2>1, NoHalf
  <2>3. DoneTyped'
        BY <1>1, <1>4, AnsweredTyped DEF PushDelete
  <2>4. ServerTyped' /\ issued \subseteq issued'
        BY <1>1, <2>1, TrashTyped
  <2>   QED BY <1>4, <2>2, <2>3, <2>4 DEF RemoteTyped, PushDelete
<1>5. CASE FailDelete(v)
  <2>1. pass' \in Passes /\ HalfPoints'
        BY <1>5, FailDeleteIs, NoHalf
  <2>2. UNCHANGED <<server, disk, kept, state, dropped>>
        BY <1>5 DEF FailDelete
  <2>3. DoneTyped'
        BY <1>1, <1>5, SameDone DEF FailDelete, MayFail
  <2>4. ServerTyped' /\ issued \subseteq issued'
        BY <1>1, <2>2, SameTyped
  <2>   QED BY <2>1, <2>2, <2>3, <2>4 DEF RemoteTyped
<1>   QED BY <1>2, <1>3, <1>4, <1>5

LEMMA PullRestTyped == ASSUME TypeInv, NEW p \in Paths, PullRest(p) PROVE LocalTyped
<1>1. pass' \in Passes /\ HalfPoints'
      BY PullRestIs, NoHalf
<1>2. TypeOK /\ pass # None /\ On(p) # None /\ disk' = [disk EXCEPT ![p] = On(p).sha]
      BY PullRestIs DEF TypeInv
<1>3. disk' \in Files
      BY <1>2, OnTyped, WrittenTyped
<1>   QED BY <1>1, <1>3 DEF LocalTyped, PullRest, PullInto, TypeInv, TypeOK

LEMMA FailPullTyped == ASSUME TypeInv, NEW p \in Paths, FailPull(p) PROVE RemoteTyped
<1>1. pass' \in Passes /\ HalfPoints'
      BY FailPullIs, NoHalf
<1>2. TypeOK /\ UNCHANGED <<server, disk, kept, state, dropped>>
      BY DEF FailPull, TypeInv
<1>3. DoneTyped' /\ ServerTyped' /\ issued \subseteq issued'
      BY <1>2, SameTyped, SameDone DEF FailPull, MayFail
<1>   QED BY <1>1, <1>2, <1>3 DEF RemoteTyped

\* The steps of a file, in the order of FileStep.
LEMMA FileStepTyped ==
    ASSUME TypeInv, NEW p, FileStep(p)
    PROVE  LocalTyped \/ RemoteTyped
<1>1. CASE LeaveAlone(p) \/ Pull(p) \/ Adopt(p) \/ TakeServer(p)
      BY <1>1, LeaveAloneTyped, PullTyped, AdoptTyped, TakeServerTyped
<1>2. CASE Conflict(p) \/ BaseMismatch(p)
      BY <1>2, ResolvingTyped
<1>3. CASE PushEdit(p) \/ PushNew(p) \/ \E v : PushMove(p, v)
      BY <1>3, PushEditTyped, PushNewTyped, PushMoveTyped
<1>4. CASE FollowRename(p) \/ DropOldName(p) \/ RemoveLocal(p)
      BY <1>4, FollowRenameTyped, DropOldNameTyped, RemoveLocalTyped
<1>5. CASE FailFile(p)
      BY <1>5, FailFileTyped
<1>6. CASE Rebind(p) \/ Quarantine(p) \/ Erase(p) \/ Fill(p)
      BY <1>6, RebindTyped, QuarantineTyped, EraseTyped, FillTyped
<1>   QED BY <1>1, <1>2, <1>3, <1>4, <1>5, <1>6 DEF FileStep

LEMMA PassStepTyped == ASSUME TypeInv, PassStep PROVE TypeInv'
<1>1. TypeOK
      BY DEF TypeInv
<1>2. CASE StartPass
  <2>1. pass' \in Passes /\ HalfPoints'
        BY <1>1, <1>2, StartPassIs DEF HalfPoints
  <2>   QED BY <1>1, <1>2, <2>1, LocalKeeps DEF LocalTyped, StartPass, TypeOK
<1>3. CASE \E p \in AtWork : FileStep(p)
      BY <1>3, FileStepTyped, LocalKeeps, RemoteKeeps
<1>4. CASE VanishedStep
      BY <1>4, VanishedStepTyped, RemoteKeeps
<1>5. CASE \E p \in Paths : PullRest(p) \/ FailPull(p)
      BY <1>5, PullRestTyped, FailPullTyped, LocalKeeps, RemoteKeeps
<1>6. CASE Save
  <2>1. pass # None /\ pass.known \in Knowledge /\ pass.at \in Epochs
        BY <1>1, <1>6, PassTyped DEF Save, FilesDone
  <2>2. state' \in [cursor : Epochs \cup {None}, known : Knowledge] /\ pass' = None
        BY <1>6, <2>1 DEF Save
  <2>3. HalfPoints'
        BY <2>2 DEF HalfPoints
  <2>   QED BY <1>1, <1>6, <2>2, <2>3 DEF Save, TypeInv, TypeOK, server
<1>   QED BY <1>2, <1>3, <1>4, <1>5, <1>6 DEF PassStep

\* The world leaves what a pass has in hand.
LEMMA WorldTyped ==
    ASSUME TypeInv, World
    PROVE  TypeInv' /\ (pass' = pass \/ (Crash /\ pass' = None))
<1>1. TypeOK /\ HalfPoints /\ DoneTyped
      BY DEF TypeInv, TypeOK, DoneTyped
<1>2. pass' = pass => HalfPoints'
      BY <1>1 DEF HalfPoints, On
<1>3. CASE Others
  <2>1. ServerTyped' /\ issued \subseteq issued'
    <3>1. CASE \E p \in Ordinary, c \in Contents : Create(p, c)
          BY <1>1, <3>1, CreateTyped DEF Ordinary
    <3>2. CASE \E n \in Live, c \in Contents :
                   nodes[n].path \in Ordinary /\ c # nodes[n].sha /\ Edit(n, c)
          BY <1>1, <3>2, EditTyped
    <3>3. CASE \E n \in Live, p \in Ordinary : Move(n, p)
          BY <1>1, <3>3, MoveTyped DEF Ordinary
    <3>4. CASE \E n \in Live : Trash(n)
          BY <1>1, <3>4, TrashTyped
    <3>5. CASE \E n \in Nodes \ Live : nodes[n] # None /\ Revive(n)
          BY <1>1, <3>5, ReviveTyped
    <3>   QED BY <1>3, <3>1, <3>2, <3>3, <3>4, <3>5 DEF Others
  <2>2. DoneTyped' /\ UNCHANGED <<disk, kept, state, pass, dropped>>
        BY <1>1, <1>3, Spent DEF Others
  <2>   QED BY <1>1, <1>2, <2>1, <2>2, RemoteKeeps DEF RemoteTyped, TypeOK
<1>4. CASE Person
  <2>1. DoneTyped' /\ UNCHANGED <<server, kept, state, pass>>
        BY <1>1, <1>4, Spent DEF Person
  <2>2. disk' \in Files /\ dropped' \subseteq issued
    <3>1. CASE \E p \in Ordinary, c \in Contents :
                   disk[p] # c /\ OnDisk(p, c) /\ UNCHANGED dropped
          BY <1>1, <3>1, WrittenTyped DEF Ordinary, OnDisk, TypeOK
    <3>2. CASE \E p \in Paths, q \in Ordinary \cup {None} :
                   /\ disk[p] # None /\ (q # None => disk[q] = None)
                   /\ disk' = [r \in Paths |-> CASE r = p -> None
                                               [] r = q -> disk[p]
                                               [] OTHER -> disk[r]]
                   /\ dropped' = dropped \cup
                         {n \in issued : state.known[p] # None /\ state.known[p].node = n}
      <4>1. PICK p \in Paths, q \in Ordinary \cup {None} :
              /\ disk' = [r \in Paths |-> CASE r = p -> None
                                          [] r = q -> disk[p]
                                          [] OTHER -> disk[r]]
              /\ dropped' = dropped \cup
                    {n \in issued : state.known[p] # None /\ state.known[p].node = n}
            BY <3>2
      <4>2. disk \in [Paths -> Contents \cup {None}]
            BY <1>1 DEF TypeOK, Files
      <4>3. disk' \in [Paths -> Contents \cup {None}]
            BY <4>1, <4>2
      <4>   QED BY <1>1, <4>1, <4>3 DEF TypeOK, Files
    <3>   QED BY <1>4, <3>1, <3>2 DEF Person
  <2>   QED BY <1>1, <1>2, <2>1, <2>2 DEF TypeInv, TypeOK, DoneTyped, server
<1>5. CASE BackUp
  <2>1. backup' \in Backups
    <3>1. backup' = [nodes |-> nodes, held |-> held, reset |-> epoch.reset]
          BY <1>5 DEF BackUp
    <3>   QED BY <1>1, <3>1 DEF TypeOK, Backups, Epochs
  <2>   QED BY <1>1, <1>2, <1>5, <2>1 DEF BackUp, TypeInv, TypeOK
<1>6. CASE RestoreServer
  <2>1. backup \in Backups
        BY <1>1, <1>6 DEF RestoreServer, TypeOK
  <2>2. nodes' \in [Nodes -> Rows \cup {None}] /\ held' \subseteq Contents /\ epoch' \in Epochs
        BY <1>1, <1>6, <2>1 DEF RestoreServer, TypeOK, Backups, Epochs
  <2>3. DoneTyped'
        BY <1>1, <1>6, Spent DEF RestoreServer
  <2>   QED BY <1>1, <1>2, <1>6, <2>2, <2>3 DEF RestoreServer, TypeInv, TypeOK, DoneTyped
<1>7. CASE ResetVault
  <2>1. nodes' \in [Nodes -> Rows \cup {None}] /\ held' \subseteq Contents /\ epoch' \in Epochs
    <3>1. epoch \in Epochs /\ epoch' = [epoch EXCEPT !.reset = epoch.reset + 1]
          BY <1>1, <1>7 DEF ResetVault, TypeOK, Epochs
    <3>2. epoch' \in Epochs
          BY <3>1 DEF Epochs
    <3>   QED BY <1>7, <3>2 DEF ResetVault
  <2>2. DoneTyped'
        BY <1>1, <1>7, Spent DEF ResetVault
  <2>   QED BY <1>1, <1>2, <1>7, <2>1, <2>2 DEF ResetVault, TypeInv, TypeOK, DoneTyped
<1>8. CASE Crash
  <2>1. DoneTyped' /\ pass' = None /\ UNCHANGED <<server, disk, kept, state, dropped>>
        BY <1>1, <1>8, Spent DEF Crash
  <2>2. HalfPoints'
        BY <2>1 DEF HalfPoints
  <2>   QED BY <1>1, <1>8, <2>1, <2>2 DEF TypeInv, TypeOK, DoneTyped, server
<1>9. CASE pass' = pass
      BY <1>3, <1>4, <1>5, <1>6, <1>7, <1>8, <1>9 DEF World
<1>10. pass' = pass \/ Crash
      BY DEF World, Others, Person, BackUp, RestoreServer, ResetVault
<1>   QED BY <1>8, <1>9, <1>10 DEF Crash

\* The node a history begins with.
First == CHOOSE m \in Nodes : TRUE

LEMMA InitTyped == ASSUME Init PROVE TypeInv
<1>1. PICK p \in Ordinary, c \in Contents \ Small, d \in Contents :
        /\ nodes = [m \in Nodes |-> IF m = First
                      THEN [path |-> p, sha |-> c, rev |-> 1, live |-> TRUE] ELSE None]
        /\ held = {c} /\ issued = {First}
        /\ epoch = [restore |-> 0, reset |-> 0] /\ backup = None
        /\ disk = [Nothing EXCEPT ![p] = d]
        /\ kept = [q \in Paths |-> {}]
        /\ \/ d = c /\ state = [cursor |-> epoch,
                known |-> [Nothing EXCEPT ![p] = [node |-> First, hash |-> c, sha |-> c]]]
           \/ state = [cursor |-> None, known |-> Nothing]
        /\ pass = None /\ dropped = {}
        /\ done = [remote |-> 0, local |-> 0, faults |-> 0, epochs |-> 0]
      BY DEF Init, First
<1>2. p \in Paths /\ First \in Nodes
      BY <1>1, SomeNode DEF Ordinary, First
<1>3. nodes \in [Nodes -> Rows \cup {None}]
  <2>1. [path |-> p, sha |-> c, rev |-> 1, live |-> TRUE] \in Rows
        BY <1>1, <1>2 DEF Rows
  <2>   QED BY <1>1, <2>1
<1>4. epoch \in Epochs
      BY <1>1 DEF Epochs
<1>5. Nothing \in [Paths -> {None}]
      BY DEF Nothing
<1>6. disk \in Files
      BY <1>1, <1>2, <1>5 DEF Files
<1>7. state \in [cursor : Epochs \cup {None}, known : Knowledge]
  <2>1. PICK k : k = [node |-> First, hash |-> c, sha |-> c]
        OBVIOUS
  <2>2. k \in KnownNodes
        BY <1>1, <1>2, <2>1 DEF KnownNodes
  <2>3. [Nothing EXCEPT ![p] = k] \in Knowledge /\ Nothing \in Knowledge
        BY <1>2, <1>5, <2>2 DEF Knowledge
  <2>4. \/ state = [cursor |-> epoch, known |-> [Nothing EXCEPT ![p] = k]]
        \/ state = [cursor |-> None, known |-> Nothing]
        BY <1>1, <2>1
  <2>   QED BY <1>4, <2>3, <2>4
<1>8. done \in [remote : 0..MaxRemote, local : 0..MaxLocal, faults : 0..MaxFaults,
                epochs : 0..MaxEpochs]
      BY <1>1, BoundsAssumption
<1>   QED BY <1>1, <1>2, <1>3, <1>4, <1>6, <1>7, <1>8 DEF TypeInv, TypeOK, HalfPoints

\* Whatever others, the person, faults, restores and resets do around a pass and
\* in the middle of it, the vault, the device, what a pass holds and what it
\* saves stay of their types, and the second half of a job finds what it needs.
LEMMA TypeStep == TypeInv /\ [Next]_vars => TypeInv'
<1>1. ASSUME TypeInv, Next PROVE TypeInv'
      BY <1>1, PassStepTyped, WorldTyped DEF Next
<1>2. ASSUME TypeInv, UNCHANGED vars PROVE TypeInv'
      BY <1>2 DEF vars, server, TypeInv, TypeOK, HalfPoints, On
<1>   QED BY <1>1, <1>2

THEOREM PassTypeCorrect == Spec => []TypeOK
<1>1. Init => TypeInv
      BY InitTyped
<1>2. TypeInv => TypeOK
      BY DEF TypeInv
<1>   QED BY <1>1, <1>2, TypeStep, PTL DEF Spec

------------------------------------------------------------------------------
(* What a pass may count on as it goes.                                     *)

\* Nobody writes here while a pass runs, and a day has a name for each copy.
Calm == "edit in a pass" \notin Mishaps /\ "second conflict" \notin Mishaps

\* A file whose turn is still to come is there.
Present == pass # None => \A p \in Ahead : disk[p] # None

\* A file that comes twice, by itself and as the copy of a conflict, is new.
Twice ==
    pass # None => \A p \in pass.queue \cap pass.late : Known(p) = None /\ On(p) = None

\* After a reset nothing is known, and nothing counts as vanished.
ResetFresh ==
    pass # None /\ pass.verdict = "reset" =>
        /\ pass.vanished = {} /\ pass.late = {}
        /\ \A p \in pass.queue : Known(p) = None

\* What vanished is on record, once, and no work waits at its path.
Gone ==
    pass # None => \A v \in pass.vanished :
        /\ Known(v.path) # None /\ v.path \notin Ahead
        /\ pass.half # None /\ pass.half.job = "drop" => pass.half.path # v.path
        /\ \A w \in pass.vanished : w.path = v.path => w = v

\* Between the halves of a job.
Between ==
    pass # None /\ pass.half # None =>
        LET half == pass.half IN
        /\ half.job \in {"erase", "fill"} <=> pass.verdict = "reset"
        /\ half.job = "take" =>
             /\ On(half.path) # None
             /\ Known(half.copy) = None /\ On(half.copy) = None /\ disk[half.copy] # None
        /\ half.job = "drop" => disk[half.to] # None /\ half.path \notin Ahead
        /\ half.job = "edit" => On(half.path) # None
        /\ half.job \in {"erase", "fill"} => half.path \notin Ahead /\ Known(half.path) = None

WorkInv == Present /\ Twice /\ ResetFresh /\ Gone /\ Between

\* A file done in one step: what is learnt and written is learnt and written at
\* p; elsewhere something may be forgotten, if it is no vanished path any more.
WholeJob(p) ==
    /\ pass # None /\ pass' # None /\ pass.half = None /\ pass'.half = None
    /\ p \in Ahead /\ p \in Paths /\ SamePictures(pass') /\ Rid(pass', p)
    /\ pass'.vanished \subseteq pass.vanished
    /\ disk'[p] # None \/ p \notin pass.queue \cap pass.late
    /\ \A q \in Paths \ {p} :
          /\ disk'[q] = disk[q]
          /\ pass'.tree[q] \in {pass.tree[q], None}
          /\ \/ pass'.known[q] = pass.known[q]
             \/ pass'.known[q] = None /\ \A v \in pass'.vanished : v.path # q

LEMMA WholeJobKeeps ==
    ASSUME TypeOK, WorkInv, NEW p, WholeJob(p)
    PROVE  WorkInv'
<1>1. /\ pass.queue \subseteq Paths /\ pass.late \subseteq Paths
      /\ \A v \in pass.vanished : v.path \in Paths
      BY PassTyped, VanishedTyped DEF WholeJob
<1>2. /\ pass'.queue \subseteq pass.queue /\ pass'.late \subseteq pass.late
      /\ p \notin pass'.queue \cap pass'.late
      /\ p \in pass'.queue \cup pass'.late => p \in pass.queue \cap pass.late
      BY DEF WholeJob, Rid, Ahead
<1>3. Present'
      BY <1>1, <1>2 DEF WorkInv, Present, WholeJob, Ahead
<1>4. Twice'
      BY <1>1, <1>2 DEF WorkInv, Twice, WholeJob, Known, On
<1>5. ResetFresh'
  <2>1. pass'.verdict = "reset" => p \notin pass'.queue
        BY <1>2 DEF WorkInv, ResetFresh, WholeJob, SamePictures, Rid, Ahead
  <2>   QED BY <1>1, <1>2, <2>1 DEF WorkInv, ResetFresh, WholeJob, SamePictures, Known
<1>6. Gone'
      BY <1>1, <1>2 DEF WorkInv, Gone, WholeJob, Known, Ahead
<1>7. Between'
      BY DEF Between, WholeJob
<1>   QED BY <1>3, <1>4, <1>5, <1>6, <1>7 DEF WorkInv

\* The second half of a job, done.
SecondHalf(p) ==
    /\ pass # None /\ pass' # None /\ pass.half # None /\ pass'.half = None
    /\ pass.half.path = p /\ p \in Paths /\ SamePictures(pass')
    /\ pass'.queue = pass.queue /\ pass'.vanished = pass.vanished /\ pass'.tree = pass.tree
    /\ \/ pass'.late = pass.late
       \/ pass.half.job = "take" /\ pass'.late = pass.late \cup {pass.half.copy}
    /\ disk'[p] # None \/ disk'[p] = disk[p]
    /\ pass'.known[p] = pass.known[p] \/ (pass'.known[p] # None /\ On(p) # None)
    /\ \A q \in Paths \ {p} : disk'[q] = disk[q] /\ pass'.known[q] = pass.known[q]

LEMMA SecondHalfKeeps ==
    ASSUME TypeOK, WorkInv, NEW p, SecondHalf(p)
    PROVE  WorkInv'
<1>1. /\ pass.queue \subseteq Paths /\ pass.late \subseteq Paths
      /\ \A v \in pass.vanished : v.path \in Paths
      BY PassTyped, VanishedTyped DEF SecondHalf
<1>2. pass.half.job = "take" => pass.half.copy \in Paths /\ pass.half.copy # p
  <2>1. pass.half \in Halves
        BY PassTyped DEF SecondHalf
  <2>2. pass.half.job = "take" => pass.half.copy \in Paths
        BY <2>1 DEF Halves
  <2>   QED BY <2>2 DEF WorkInv, Between, SecondHalf
<1>3. Present'
      BY <1>1, <1>2 DEF WorkInv, Present, Between, SecondHalf, Ahead
<1>4. Twice'
      BY <1>1, <1>2 DEF WorkInv, Twice, Between, SecondHalf, Known, On
<1>5. ResetFresh'
      BY <1>1 DEF WorkInv, ResetFresh, Between, SecondHalf, SamePictures, Known, Ahead
<1>6. Gone'
      BY <1>1, <1>2 DEF WorkInv, Gone, Between, SecondHalf, Known, Ahead
<1>7. Between'
      BY DEF Between, SecondHalf
<1>   QED BY <1>3, <1>4, <1>5, <1>6, <1>7 DEF WorkInv

LEMMA OneEntry ==
    ASSUME TypeOK, pass # None, pass.half = None, NEW p \in Paths, p \in Ahead, NEW e,
           \/ Made([pass.known EXCEPT ![p] = e], pass.tree, pass.vanished, None)
           \/ Made(pass.known, pass.tree, pass.vanished, None),
           Went(pass', p),
           \A q \in Paths \ {p} : disk'[q] = disk[q],
           disk'[p] # None \/ p \notin pass.queue \cap pass.late
    PROVE  WholeJob(p)
<1>1. pass.known \in [Paths -> KnownNodes \cup {None}]
      BY PassTyped DEF Knowledge
<1>2. \A q \in Paths \ {p} : pass'.known[q] = pass.known[q]
      BY <1>1 DEF Made
<1>3. Rid(pass', p)
      BY DEF Went, Rid
<1>   QED BY <1>2, <1>3 DEF Made, WholeJob

LEMMA WholeJobs ==
    ASSUME TypeInv, WorkInv, NEW p,
           \/ LeaveAlone(p) \/ Pull(p) \/ Adopt(p) \/ RemoveLocal(p) \/ Rebind(p)
    PROVE  WholeJob(p) /\ WorkInv'
<1>1. /\ TypeOK /\ Turn(p) /\ pass # None /\ pass.half = None /\ p \in Ahead /\ p \in Paths
      /\ disk[p] # None
  <2>1. TypeOK /\ Turn(p)
        BY LeaveAloneIs, PullIs, AdoptIs, RemoveLocalIs, RebindIs DEF TypeInv
  <2>2. pass # None /\ pass.half = None /\ p \in Ahead /\ p \in Paths
        BY <2>1, Due
  <2>   QED BY <2>1, <2>2 DEF WorkInv, Present
<1>2. PICK e : /\ \/ Made([pass.known EXCEPT ![p] = e], pass.tree, pass.vanished, None)
                  \/ Made(pass.known, pass.tree, pass.vanished, None)
               /\ Went(pass', p)
      BY LeaveAloneIs, PullIs, AdoptIs, RemoveLocalIs, RebindIs
<1>3. disk \in [Paths -> Contents \cup {None}]
      BY <1>1 DEF TypeOK, Files
<1>4. /\ \A q \in Paths \ {p} : disk'[q] = disk[q]
      /\ disk'[p] # None \/ p \notin pass.queue \cap pass.late
  <2>1. CASE LeaveAlone(p) \/ Adopt(p) \/ Rebind(p)
        BY <1>1, <2>1 DEF LeaveAlone, Adopt, Rebind
  <2>2. CASE Pull(p)
    <3>1. On(p).sha # None
          BY <1>1, <2>2, PullIs, OnTyped, Apart
    <3>   QED BY <1>1, <1>3, <2>2, <3>1, PullIs
  <2>3. CASE RemoveLocal(p)
    <3>1. Known(p) # None
          BY <2>3, RemoveLocalIs, Decided
    <3>2. p \notin pass.queue \cap pass.late
          BY <1>1, <3>1 DEF WorkInv, Twice
    <3>3. disk' = [disk EXCEPT ![p] = None]
          BY <1>1, <2>3, RemoveLocalIs
    <3>   QED BY <1>3, <3>2, <3>3
  <2>   QED BY <2>1, <2>2, <2>3
<1>5. WholeJob(p)
      BY <1>1, <1>2, <1>4, OneEntry
<1>   QED BY <1>1, <1>5, WholeJobKeeps

LEMMA CalmCopy ==
    ASSUME Calm, NEW p, NEW q \in CopyNames(p)
    PROVE  Known(q) = None /\ On(q) = None /\ disk[q] \in {None, disk[p]}
BY DEF Calm, CopyNames

\* A copy is set aside.
LEMMA CopyAsideKeeps ==
    ASSUME Calm, TypeOK, WorkInv, pass # None, NEW p \in Paths, NEW n \in Nodes,
           NEW sha \in Contents, disk[p] # None, CopyAside(p, n, sha), On(p) # None,
           pass.verdict # "reset"
    PROVE  WorkInv'
<1>1. PICK q \in CopyNames(p) :
        /\ q \in Paths /\ q # p /\ q \in CopyOf[p] /\ disk[p] # sha
        /\ disk' = [disk EXCEPT ![q] = disk[p]]
        /\ Made(pass.known, pass.tree, pass.vanished, TakeHalf(p, n, sha, q))
        /\ Went(pass', p)
      BY CopyAsideIs
<1>2. Known(q) = None /\ On(q) = None
      BY <1>1, CalmCopy
<1>3. PICK h : h = TakeHalf(p, n, sha, q)
      OBVIOUS
<1>4. h.job = "take" /\ h.path = p /\ h.copy = q
      BY <1>3 DEF TakeHalf
<1>5. /\ pass'.queue \subseteq pass.queue /\ pass'.late \subseteq pass.late
      /\ pass' # None /\ pass'.half = h /\ SamePictures(pass')
      /\ pass'.known = pass.known /\ pass'.tree = pass.tree /\ pass'.vanished = pass.vanished
      BY <1>1, <1>3 DEF Made, Went
<1>6. /\ pass.queue \subseteq Paths /\ pass.late \subseteq Paths
      /\ disk \in [Paths -> Contents \cup {None}]
      BY PassTyped DEF TypeOK, Files
<1>7. Present'
      BY <1>1, <1>5, <1>6 DEF WorkInv, Present, Ahead
<1>8. Twice'
      BY <1>5 DEF WorkInv, Twice, Known, On
<1>9. ResetFresh'
      BY <1>5 DEF ResetFresh, SamePictures
<1>10. Gone'
      BY <1>4, <1>5 DEF WorkInv, Gone, Known, Ahead
<1>11. Between'
      BY <1>1, <1>2, <1>4, <1>5, <1>6 DEF Between, SamePictures, Known, On
<1>   QED BY <1>7, <1>8, <1>9, <1>10, <1>11 DEF WorkInv

LEMMA ResolvingKeeps ==
    ASSUME Calm, TypeInv, WorkInv, NEW p, Conflict(p) \/ BaseMismatch(p)
    PROVE  WorkInv'
<1>1. PICK n \in Nodes, sha \in Contents :
        /\ CopyAside(p, n, sha) \/ Bind(p, n, sha)
        /\ p \in Paths /\ pass # None /\ disk[p] # None
        /\ \/ Turn(p) /\ On(p) # None /\ pass.half = None /\ pass.verdict # "reset"
           \/ Halfway(p, "edit") /\ pass.half # None
      BY ResolvingIs
<1>2. TypeOK
      BY DEF TypeInv
<1>3. pass.half # None => pass.half.path = p /\ pass.half.job = "edit"
      BY <1>1 DEF Halfway, Turn
<1>4. On(p) # None /\ pass.verdict # "reset"
      BY <1>1, <1>3 DEF WorkInv, Between
<1>5. CASE CopyAside(p, n, sha)
      BY <1>1, <1>2, <1>4, <1>5, CopyAsideKeeps
<1>6. CASE Bind(p, n, sha)
  <2>1. /\ disk' = disk /\ pass.known \in [Paths -> KnownNodes \cup {None}]
        /\ Made([pass.known EXCEPT ![p] = Entry(n, sha, sha)],
                pass.tree, pass.vanished, None)
        /\ Went(pass', p)
        BY <1>1, <1>2, <1>6, BindIs, PassTyped DEF Bind, Knowledge
  <2>2. Entry(n, sha, sha) # None
        BY Apart DEF Entry, KnownNodes
  <2>3. CASE pass.half = None
    <3>1. p \in Ahead
          BY <1>1, <1>2, <2>3, Due
    <3>2. WholeJob(p)
          BY <1>1, <2>1, <2>3, <3>1 DEF WholeJob, Made, Went, Rid
    <3>   QED BY <1>2, <3>2, WholeJobKeeps
  <2>4. CASE pass.half # None
    <3>1. SecondHalf(p)
          BY <1>1, <1>3, <1>4, <2>1, <2>2, <2>4 DEF SecondHalf, Made, Went
    <3>   QED BY <1>2, <3>1, SecondHalfKeeps
  <2>   QED BY <2>3, <2>4
<1>   QED BY <1>1, <1>5, <1>6

LEMMA PushEditKeeps ==
    ASSUME TypeInv, WorkInv, NEW p, PushEdit(p)
    PROVE  WorkInv'
<1>1. PICK n \in Live :
        /\ Editing(p) /\ p \in Paths /\ pass # None /\ disk[p] # None /\ disk[p] \in Contents
        /\ Went(pass', p)
        /\ \/ /\ EditHash(p) \in Contents
              /\ Made([pass.known EXCEPT ![p] = Entry(n, EditHash(p), disk[p])],
                      pass.tree, pass.vanished, None)
           \/ Lost
      BY PushEditIs
<1>2. TypeOK /\ disk' = disk /\ pass.known \in [Paths -> KnownNodes \cup {None}] /\ n \in Nodes
      BY <1>1, PassTyped, LiveTyped DEF TypeInv, PushEdit, Knowledge
<1>3. EditHash(p) \in Contents => Entry(n, EditHash(p), disk[p]) # None
      BY <1>1, <1>2, Apart DEF Entry, KnownNodes
<1>4. CASE pass.half = None
  <2>1. p \in Ahead
        BY <1>1, <1>2, <1>4, EditingIs, Due
  <2>2. WholeJob(p)
        BY <1>1, <1>2, <1>4, <2>1 DEF WholeJob, Made, Lost, Went, Rid
  <2>   QED BY <1>2, <2>2, WholeJobKeeps
<1>5. CASE pass.half # None
  <2>1. pass.half.path = p /\ pass.half.job = "edit"
        BY <1>1, <1>2, <1>5, EditingIs DEF Halfway
  <2>2. On(p) # None
        BY <1>1, <1>5, <2>1 DEF WorkInv, Between
  <2>3. SecondHalf(p)
        BY <1>1, <1>2, <1>3, <1>5, <2>1, <2>2 DEF SecondHalf, Made, Lost, Went
  <2>   QED BY <1>2, <2>3, SecondHalfKeeps
<1>   QED BY <1>4, <1>5

LEMMA PushNewKeeps ==
    ASSUME TypeInv, WorkInv, NEW p, PushNew(p)
    PROVE  WholeJob(p) /\ WorkInv'
<1>1. PICK n \in Nodes \ issued :
        /\ Turn(p) /\ p \in Paths /\ pass # None /\ disk[p] # None
        /\ Went(pass', p)
        /\ \/ Made([pass.known EXCEPT ![p] = Entry(n, Measured(p), disk[p])],
                   [pass.tree EXCEPT ![p] = Leaf(n, disk[p], 1)], pass.vanished, None)
           \/ Lost
      BY PushNewIs
<1>2. /\ TypeOK /\ disk' = disk /\ pass.known \in [Paths -> KnownNodes \cup {None}]
      /\ pass.tree \in [Paths -> TreeNodes \cup {None}]
      /\ pass.half = None /\ p \in Ahead
      BY <1>1, PassTyped, Due DEF TypeInv, PushNew, Knowledge
<1>3. WholeJob(p)
      BY <1>1, <1>2 DEF WholeJob, Made, Lost, Went, Rid
<1>   QED BY <1>2, <1>3, WholeJobKeeps

LEMMA PushMoveKeeps ==
    ASSUME TypeInv, WorkInv, NEW p, NEW v, PushMove(p, v)
    PROVE  WholeJob(p) /\ WorkInv'
<1>1. /\ Turn(p) /\ p \in Paths /\ pass # None /\ pass.half = None /\ v \in pass.vanished
      /\ \/ /\ Made([[pass.known EXCEPT ![v.path] = None]
                        EXCEPT ![p] = Entry(v.node, v.hash, v.sha)],
                    MovedTree(p, v), pass.vanished \ {v}, None)
            /\ Went(pass', p)
         \/ UnmovedNow(p, v)
      BY PushMoveIs
<1>2. /\ TypeOK /\ disk' = disk /\ pass.known \in [Paths -> KnownNodes \cup {None}]
      /\ p \in Ahead
      BY <1>1, PassTyped, Due DEF TypeInv, PushMove, Knowledge
<1>3. disk[p] # None
      BY <1>1, <1>2 DEF WorkInv, Present
<1>4. \A w \in pass.vanished \ {v} : w.path # v.path
      BY <1>1 DEF WorkInv, Gone
<1>5. \A q \in Paths \ {p} : MovedTree(p, v)[q] \in {pass.tree[q], None}
      BY DEF MovedTree, On
<1>6. v.path \in Paths
      BY <1>1, <1>2, VanishedTyped
<1>7. CASE UnmovedNow(p, v)
  <2>1. WholeJob(p)
        BY <1>1, <1>2, <1>3, <1>7 DEF WholeJob, UnmovedNow, Made
  <2>   QED BY <1>2, <2>1, WholeJobKeeps
<1>8. CASE /\ Made([[pass.known EXCEPT ![v.path] = None]
                       EXCEPT ![p] = Entry(v.node, v.hash, v.sha)],
                   MovedTree(p, v), pass.vanished \ {v}, None)
           /\ Went(pass', p)
  <2>1. \A q \in Paths \ {p} : pass'.known[q] = pass.known[q]
                               \/ (pass'.known[q] = None /\ q = v.path)
        BY <1>2, <1>6, <1>8 DEF Made
  <2>2. /\ pass'.half = None /\ SamePictures(pass') /\ Rid(pass', p) /\ pass' # None
        /\ pass'.vanished = pass.vanished \ {v} /\ pass'.tree = MovedTree(p, v)
        BY <1>1, <1>8 DEF Made, Went, Rid
  <2>3. WholeJob(p)
        BY <1>1, <1>2, <1>3, <1>4, <1>5, <2>1, <2>2 DEF WholeJob
  <2>   QED BY <1>2, <2>3, WholeJobKeeps
<1>   QED BY <1>1, <1>7, <1>8

LEMMA FailFileKeeps ==
    ASSUME TypeInv, WorkInv, NEW p, FailFile(p)
    PROVE  WorkInv'
<1>1. /\ p \in Paths /\ pass # None
      /\ Turn(p) \/ (pass.half # None /\ pass.half.path = p)
      /\ \/ Made(pass.known, pass.tree, pass.vanished, None) /\ Went(pass', p)
         \/ \E v \in pass.vanished : pass.half = None /\ UnmovedNow(p, v)
      BY FailFileIs
<1>2. TypeOK /\ disk' = disk
      BY DEF TypeInv, FailFile
<1>3. CASE pass.half = None
  <2>1. p \in Ahead /\ disk[p] # None
        BY <1>1, <1>2, <1>3, Due DEF WorkInv, Present
  <2>2. WholeJob(p)
        BY <1>1, <1>2, <1>3, <2>1 DEF WholeJob, UnmovedNow, Made, Went, Rid
  <2>   QED BY <1>2, <2>2, WholeJobKeeps
<1>4. CASE pass.half # None
  <2>1. SecondHalf(p)
        BY <1>1, <1>2, <1>4 DEF SecondHalf, Made, Went, Turn
  <2>   QED BY <1>2, <2>1, SecondHalfKeeps
<1>   QED BY <1>3, <1>4

LEMMA TakeServerKeeps ==
    ASSUME TypeInv, WorkInv, NEW p, TakeServer(p)
    PROVE  WorkInv'
<1>1. /\ TypeOK /\ Halfway(p, "take") /\ p \in Paths /\ pass # None /\ pass.half # None
      /\ pass.half.job = "take" /\ pass.half.path = p
      BY TakeServerIs DEF TypeInv, Halfway
<1>2. PICK e, c : e = Entry(pass.half.node, pass.half.sha, pass.half.sha) /\ c = pass.half.sha
      OBVIOUS
<1>3. e # None /\ c # None
  <2>1. pass.half.node \in Nodes /\ pass.half.sha \in Contents
        BY TakeServerIs
  <2>   QED BY <1>2, <2>1, Apart DEF Entry, KnownNodes
<1>4. /\ Made([pass.known EXCEPT ![p] = e], pass.tree, pass.vanished, None)
      /\ pass'.queue = pass.queue /\ pass'.late = pass.late \cup {pass.half.copy}
      /\ disk' = [disk EXCEPT ![p] = c]
      BY <1>2, TakeServerIs
<1>5. /\ pass.known \in [Paths -> KnownNodes \cup {None}]
      /\ disk \in [Paths -> Contents \cup {None}]
      BY <1>1, PassTyped DEF Knowledge, TypeOK, Files
<1>6. On(p) # None
      BY <1>1 DEF WorkInv, Between
<1>7. SecondHalf(p)
      BY <1>1, <1>3, <1>4, <1>5, <1>6 DEF SecondHalf, Made
<1>   QED BY <1>1, <1>7, SecondHalfKeeps

LEMMA FillKeeps ==
    ASSUME TypeInv, WorkInv, NEW p, Fill(p)
    PROVE  WorkInv'
<1>1. /\ TypeOK /\ Halfway(p, "fill") /\ p \in Paths /\ pass # None /\ pass.half # None
      /\ pass.half.path = p /\ On(p) # None
      BY FillIs DEF TypeInv, Halfway
<1>2. PICK e, c : e = Entry(On(p).node, On(p).sha, On(p).sha) /\ c = On(p).sha
      OBVIOUS
<1>3. e # None /\ c # None
      BY <1>1, <1>2, OnTyped, Apart DEF Entry, KnownNodes
<1>4. /\ Made([pass.known EXCEPT ![p] = e], pass.tree, pass.vanished, None)
      /\ Went(pass', p)
      /\ disk' = [disk EXCEPT ![p] = c]
      BY <1>2, FillIs
<1>5. /\ pass.known \in [Paths -> KnownNodes \cup {None}]
      /\ disk \in [Paths -> Contents \cup {None}]
      BY <1>1, PassTyped DEF Knowledge, TypeOK, Files
<1>6. SecondHalf(p)
      BY <1>1, <1>3, <1>4, <1>5 DEF SecondHalf, Made, Went
<1>   QED BY <1>1, <1>6, SecondHalfKeeps

LEMMA FollowRenameKeeps ==
    ASSUME TypeInv, WorkInv, NEW p, FollowRename(p)
    PROVE  WorkInv'
<1>1. PICK to \in Paths :
        /\ Turn(p) /\ pass.verdict # "reset" /\ disk[p] # None
        /\ Known(p) # None /\ to # p /\ On(to) # None
        /\ disk' = [disk EXCEPT ![to] = disk[p]]
        /\ Made(pass.known, pass.tree, pass.vanished, DropHalf(p, to, Measured(p)))
        /\ Went(pass', p)
      BY FollowRenameIs
<1>2. TypeOK /\ pass # None /\ pass.half = None /\ p \in Paths /\ p \in Ahead
      BY <1>1, Due DEF TypeInv
<1>3. PICK h : h = DropHalf(p, to, Measured(p))
      OBVIOUS
<1>4. h.job = "drop" /\ h.path = p /\ h.to = to
      BY <1>3 DEF DropHalf
<1>5. /\ pass' # None /\ pass'.half = h /\ SamePictures(pass') /\ Rid(pass', p)
      /\ pass'.known = pass.known /\ pass'.tree = pass.tree /\ pass'.vanished = pass.vanished
      BY <1>1, <1>2, <1>3 DEF Made, Went, Rid
<1>6. /\ pass.queue \subseteq Paths /\ pass.late \subseteq Paths
      /\ disk \in [Paths -> Contents \cup {None}]
      BY <1>2, PassTyped DEF TypeOK, Files
<1>7. p \notin pass.queue \cap pass.late
      BY <1>1, <1>2 DEF WorkInv, Twice
<1>8. /\ pass'.queue \subseteq pass.queue /\ pass'.late \subseteq pass.late
      /\ p \notin pass'.queue \cup pass'.late
      BY <1>2, <1>5, <1>7 DEF Rid, Ahead
<1>9. Present'
      BY <1>1, <1>2, <1>5, <1>6, <1>8 DEF WorkInv, Present, Ahead
<1>10. Twice'
      BY <1>2, <1>5, <1>8 DEF WorkInv, Twice, Known, On
<1>11. ResetFresh'
      BY <1>1, <1>5 DEF ResetFresh, SamePictures
<1>12. Gone'
      BY <1>2, <1>4, <1>5, <1>8 DEF WorkInv, Gone, Known, Ahead
<1>13. Between'
      BY <1>1, <1>2, <1>4, <1>5, <1>6, <1>8 DEF Between, SamePictures, Ahead
<1>   QED BY <1>9, <1>10, <1>11, <1>12, <1>13 DEF WorkInv

LEMMA DropOldNameKeeps ==
    ASSUME TypeInv, WorkInv, NEW p, DropOldName(p)
    PROVE  WorkInv'
<1>1. PICK to, e, h :
        /\ to = pass.half.to /\ e = Entry(On(to).node, pass.half.hash, On(to).sha)
        /\ h = IF Known(p).hash = pass.half.hash THEN None
               ELSE EditHalf(to, pass.half.hash, Known(p).sha)
      OBVIOUS
<1>2. /\ TypeOK /\ Halfway(p, "drop") /\ p \in Paths /\ to \in Paths /\ to # p
      /\ On(to) # None /\ pass.half.hash \in Contents
      /\ Made([[pass.known EXCEPT ![p] = None] EXCEPT ![to] = e], pass.tree, pass.vanished, h)
      /\ pass'.queue = pass.queue /\ pass'.late = pass.late
      /\ disk' = [disk EXCEPT ![p] = None]
      BY <1>1, DropOldNameIs DEF TypeInv
<1>3. /\ pass # None /\ pass.half # None /\ pass.half.path = p /\ pass.half.job = "drop"
      /\ pass' # None /\ pass'.half = h /\ SamePictures(pass')
      /\ pass'.tree = pass.tree /\ pass'.vanished = pass.vanished
      /\ pass.verdict # "reset" /\ p \notin Ahead
      BY <1>2 DEF Halfway, Made, WorkInv, Between
<1>4. e # None
  <2>1. On(to).node \in Nodes /\ On(to).sha \in Contents
        BY <1>2, <1>3, OnTyped
  <2>2. e \in KnownNodes
        BY <1>1, <1>2, <2>1 DEF Entry, KnownNodes
  <2>   QED BY <2>2, Apart
<1>5. h # None => h.job = "edit" /\ h.path = to
      BY <1>1 DEF EditHalf
<1>6. \A q \in Paths \ {p, to} : pass'.known[q] = pass.known[q] /\ disk'[q] = disk[q]
  <2>1. pass.known \in [Paths -> KnownNodes \cup {None}] /\ disk \in [Paths -> Contents \cup {None}]
        BY <1>2, <1>3, PassTyped DEF Knowledge, TypeOK, Files
  <2>   QED BY <1>2, <2>1 DEF Made
<1>7. pass'.known[to] = e /\ pass'.known[p] = None /\ disk'[to] = disk[to]
  <2>1. pass.known \in [Paths -> KnownNodes \cup {None}] /\ disk \in [Paths -> Contents \cup {None}]
        BY <1>2, <1>3, PassTyped DEF Knowledge, TypeOK, Files
  <2>   QED BY <1>2, <2>1 DEF Made
<1>8. /\ pass.queue \subseteq Paths /\ pass.late \subseteq Paths
      /\ \A v \in pass.vanished : v.path \in Paths
      BY <1>2, <1>3, PassTyped, VanishedTyped
<1>9. Present'
      BY <1>2, <1>3, <1>6, <1>7, <1>8 DEF WorkInv, Present, Ahead
<1>10. Twice'
      BY <1>2, <1>3, <1>6, <1>7, <1>8 DEF WorkInv, Twice, Known, On, Ahead
<1>11. ResetFresh'
      BY <1>3 DEF ResetFresh, SamePictures
<1>12. Gone'
      BY <1>2, <1>3, <1>4, <1>5, <1>6, <1>7, <1>8 DEF WorkInv, Gone, Known, Ahead
<1>13. Between'
      BY <1>2, <1>3, <1>5 DEF Between, SamePictures, On
<1>   QED BY <1>9, <1>10, <1>11, <1>12, <1>13 DEF WorkInv

LEMMA QuarantineKeeps ==
    ASSUME TypeInv, WorkInv, NEW p, Quarantine(p)
    PROVE  WorkInv'
<1>1. /\ TypeOK /\ Turn(p) /\ pass.verdict = "reset"
      /\ Made(pass.known, pass.tree, pass.vanished, ResetHalf("erase", p))
      /\ Went(pass', p) /\ disk' = disk
      BY QuarantineIs DEF TypeInv, Quarantine
<1>2. pass # None /\ pass.half = None /\ p \in Paths /\ p \in Ahead
      BY <1>1, Due
<1>3. /\ pass.late = {} /\ p \in pass.queue /\ Known(p) = None
      BY <1>1, <1>2 DEF WorkInv, ResetFresh, Ahead
<1>4. PICK h : h = ResetHalf("erase", p)
      OBVIOUS
<1>5. h.job = "erase" /\ h.path = p
      BY <1>4 DEF ResetHalf
<1>6. /\ pass' # None /\ pass'.half = h /\ SamePictures(pass')
      /\ pass'.queue = pass.queue \ {p} /\ pass'.late = {}
      /\ pass'.known = pass.known /\ pass'.tree = pass.tree /\ pass'.vanished = pass.vanished
      BY <1>1, <1>2, <1>3, <1>4 DEF Made, Went
<1>7. Present' /\ Twice' /\ ResetFresh'
      BY <1>1, <1>2, <1>6 DEF WorkInv, Present, Twice, ResetFresh, SamePictures, Ahead, Known, On
<1>8. Gone'
      BY <1>1, <1>2, <1>6 DEF WorkInv, Gone, ResetFresh
<1>9. Between'
      BY <1>1, <1>3, <1>5, <1>6 DEF Between, SamePictures, Ahead, Known
<1>   QED BY <1>7, <1>8, <1>9 DEF WorkInv

LEMMA EraseKeeps ==
    ASSUME TypeInv, WorkInv, NEW p, Erase(p)
    PROVE  WorkInv'
<1>1. PICK h : h = IF On(p) = None THEN None ELSE ResetHalf("fill", p)
      OBVIOUS
<1>2. /\ TypeOK /\ Halfway(p, "erase") /\ p \in Paths
      /\ Made(pass.known, pass.tree, pass.vanished, h) /\ Went(pass', p)
      /\ disk' = [disk EXCEPT ![p] = None]
      BY <1>1, EraseIs DEF TypeInv
<1>3. /\ pass # None /\ pass.half # None /\ pass.half.path = p /\ pass.half.job = "erase"
      BY <1>2 DEF Halfway
<1>4. pass.verdict = "reset" /\ p \notin Ahead /\ Known(p) = None
      BY <1>3 DEF WorkInv, Between
<1>5. h # None => h.job = "fill" /\ h.path = p
      BY <1>1 DEF ResetHalf
<1>6. /\ pass' # None /\ pass'.half = h /\ SamePictures(pass')
      /\ pass'.queue = pass.queue /\ pass'.late = pass.late
      /\ pass'.known = pass.known /\ pass'.tree = pass.tree /\ pass'.vanished = pass.vanished
      BY <1>2, <1>3 DEF Made, Went
<1>7. Present'
  <2>1. disk \in [Paths -> Contents \cup {None}]
        /\ pass.queue \subseteq Paths /\ pass.late \subseteq Paths
        BY <1>2, <1>3, PassTyped DEF TypeOK, Files
  <2>   QED BY <1>2, <1>3, <1>4, <1>6, <2>1 DEF WorkInv, Present, Ahead
<1>8. Twice' /\ ResetFresh'
      BY <1>3, <1>6 DEF WorkInv, Twice, ResetFresh, SamePictures, Known, On
<1>9. Gone'
      BY <1>3, <1>4, <1>6 DEF WorkInv, Gone, ResetFresh
<1>10. Between'
      BY <1>3, <1>4, <1>5, <1>6 DEF Between, SamePictures, Ahead, Known
<1>   QED BY <1>7, <1>8, <1>9, <1>10 DEF WorkInv

\* After the files nothing waits any more.
LEMMA VanishedStepKeeps ==
    ASSUME TypeInv, WorkInv, VanishedStep
    PROVE  WorkInv' /\ disk' = disk
<1>1. TypeOK /\ pass # None
      BY DEF TypeInv, VanishedStep
<1>2. PICK v \in pass.vanished : ForgetVanished(v) \/ PushDelete(v) \/ FailDelete(v)
      BY DEF VanishedStep
<1>3. \E tree :
        /\ \/ Made([pass.known EXCEPT ![v.path] = None], tree, pass.vanished \ {v}, None)
           \/ Made(pass.known, tree, pass.vanished \ {v}, None)
        /\ SettledNow(v)
  <2>1. CASE ForgetVanished(v)
        BY <1>1, <2>1, ForgottenNow DEF ForgetVanished
  <2>2. CASE PushDelete(v)
        BY <2>2, PushDeleteIs
  <2>3. CASE FailDelete(v)
        BY <2>3, FailDeleteIs
  <2>   QED BY <1>2, <2>1, <2>2, <2>3
<1>4. \A w \in pass.vanished \ {v} : w.path # v.path /\ w.path \in Paths
      BY <1>1, VanishedTyped DEF WorkInv, Gone
<1>5. pass.known \in [Paths -> KnownNodes \cup {None}] /\ v.path \in Paths
      BY <1>1, PassTyped, VanishedTyped DEF Knowledge
<1>6. \A w \in pass'.vanished : w \in pass.vanished /\ pass'.known[w.path] = pass.known[w.path]
      BY <1>3, <1>4, <1>5 DEF Made
<1>7. /\ pass' # None /\ pass'.half = None /\ SamePictures(pass')
      /\ pass'.vanished \subseteq pass.vanished /\ pass'.queue = {} /\ pass'.late = {}
      BY <1>3 DEF Made, SettledNow
<1>8. Present' /\ Twice' /\ ResetFresh' /\ Between'
      BY <1>1, <1>7 DEF WorkInv, Present, Twice, ResetFresh, Between, SamePictures, Ahead
<1>9. Gone'
      BY <1>1, <1>6, <1>7 DEF WorkInv, Gone, Known, Ahead
<1>10. disk' = disk
      BY <1>2 DEF ForgetVanished, PushDelete, FailDelete
<1>   QED BY <1>8, <1>9, <1>10 DEF WorkInv

LEMMA RestKeeps ==
    ASSUME TypeInv, WorkInv, NEW p \in Paths, PullRest(p) \/ FailPull(p)
    PROVE  WorkInv'
<1>1. /\ pass.vanished = {} /\ pass # None /\ pass' # None /\ pass'.half = None
      /\ SamePictures(pass')
      /\ pass'.vanished = pass.vanished /\ pass'.queue = {} /\ pass'.late = {}
      BY PullRestIs, FailPullIs DEF Made
<1>   QED BY <1>1 DEF WorkInv, Present, Twice, ResetFresh, Gone, Between, SamePictures, Ahead

LEMMA StartPassKeeps ==
    ASSUME TypeInv, StartPass
    PROVE  WorkInv'
<1>1. /\ TypeOK /\ pass' # None /\ pass'.late = {} /\ pass'.half = None
      /\ pass'.queue = {p \in Paths : disk[p] # None} /\ disk' = disk
      /\ pass'.verdict = Verdict
      /\ pass'.known = IF Verdict = "reset" THEN Nothing ELSE state.known
      /\ pass'.vanished = IF Verdict = "reset" THEN {}
                          ELSE {Remembered(p) : p \in {q \in Paths : state.known[q] # None
                                                                     /\ disk[q] = None}}
      BY StartPassIs DEF TypeInv, StartPass
<1>2. Present' /\ Twice' /\ Between'
      BY <1>1 DEF Present, Twice, Between, Ahead
<1>3. ResetFresh'
      BY <1>1 DEF ResetFresh, Known, Nothing
<1>4. Gone'
  <2>1. SUFFICES ASSUME NEW v \in pass'.vanished
                 PROVE  /\ pass'.known[v.path] # None /\ v.path \notin pass'.queue
                        /\ \A w \in pass'.vanished : w.path = v.path => w = v
        BY <1>1 DEF Gone, Known, Ahead
  <2>2. /\ pass'.known = state.known
        /\ pass'.vanished = {Remembered(p) : p \in {q \in Paths : state.known[q] # None
                                                                  /\ disk[q] = None}}
        BY <1>1, <2>1
  <2>3. PICK p \in Paths : v = Remembered(p) /\ state.known[p] # None /\ disk[p] = None
        BY <2>1, <2>2
  <2>4. v.path = p
        BY <2>3 DEF Remembered
  <2>5. ASSUME NEW w \in pass'.vanished, w.path = v.path PROVE w = v
    <3>1. PICK q \in Paths : w = Remembered(q)
          BY <2>2, <2>5
    <3>2. q = p
          BY <2>4, <2>5, <3>1 DEF Remembered
    <3>   QED BY <2>3, <3>1, <3>2
  <2>   QED BY <1>1, <2>2, <2>3, <2>4, <2>5
<1>   QED BY <1>2, <1>3, <1>4 DEF WorkInv

LEMMA WorkOutside ==
    ASSUME pass' = None
    PROVE  WorkInv'
BY DEF WorkInv, Present, Twice, ResetFresh, Gone, Between

LEMMA FileStepKeeps ==
    ASSUME Calm, TypeInv, WorkInv, NEW p, FileStep(p)
    PROVE  WorkInv'
<1>1. CASE LeaveAlone(p) \/ Pull(p) \/ Adopt(p) \/ RemoveLocal(p) \/ Rebind(p)
      BY <1>1, WholeJobs
<1>2. CASE Conflict(p) \/ BaseMismatch(p) \/ TakeServer(p)
      BY <1>2, ResolvingKeeps, TakeServerKeeps
<1>3. CASE PushEdit(p) \/ PushNew(p) \/ \E v : PushMove(p, v)
      BY <1>3, PushEditKeeps, PushNewKeeps, PushMoveKeeps
<1>4. CASE FollowRename(p) \/ DropOldName(p)
      BY <1>4, FollowRenameKeeps, DropOldNameKeeps
<1>5. CASE FailFile(p)
      BY <1>5, FailFileKeeps
<1>6. CASE Quarantine(p) \/ Erase(p) \/ Fill(p)
      BY <1>6, QuarantineKeeps, EraseKeeps, FillKeeps
<1>   QED BY <1>1, <1>2, <1>3, <1>4, <1>5, <1>6 DEF FileStep

\* While a pass runs, the world leaves the device to it.
LEMMA WorldKeeps ==
    ASSUME Calm, TypeInv, WorkInv, World
    PROVE  WorkInv'
<1>1. CASE pass' = None
      BY <1>1, WorkOutside
<1>2. CASE pass' # None
  <2>1. pass' = pass
        BY <1>2, WorldTyped
  <2>2. disk' = disk
        BY <1>2, <2>1 DEF Calm, World, Others, Person, BackUp, RestoreServer, ResetVault, Crash
  <2>   QED BY <2>1, <2>2
            DEF WorkInv, Present, Twice, ResetFresh, Gone, Between, Ahead, Known, On
<1>   QED BY <1>1, <1>2

LEMMA WorkStep == Calm /\ TypeInv /\ WorkInv /\ [Next]_vars => WorkInv'
<1>1. ASSUME Calm, TypeInv, WorkInv, PassStep PROVE WorkInv'
  <2>1. CASE StartPass
        BY <1>1, <2>1, StartPassKeeps
  <2>2. CASE \E p \in AtWork : FileStep(p)
        BY <1>1, <2>2, FileStepKeeps
  <2>3. CASE VanishedStep
        BY <1>1, <2>3, VanishedStepKeeps
  <2>4. CASE \E p \in Paths : PullRest(p) \/ FailPull(p)
        BY <1>1, <2>4, RestKeeps
  <2>5. CASE Save
        BY <2>5, WorkOutside DEF Save
  <2>   QED BY <1>1, <2>1, <2>2, <2>3, <2>4, <2>5 DEF PassStep
<1>2. ASSUME WorkInv, UNCHANGED vars PROVE WorkInv'
      BY <1>2 DEF vars, server, WorkInv, Present, Twice, ResetFresh, Gone, Between, Ahead, Known, On
<1>   QED BY <1>1, <1>2, WorldKeeps DEF Next

------------------------------------------------------------------------------
(* A pass deletes only what the person did.                                 *)

\* What vanished and is still where this device left it, the person took away.
VanishedMeant ==
    pass # None => \A v \in pass.vanished : Where(v.node) = {v.path} => v.node \in dropped

\* Nothing on record came back to the path it was taken from.
NotRevived == IF pass = None THEN ~Revived(state.known) ELSE ~Revived(pass.known)

MeantInv == VanishedMeant /\ NotRevived

\* An event of the world is one of those permitted.
LEMMA PermittedNotRevived ==
    ASSUME "revived" \notin Mishaps,
           Permitted(state.known)', (pass # None => Permitted(pass.known))'
    PROVE  NotRevived'
BY DEF Permitted, NotRevived

\* A step of a pass brings nothing back: where a file is away now and on record,
\* it was, and what the server has there it had.
BringsNothingBack ==
    /\ pass # None /\ pass' # None /\ dropped' = dropped
    /\ \A q \in Paths : disk'[q] = None /\ pass'.known[q] # None =>
          /\ disk[q] = None /\ pass.known[q] = pass'.known[q]
          /\ \A n \in Live' : nodes'[n].path = q => n \in Live /\ nodes[n].path = q

LEMMA StillNotRevived ==
    ASSUME NotRevived, BringsNothingBack
    PROVE  NotRevived'
<1>1. ~Revived(pass.known)
      BY DEF NotRevived, BringsNothingBack
<1>2. ASSUME Revived(pass.known)' PROVE FALSE
  <2>1. PICK q \in Paths : /\ pass'.known[q] # None /\ disk'[q] = None
                           /\ pass'.known[q].node \in Live' \ dropped'
                           /\ nodes'[pass'.known[q].node].path = q
        BY <1>2 DEF Revived
  <2>   QED BY <1>1, <2>1 DEF BringsNothingBack, Revived
<1>   QED BY <1>2 DEF NotRevived, BringsNothingBack

\* Where a server operation leaves the rows.
LEMMA SameRows ==
    ASSUME UNCHANGED server
    PROVE  Live' = Live /\ \A n \in Live' : nodes'[n].path = nodes[n].path
BY DEF server, Live

LEMMA EditRows ==
    ASSUME TypeOK, NEW m \in Live, NEW c \in Contents, Edit(m, c)
    PROVE  Live' = Live /\ \A n \in Live' : nodes'[n].path = nodes[n].path
<1>1. m \in Nodes /\ nodes[m] \in Rows /\ nodes \in [Nodes -> Rows \cup {None}]
      BY LiveTyped DEF TypeOK
<1>2. nodes' = [nodes EXCEPT ![m] = [nodes[m] EXCEPT !.sha = c, !.rev = nodes[m].rev + 1]]
      BY <1>1 DEF Edit, Rows
<1>3. PICK r : r = [nodes[m] EXCEPT !.sha = c, !.rev = nodes[m].rev + 1]
      OBVIOUS
<1>4. r.live = nodes[m].live /\ r.path = nodes[m].path
      BY <1>1, <1>3 DEF Rows
<1>5. nodes[m] # None /\ nodes[m].live
      BY DEF Live
<1>6. r # None
  <2>1. PICK row : row = nodes[m]
        OBVIOUS
  <2>2. row \in Rows /\ row.rev + 1 \in Nat \ {0}
        BY <1>1, <2>1 DEF Rows
  <2>3. r \in Rows
        BY <1>3, <2>1, <2>2 DEF Rows
  <2>   QED BY <2>3, Apart
<1>   QED BY <1>1, <1>2, <1>3, <1>4, <1>5, <1>6 DEF Live

LEMMA CreateRows ==
    ASSUME TypeOK, NEW p \in Paths, NEW c \in Contents, Create(p, c)
    PROVE  /\ Live \subseteq Live'
           /\ \A n \in Live' : nodes'[n].path = p \/ (n \in Live /\ nodes'[n].path = nodes[n].path)
<1>1. PICK m, row : m = Fresh /\ row = [path |-> p, sha |-> c, rev |-> 1, live |-> TRUE]
      OBVIOUS
<1>2. m \in Nodes /\ row \in Rows /\ row.path = p /\ row.live
      BY <1>1, FreshIs DEF Create, Rows
<1>3. nodes' = [nodes EXCEPT ![m] = row] /\ nodes \in [Nodes -> Rows \cup {None}]
      BY <1>1 DEF Create, TypeOK
<1>4. row # None
      BY <1>2, Apart
<1>5. nodes'[m] = row /\ \A n \in Nodes \ {m} : nodes'[n] = nodes[n]
      BY <1>2, <1>3
<1>   QED BY <1>2, <1>4, <1>5 DEF Live

LEMMA MoveRows ==
    ASSUME TypeOK, NEW m \in Live, NEW p \in Paths, Move(m, p)
    PROVE  /\ Live' = Live
           /\ \A n \in Live' : nodes'[n].path = p \/ nodes'[n].path = nodes[n].path
<1>1. m \in Nodes /\ nodes[m] \in Rows /\ nodes \in [Nodes -> Rows \cup {None}]
      BY LiveTyped DEF TypeOK
<1>2. nodes' = [nodes EXCEPT ![m] = [nodes[m] EXCEPT !.path = p, !.rev = nodes[m].rev + 1]]
      BY <1>1 DEF Move, Rows
<1>3. PICK r, row : r = [nodes[m] EXCEPT !.path = p, !.rev = nodes[m].rev + 1] /\ row = nodes[m]
      OBVIOUS
<1>4. row \in Rows /\ row.rev + 1 \in Nat \ {0}
      BY <1>1, <1>3 DEF Rows
<1>5. r \in Rows /\ r.live = row.live /\ r.path = p
      BY <1>3, <1>4 DEF Rows
<1>6. nodes[m].live
      BY DEF Live
<1>7. nodes'[m] = r /\ \A n \in Nodes \ {m} : nodes'[n] = nodes[n]
      BY <1>1, <1>2, <1>3
<1>8. r # None /\ row # None
      BY <1>4, <1>5, Apart
<1>9. \A n \in Nodes \ {m} : n \in Live' <=> n \in Live
      BY <1>7 DEF Live
<1>10. m \in Live /\ m \in Live'
  <2>1. nodes'[m].live
        BY <1>3, <1>5, <1>6, <1>7
  <2>   QED BY <2>1, <1>1, <1>7, <1>8 DEF Live
<1>11. Live \subseteq Nodes /\ Live' \subseteq Nodes
      BY DEF Live
<1>12. Live' = Live
      BY <1>9, <1>10, <1>11
<1>   QED BY <1>5, <1>7, <1>11, <1>12

LEMMA TrashRows ==
    ASSUME TypeOK, NEW m \in Live, Trash(m)
    PROVE  /\ Live' = Live \ {m}
           /\ \A n \in Live' : nodes'[n].path = nodes[n].path
<1>1. m \in Nodes /\ nodes[m] \in Rows /\ nodes \in [Nodes -> Rows \cup {None}]
      BY LiveTyped DEF TypeOK
<1>2. nodes' = [nodes EXCEPT ![m] = [nodes[m] EXCEPT !.live = FALSE, !.rev = nodes[m].rev + 1]]
      BY <1>1 DEF Trash, Rows
<1>3. PICK r, row : r = [nodes[m] EXCEPT !.live = FALSE, !.rev = nodes[m].rev + 1] /\ row = nodes[m]
      OBVIOUS
<1>4. row \in Rows /\ row.rev + 1 \in Nat \ {0}
      BY <1>1, <1>3 DEF Rows
<1>5. r.live = FALSE
      BY <1>3, <1>4 DEF Rows
<1>6. nodes'[m] = r /\ \A n \in Nodes \ {m} : nodes'[n] = nodes[n]
      BY <1>1, <1>2, <1>3
<1>   QED BY <1>5, <1>6 DEF Live

\* What vanished and stands at its path in the walk stood there before.
KeepsMeaning ==
    /\ pass # None /\ dropped' = dropped
    /\ \A v \in pass'.vanished :
          /\ v \in pass.vanished
          /\ {p \in Paths : pass'.tree[p] # None /\ pass'.tree[p].node = v.node} = {v.path}
                => Where(v.node) = {v.path}

LEMMA StillMeant ==
    ASSUME VanishedMeant, KeepsMeaning
    PROVE  VanishedMeant'
BY DEF VanishedMeant, KeepsMeaning, Where, On

LEMMA SameMeaning ==
    ASSUME pass # None, dropped' = dropped, pass'.tree = pass.tree,
           pass'.vanished \subseteq pass.vanished
    PROVE  KeepsMeaning
BY DEF KeepsMeaning, Where, On

\* The steps that leave the server alone, by what they do to the device.
LEMMA LocalBringsNothing ==
    ASSUME pass # None, pass' # None, UNCHANGED <<server, dropped>>,
           \A q \in Paths :
               \/ disk'[q] # None \/ pass'.known[q] = None
               \/ disk'[q] = disk[q] /\ pass'.known[q] = pass.known[q]
    PROVE  BringsNothingBack
BY SameRows DEF BringsNothingBack

LEMMA WholeJobsMean ==
    ASSUME TypeInv, WorkInv, NEW p,
           \/ LeaveAlone(p) \/ Pull(p) \/ Adopt(p) \/ RemoveLocal(p) \/ Rebind(p)
    PROVE  BringsNothingBack /\ KeepsMeaning
<1>1. /\ TypeOK /\ Turn(p) /\ pass # None /\ pass' # None /\ p \in Ahead /\ p \in Paths
      /\ disk[p] # None /\ UNCHANGED <<server, dropped>>
      /\ pass'.tree = pass.tree /\ pass'.vanished = pass.vanished
  <2>1. TypeOK /\ Turn(p)
        BY LeaveAloneIs, PullIs, AdoptIs, RemoveLocalIs, RebindIs DEF TypeInv
  <2>2. pass # None /\ pass.half = None /\ p \in Ahead /\ p \in Paths
        BY <2>1, Due
  <2>3. UNCHANGED <<server, dropped>>
        BY DEF LeaveAlone, Pull, PullInto, Adopt, RemoveLocal, Rebind
  <2>4. pass' # None /\ pass'.tree = pass.tree /\ pass'.vanished = pass.vanished
        BY LeaveAloneIs, PullIs, AdoptIs, RemoveLocalIs, RebindIs DEF Made
  <2>   QED BY <2>1, <2>2, <2>3, <2>4 DEF WorkInv, Present
<1>2. \A q \in Paths \ {p} : disk'[q] = disk[q] /\ pass'.known[q] \in {pass.known[q], None}
      BY WholeJobs DEF WholeJob
<1>3. disk'[p] # None \/ pass'.known[p] = None
  <2>1. CASE RemoveLocal(p)
    <3>1. pass'.known = [pass.known EXCEPT ![p] = None]
          BY <2>1, RemoveLocalIs DEF Made
    <3>2. pass.known \in [Paths -> KnownNodes \cup {None}]
          BY <1>1, PassTyped DEF Knowledge
    <3>   QED BY <1>1, <3>1, <3>2
  <2>2. CASE Pull(p)
    <3>1. On(p).sha # None /\ disk' = [disk EXCEPT ![p] = On(p).sha]
          BY <1>1, <2>2, PullIs, OnTyped, Apart
    <3>2. disk \in [Paths -> Contents \cup {None}]
          BY <1>1 DEF TypeOK, Files
    <3>   QED BY <1>1, <3>1, <3>2
  <2>3. CASE LeaveAlone(p) \/ Adopt(p) \/ Rebind(p)
        BY <1>1, <2>3 DEF LeaveAlone, Adopt, Rebind
  <2>   QED BY <2>1, <2>2, <2>3
<1>4. BringsNothingBack
      BY <1>1, <1>2, <1>3, LocalBringsNothing
<1>   QED BY <1>1, <1>4, SameMeaning

LEMMA ResolvingMeans ==
    ASSUME TypeInv, WorkInv, NEW p, Conflict(p) \/ BaseMismatch(p)
    PROVE  BringsNothingBack /\ KeepsMeaning
<1>1. PICK n \in Nodes, sha \in Contents :
        /\ CopyAside(p, n, sha) \/ Bind(p, n, sha)
        /\ p \in Paths /\ pass # None /\ disk[p] # None
      BY ResolvingIs
<1>2. /\ TypeOK /\ disk \in [Paths -> Contents \cup {None}]
      /\ pass.known \in [Paths -> KnownNodes \cup {None}]
      BY <1>1, PassTyped DEF TypeInv, TypeOK, Files, Knowledge
<1>3. CASE CopyAside(p, n, sha)
  <2>1. PICK q \in CopyNames(p) :
          /\ q \in Paths /\ disk' = [disk EXCEPT ![q] = disk[p]]
          /\ Made(pass.known, pass.tree, pass.vanished, TakeHalf(p, n, sha, q))
        BY <1>1, <1>2, <1>3, CopyAsideIs
  <2>2. /\ pass' # None /\ pass'.known = pass.known /\ pass'.tree = pass.tree
        /\ pass'.vanished = pass.vanished /\ UNCHANGED <<server, dropped>>
        BY <1>3, <2>1 DEF Made, CopyAside
  <2>3. \A r \in Paths : disk'[r] # None \/ disk'[r] = disk[r]
        BY <1>1, <1>2, <2>1
  <2>   QED BY <1>1, <2>2, <2>3, LocalBringsNothing, SameMeaning
<1>4. CASE Bind(p, n, sha)
  <2>1. /\ Made([pass.known EXCEPT ![p] = Entry(n, sha, sha)],
                pass.tree, pass.vanished, None)
        /\ UNCHANGED <<server, disk, dropped>>
        BY <1>1, <1>2, <1>4, BindIs DEF Bind
  <2>2. /\ pass' # None /\ pass'.tree = pass.tree /\ pass'.vanished = pass.vanished
        /\ \A q \in Paths : q = p \/ pass'.known[q] = pass.known[q]
        BY <1>2, <2>1 DEF Made
  <2>   QED BY <1>1, <2>1, <2>2, LocalBringsNothing, SameMeaning
<1>   QED BY <1>1, <1>3, <1>4

LEMMA TakeServerMeans ==
    ASSUME TypeInv, NEW p, TakeServer(p)
    PROVE  BringsNothingBack /\ KeepsMeaning
<1>1. PICK e, c : e = Entry(pass.half.node, pass.half.sha, pass.half.sha) /\ c = pass.half.sha
      OBVIOUS
<1>2. /\ TypeOK /\ p \in Paths /\ pass # None /\ c # None
      /\ Made([pass.known EXCEPT ![p] = e], pass.tree, pass.vanished, None)
      /\ disk' = [disk EXCEPT ![p] = c] /\ UNCHANGED <<server, dropped>>
      BY <1>1, TakeServerIs, Apart DEF TypeInv, Halfway, TakeServer
<1>3. /\ disk \in [Paths -> Contents \cup {None}]
      /\ pass.known \in [Paths -> KnownNodes \cup {None}]
      BY <1>2, PassTyped DEF TypeOK, Files, Knowledge
<1>4. /\ pass' # None /\ pass'.tree = pass.tree /\ pass'.vanished = pass.vanished
      /\ \A q \in Paths : \/ disk'[q] # None
                          \/ disk'[q] = disk[q] /\ pass'.known[q] = pass.known[q]
      BY <1>2, <1>3 DEF Made
<1>   QED BY <1>2, <1>4, LocalBringsNothing, SameMeaning

LEMMA FillMeans ==
    ASSUME TypeInv, NEW p, Fill(p)
    PROVE  BringsNothingBack /\ KeepsMeaning
<1>1. PICK e, c : e = Entry(On(p).node, On(p).sha, On(p).sha) /\ c = On(p).sha
      OBVIOUS
<1>2. /\ TypeOK /\ p \in Paths /\ pass # None /\ On(p) # None
      /\ Made([pass.known EXCEPT ![p] = e], pass.tree, pass.vanished, None)
      /\ disk' = [disk EXCEPT ![p] = c] /\ UNCHANGED <<server, dropped>>
      BY <1>1, FillIs DEF TypeInv, Halfway, Fill, PullInto
<1>3. /\ disk \in [Paths -> Contents \cup {None}]
      /\ pass.known \in [Paths -> KnownNodes \cup {None}]
      /\ c # None
      BY <1>1, <1>2, OnTyped, Apart, PassTyped DEF TypeOK, Files, Knowledge
<1>4. /\ pass' # None /\ pass'.tree = pass.tree /\ pass'.vanished = pass.vanished
      /\ \A q \in Paths : \/ disk'[q] # None
                          \/ disk'[q] = disk[q] /\ pass'.known[q] = pass.known[q]
      BY <1>2, <1>3 DEF Made
<1>   QED BY <1>2, <1>4, LocalBringsNothing, SameMeaning

LEMMA RenameMeans ==
    ASSUME TypeInv, WorkInv, NEW p, FollowRename(p) \/ DropOldName(p)
    PROVE  BringsNothingBack /\ KeepsMeaning
<1>1. TypeOK /\ UNCHANGED <<server, dropped>>
      BY DEF TypeInv, FollowRename, DropOldName
<1>2. CASE FollowRename(p)
  <2>1. PICK to \in Paths :
          /\ Turn(p) /\ disk[p] # None /\ disk' = [disk EXCEPT ![to] = disk[p]]
          /\ Made(pass.known, pass.tree, pass.vanished, DropHalf(p, to, Measured(p)))
        BY <1>2, FollowRenameIs
  <2>2. pass # None /\ disk \in [Paths -> Contents \cup {None}]
        BY <1>1, <2>1, Due DEF TypeOK, Files
  <2>3. /\ pass' # None /\ pass'.tree = pass.tree /\ pass'.vanished = pass.vanished
        /\ pass'.known = pass.known
        BY <2>1 DEF Made
  <2>   QED BY <1>1, <2>1, <2>2, <2>3, LocalBringsNothing, SameMeaning
<1>3. CASE DropOldName(p)
  <2>1. PICK to, e, h :
          /\ to = pass.half.to /\ e = Entry(On(to).node, pass.half.hash, On(to).sha)
          /\ h = IF Known(p).hash = pass.half.hash THEN None
                 ELSE EditHalf(to, pass.half.hash, Known(p).sha)
        OBVIOUS
  <2>2. /\ Halfway(p, "drop") /\ p \in Paths /\ to \in Paths /\ to # p
        /\ Made([[pass.known EXCEPT ![p] = None] EXCEPT ![to] = e],
                pass.tree, pass.vanished, h)
        /\ disk' = [disk EXCEPT ![p] = None]
        BY <1>3, <2>1, DropOldNameIs
  <2>3. /\ pass # None /\ pass' # None /\ pass'.tree = pass.tree
        /\ pass'.vanished = pass.vanished
        BY <2>2 DEF Halfway, Made
  <2>4. disk[to] # None
        BY <2>1, <2>2 DEF Halfway, WorkInv, Between
  <2>5. /\ disk \in [Paths -> Contents \cup {None}]
        /\ pass.known \in [Paths -> KnownNodes \cup {None}]
        BY <1>1, <2>3, PassTyped DEF TypeOK, Files, Knowledge
  <2>6. \A q \in Paths : \/ disk'[q] # None \/ pass'.known[q] = None
                         \/ disk'[q] = disk[q] /\ pass'.known[q] = pass.known[q]
        BY <2>2, <2>4, <2>5 DEF Made
  <2>   QED BY <1>1, <2>3, <2>6, LocalBringsNothing, SameMeaning
<1>   QED BY <1>2, <1>3

LEMMA ResetMeans ==
    ASSUME TypeInv, WorkInv, NEW p, Quarantine(p) \/ Erase(p)
    PROVE  BringsNothingBack /\ KeepsMeaning
<1>1. TypeOK /\ UNCHANGED <<server, dropped>>
      BY DEF TypeInv, Quarantine, Erase
<1>2. CASE Quarantine(p)
  <2>1. /\ Turn(p) /\ disk' = disk
        /\ Made(pass.known, pass.tree, pass.vanished, ResetHalf("erase", p))
        BY <1>2, QuarantineIs DEF Quarantine
  <2>2. /\ pass # None /\ pass' # None /\ pass'.tree = pass.tree
        /\ pass'.vanished = pass.vanished /\ pass'.known = pass.known
        BY <1>1, <2>1, Due DEF Made
  <2>   QED BY <1>1, <2>1, <2>2, LocalBringsNothing, SameMeaning
<1>3. CASE Erase(p)
  <2>1. /\ Halfway(p, "erase") /\ p \in Paths /\ disk' = [disk EXCEPT ![p] = None]
        /\ Made(pass.known, pass.tree, pass.vanished,
                IF On(p) = None THEN None ELSE ResetHalf("fill", p))
        BY <1>3, EraseIs
  <2>2. /\ pass # None /\ pass' # None /\ pass'.tree = pass.tree
        /\ pass'.vanished = pass.vanished /\ pass'.known = pass.known
        BY <2>1 DEF Made, Halfway
  <2>3. pass.known[p] = None /\ disk \in [Paths -> Contents \cup {None}]
        BY <1>1, <2>1 DEF Halfway, WorkInv, Between, Known, TypeOK, Files
  <2>   QED BY <1>1, <2>1, <2>2, <2>3, LocalBringsNothing, SameMeaning
<1>   QED BY <1>2, <1>3

LEMMA PushEditMeans ==
    ASSUME TypeInv, WorkInv, NEW p, PushEdit(p)
    PROVE  BringsNothingBack /\ KeepsMeaning /\ Live \subseteq Live'
<1>1. PICK n, e :
        /\ n \in Live
        /\ p \in Paths /\ pass # None /\ disk[p] # None /\ disk[p] \in Contents
        /\ Edit(n, disk[p])
        /\ \/ Made([pass.known EXCEPT ![p] = e], pass.tree, pass.vanished, None)
           \/ Made(pass.known, pass.tree, pass.vanished, None)
      BY PushEditIs DEF Lost
<1>2. TypeOK /\ UNCHANGED <<disk, dropped>> /\ pass.known \in [Paths -> KnownNodes \cup {None}]
      BY <1>1, PassTyped DEF TypeInv, PushEdit, Knowledge
<1>3. Live' = Live /\ \A m \in Live' : nodes'[m].path = nodes[m].path
      BY <1>1, <1>2, EditRows
<1>4. /\ pass' # None /\ pass'.tree = pass.tree /\ pass'.vanished = pass.vanished
      /\ \A q \in Paths : q = p \/ pass'.known[q] = pass.known[q]
      BY <1>1, <1>2 DEF Made
<1>5. BringsNothingBack
      BY <1>1, <1>2, <1>3, <1>4 DEF BringsNothingBack
<1>   QED BY <1>1, <1>2, <1>3, <1>4, <1>5, SameMeaning

LEMMA PushNewMeans ==
    ASSUME TypeInv, WorkInv, NEW p, PushNew(p)
    PROVE  BringsNothingBack /\ KeepsMeaning /\ Live \subseteq Live'
<1>1. PICK e, l :
        /\ Turn(p) /\ p \in Paths /\ pass # None /\ disk[p] # None /\ disk[p] \in Contents
        /\ On(p) = None /\ Create(p, disk[p])
        /\ \/ Made([pass.known EXCEPT ![p] = e], [pass.tree EXCEPT ![p] = l],
                   pass.vanished, None)
           \/ Made(pass.known, pass.tree, pass.vanished, None)
      BY PushNewIs DEF Lost
<1>2. /\ TypeOK /\ UNCHANGED <<disk, dropped>>
      /\ pass.known \in [Paths -> KnownNodes \cup {None}]
      /\ pass.tree \in [Paths -> TreeNodes \cup {None}]
      BY <1>1, PassTyped DEF TypeInv, PushNew, Knowledge
<1>3. /\ Live \subseteq Live'
      /\ \A m \in Live' : nodes'[m].path = p \/ (m \in Live /\ nodes'[m].path = nodes[m].path)
      BY <1>1, <1>2, CreateRows
<1>4. /\ pass' # None /\ pass'.vanished = pass.vanished
      /\ \A q \in Paths \ {p} : pass'.known[q] = pass.known[q] /\ pass'.tree[q] = pass.tree[q]
      BY <1>1, <1>2 DEF Made
<1>5. BringsNothingBack
      BY <1>1, <1>2, <1>3, <1>4 DEF BringsNothingBack
<1>6. \A v \in pass.vanished : v.path # p
      BY <1>1, <1>2, Due DEF WorkInv, Gone
<1>7. KeepsMeaning
      BY <1>1, <1>2, <1>4, <1>6 DEF KeepsMeaning, Where, On
<1>   QED BY <1>3, <1>5, <1>7

LEMMA PushMoveMeans ==
    ASSUME TypeInv, WorkInv, NEW p, NEW v, PushMove(p, v)
    PROVE  BringsNothingBack /\ KeepsMeaning /\ Live \subseteq Live'
<1>1. /\ Turn(p) /\ p \in Paths /\ pass # None /\ On(p) = None /\ v \in pass.vanished
      /\ v.node \in Live /\ Move(v.node, p)
      /\ \/ Made([[pass.known EXCEPT ![v.path] = None]
                     EXCEPT ![p] = Entry(v.node, v.hash, v.sha)],
                 MovedTree(p, v), pass.vanished \ {v}, None)
         \/ Made(pass.known, pass.tree, pass.vanished \ {v}, None)
      BY PushMoveIs DEF UnmovedNow
<1>2. /\ TypeOK /\ UNCHANGED <<disk, dropped>> /\ p \in Ahead
      /\ pass.known \in [Paths -> KnownNodes \cup {None}]
      BY <1>1, PassTyped, Due DEF TypeInv, PushMove, Knowledge
<1>3. disk[p] # None
      BY <1>1, <1>2 DEF WorkInv, Present
<1>4. /\ Live' = Live
      /\ \A m \in Live' : nodes'[m].path = p \/ nodes'[m].path = nodes[m].path
      BY <1>1, <1>2, MoveRows
<1>5. /\ pass' # None
      /\ \A q \in Paths \ {p} : pass'.known[q] \in {pass.known[q], None}
      BY PushMoveKeeps DEF WholeJob
<1>6. BringsNothingBack
      BY <1>1, <1>2, <1>3, <1>4, <1>5 DEF BringsNothingBack
<1>7. pass'.vanished = pass.vanished \ {v}
      /\ (pass'.tree = pass.tree \/ pass'.tree = MovedTree(p, v))
      BY <1>1 DEF Made
<1>8. CASE pass'.tree = pass.tree
      BY <1>1, <1>2, <1>4, <1>6, <1>7, <1>8, SameMeaning
<1>9. CASE pass'.tree = MovedTree(p, v)
  <2>1. \A w \in pass.vanished : w.path # p
        BY <1>1, <1>2 DEF WorkInv, Gone
  <2>2. pass'.tree[p] = Leaf(v.node, v.sha, On(CHOOSE r \in Where(v.node) : TRUE).rev + 1)
        BY <1>1, <1>9 DEF MovedTree
  <2>3. pass'.tree[p] # None /\ pass'.tree[p].node = v.node
    <3>1. pass'.tree[p].node = v.node
          BY <2>2 DEF Leaf
    <3>2. Where(v.node) # {} /\ v \in pass.vanished
          BY PushMoveIs
    <3>3. PICK r : r = CHOOSE q \in Where(v.node) : TRUE
          OBVIOUS
    <3>4. r \in Paths /\ On(r) # None
          BY <3>2, <3>3 DEF Where
    <3>5. On(r).rev + 1 \in Nat \ {0}
          BY <1>1, <1>2, <3>4, OnTyped
    <3>6. pass'.tree[p] \in TreeNodes
          BY <1>1, <1>2, <2>2, <3>2, <3>3, <3>5, VanishedTyped DEF Leaf, TreeNodes
    <3>   QED BY <3>1, <3>6, Apart
  <2>4. \A q \in Paths \ {p} :
            pass'.tree[q] = IF q \in Where(v.node) THEN None ELSE On(q)
        BY <1>9 DEF MovedTree
  <2>5. ASSUME NEW w \in pass.vanished,
               {q \in Paths : pass'.tree[q] # None /\ pass'.tree[q].node = w.node} = {w.path}
        PROVE  Where(w.node) = {w.path}
    <3>1. w.path # p /\ p \in Paths
          BY <1>1, <2>1
    <3>2. w.node # v.node
          BY <2>3, <2>5, <3>1
    <3>3. \A q \in Paths \ {p} : /\ pass'.tree[q] # None /\ pass'.tree[q].node = w.node
                                 <=> On(q) # None /\ On(q).node = w.node
          BY <2>4, <3>2 DEF Where
    <3>4. \A q \in Paths : q \in Where(w.node) <=>
              q \in {r \in Paths : pass'.tree[r] # None /\ pass'.tree[r].node = w.node}
          BY <1>1, <2>3, <3>2, <3>3 DEF Where
    <3>5. Where(w.node) \subseteq Paths
          BY DEF Where
    <3>   QED BY <2>5, <3>4, <3>5
  <2>6. KeepsMeaning
        BY <1>1, <1>2, <1>7, <2>5 DEF KeepsMeaning
  <2>   QED BY <1>4, <1>6, <2>6
<1>   QED BY <1>7, <1>8, <1>9

LEMMA FailFileMeans ==
    ASSUME TypeInv, NEW p, FailFile(p)
    PROVE  BringsNothingBack /\ KeepsMeaning
<1>1. pass # None /\ UNCHANGED <<server, disk, dropped>>
      BY DEF FailFile
<1>2. /\ pass' # None /\ pass'.tree = pass.tree /\ pass'.known = pass.known
      /\ pass'.vanished \subseteq pass.vanished
  <2>1. CASE Made(pass.known, pass.tree, pass.vanished, None)
        BY <2>1 DEF Made
  <2>2. CASE \E v \in pass.vanished : UnmovedNow(p, v)
        BY <2>2 DEF UnmovedNow, Made
  <2>   QED BY <2>1, <2>2, FailFileIs
<1>   QED BY <1>1, <1>2, LocalBringsNothing, SameMeaning

LEMMA VanishedStepMeans ==
    ASSUME TypeInv, WorkInv, VanishedStep
    PROVE  /\ BringsNothingBack /\ KeepsMeaning
           /\ \A n \in Live \ Live' : \E v \in pass.vanished :
                  n = v.node /\ Where(v.node) = {v.path}
<1>1. TypeOK /\ pass # None
      BY DEF TypeInv, VanishedStep
<1>2. PICK v \in pass.vanished : ForgetVanished(v) \/ PushDelete(v) \/ FailDelete(v)
      BY DEF VanishedStep
<1>3. /\ pass.known \in [Paths -> KnownNodes \cup {None}] /\ v.path \in Paths
      /\ pass.tree \in [Paths -> TreeNodes \cup {None}]
      BY <1>1, PassTyped, VanishedTyped DEF Knowledge
<1>4. CASE ForgetVanished(v) \/ FailDelete(v)
  <2>1. /\ UNCHANGED <<server, disk, dropped>>
        /\ \/ Made([pass.known EXCEPT ![v.path] = None], pass.tree, pass.vanished \ {v}, None)
           \/ Made(pass.known, pass.tree, pass.vanished \ {v}, None)
    <3>1. CASE ForgetVanished(v)
          BY <1>1, <3>1, ForgottenNow DEF ForgetVanished
    <3>2. CASE FailDelete(v)
          BY <3>2, FailDeleteIs DEF FailDelete
    <3>   QED BY <1>4, <3>1, <3>2
  <2>2. /\ pass' # None /\ pass'.tree = pass.tree /\ pass'.vanished \subseteq pass.vanished
        /\ \A q \in Paths : pass'.known[q] \in {pass.known[q], None}
        BY <1>3, <2>1 DEF Made
  <2>3. Live' = Live
        BY <2>1, SameRows
  <2>   QED BY <1>1, <2>1, <2>2, <2>3, LocalBringsNothing, SameMeaning
<1>5. CASE PushDelete(v)
  <2>1. /\ Where(v.node) = {v.path} /\ v.node \in Live /\ Trash(v.node)
        /\ \/ Made([pass.known EXCEPT ![v.path] = None],
                   [pass.tree EXCEPT ![v.path] = None], pass.vanished \ {v}, None)
           \/ Made(pass.known, pass.tree, pass.vanished \ {v}, None)
        BY <1>5, PushDeleteIs
  <2>2. UNCHANGED <<disk, dropped>>
        BY <1>5 DEF PushDelete
  <2>3. /\ Live' = Live \ {v.node}
        /\ \A n \in Live' : nodes'[n].path = nodes[n].path
        BY <1>1, <2>1, TrashRows
  <2>4. /\ pass' # None /\ pass'.vanished = pass.vanished \ {v}
        /\ \A q \in Paths : pass'.known[q] \in {pass.known[q], None}
        /\ \A q \in Paths \ {v.path} : pass'.tree[q] = pass.tree[q]
        /\ pass'.tree[v.path] \in {pass.tree[v.path], None}
        BY <1>3, <2>1 DEF Made
  <2>5. BringsNothingBack
        BY <1>1, <2>2, <2>3, <2>4 DEF BringsNothingBack
  <2>6. ASSUME NEW w \in pass.vanished, w # v,
               {q \in Paths : pass'.tree[q] # None /\ pass'.tree[q].node = w.node} = {w.path}
        PROVE  Where(w.node) = {w.path}
    <3>1. w.path # v.path /\ w.path \in Paths
          BY <1>1, <2>6, VanishedTyped DEF WorkInv, Gone
    <3>2. w.path \in Where(w.node) /\ w.path \notin Where(v.node)
          BY <2>1, <2>4, <2>6, <3>1 DEF Where, On
    <3>3. w.node # v.node
          BY <3>2
    <3>4. v.path \notin Where(w.node)
          BY <2>1, <3>3 DEF Where
    <3>5. \A q \in Paths : q \in Where(w.node) <=>
              q \in {r \in Paths : pass'.tree[r] # None /\ pass'.tree[r].node = w.node}
          BY <2>4, <2>6, <3>1, <3>4 DEF Where, On
    <3>6. Where(w.node) \subseteq Paths
          BY DEF Where
    <3>   QED BY <2>6, <3>5, <3>6
  <2>7. KeepsMeaning
        BY <1>1, <2>2, <2>4, <2>6 DEF KeepsMeaning
  <2>   QED BY <2>1, <2>3, <2>5, <2>7
<1>   QED BY <1>2, <1>4, <1>5

LEMMA RestMeans ==
    ASSUME TypeInv, NEW p \in Paths, PullRest(p) \/ FailPull(p)
    PROVE  BringsNothingBack /\ KeepsMeaning
<1>1. TypeOK /\ UNCHANGED <<server, dropped>>
      BY DEF TypeInv, PullRest, PullInto, FailPull
<1>2. CASE PullRest(p)
  <2>1. PICK e, c :
          /\ pass # None /\ On(p) # None /\ c = On(p).sha
          /\ Made([pass.known EXCEPT ![p] = e], pass.tree, pass.vanished, None)
          /\ disk' = [disk EXCEPT ![p] = c]
        BY <1>2, PullRestIs
  <2>2. /\ disk \in [Paths -> Contents \cup {None}]
        /\ pass.known \in [Paths -> KnownNodes \cup {None}] /\ c # None
        BY <1>1, <2>1, OnTyped, Apart, PassTyped DEF TypeOK, Files, Knowledge
  <2>3. /\ pass' # None /\ pass'.tree = pass.tree /\ pass'.vanished = pass.vanished
        /\ \A q \in Paths : \/ disk'[q] # None
                            \/ disk'[q] = disk[q] /\ pass'.known[q] = pass.known[q]
        BY <2>1, <2>2 DEF Made
  <2>   QED BY <1>1, <2>1, <2>3, LocalBringsNothing, SameMeaning
<1>3. CASE FailPull(p)
  <2>1. /\ pass # None /\ disk' = disk
        /\ Made(pass.known, pass.tree, pass.vanished, None)
        BY <1>3, FailPullIs DEF FailPull
  <2>2. /\ pass' # None /\ pass'.tree = pass.tree /\ pass'.vanished = pass.vanished
        /\ pass'.known = pass.known
        BY <2>1 DEF Made
  <2>   QED BY <1>1, <2>1, <2>2, LocalBringsNothing, SameMeaning
<1>   QED BY <1>2, <1>3

LEMMA FileStepMeans ==
    ASSUME TypeInv, WorkInv, NEW p, FileStep(p)
    PROVE  BringsNothingBack /\ KeepsMeaning /\ Live \subseteq Live'
<1>1. CASE PushEdit(p) \/ PushNew(p) \/ \E v : PushMove(p, v)
      BY <1>1, PushEditMeans, PushNewMeans, PushMoveMeans
<1>2. CASE LeaveAlone(p) \/ Pull(p) \/ Adopt(p) \/ RemoveLocal(p) \/ Rebind(p)
  <2>1. UNCHANGED server
        BY <1>2 DEF LeaveAlone, Pull, PullInto, Adopt, RemoveLocal, Rebind
  <2>   QED BY <1>2, <2>1, WholeJobsMean, SameRows
<1>3. CASE Conflict(p) \/ BaseMismatch(p)
  <2>1. UNCHANGED server
        BY <1>3 DEF Conflict, BaseMismatch, CopyAside, Bind
  <2>   QED BY <1>3, <2>1, ResolvingMeans, SameRows
<1>4. CASE TakeServer(p) \/ Fill(p) \/ FollowRename(p) \/ DropOldName(p)
  <2>1. UNCHANGED server
        BY <1>4 DEF TakeServer, Fill, PullInto, FollowRename, DropOldName
  <2>   QED BY <1>4, <2>1, TakeServerMeans, FillMeans, RenameMeans, SameRows
<1>5. CASE Quarantine(p) \/ Erase(p) \/ FailFile(p)
  <2>1. UNCHANGED server
        BY <1>5 DEF Quarantine, Erase, FailFile
  <2>   QED BY <1>5, <2>1, ResetMeans, FailFileMeans, SameRows
<1>   QED BY <1>1, <1>2, <1>3, <1>4, <1>5 DEF FileStep

LEMMA StartPassMeans ==
    ASSUME TypeInv, MeantInv, StartPass
    PROVE  MeantInv'
<1>1. /\ TypeOK /\ pass = None /\ pass' # None /\ pass'.tree = Walked
      /\ pass'.known = IF Verdict = "reset" THEN Nothing ELSE state.known
      /\ pass'.vanished = IF Verdict = "reset" THEN {}
                          ELSE {Remembered(p) : p \in {q \in Paths : state.known[q] # None
                                                                     /\ disk[q] = None}}
      /\ UNCHANGED <<server, disk, dropped>>
      BY StartPassIs DEF TypeInv, StartPass
<1>2. ~Revived(state.known)
      BY <1>1 DEF MeantInv, NotRevived
<1>3. nodes' = nodes /\ Live' = Live
      BY <1>1, SameRows DEF server
<1>4. NotRevived'
  <2>1. CASE pass'.known = state.known
        BY <1>1, <1>2, <1>3, <2>1 DEF NotRevived, Revived
  <2>2. CASE pass'.known = Nothing
        BY <1>1, <2>2 DEF NotRevived, Revived, Nothing
  <2>   QED BY <1>1, <2>1, <2>2
<1>5. VanishedMeant'
  <2>1. SUFFICES ASSUME NEW v \in pass'.vanished,
                        {q \in Paths : Walked[q] # None /\ Walked[q].node = v.node} = {v.path}
                 PROVE  v.node \in dropped
        BY <1>1 DEF VanishedMeant, Where, On
  <2>2. PICK p \in Paths : v = Remembered(p) /\ state.known[p] # None /\ disk[p] = None
        BY <1>1, <2>1
  <2>3. v.path = p /\ v.node = state.known[p].node
        BY <2>2 DEF Remembered
  <2>4. Walked[p] # None /\ Walked[p].node = state.known[p].node
        BY <2>1, <2>3
  <2>5. PICK n \in Live : nodes[n].path = p /\ Walked[p].node = n
        BY <1>1, <2>4, WalkedIs
  <2>   QED BY <1>2, <2>2, <2>3, <2>4, <2>5 DEF Revived
<1>   QED BY <1>4, <1>5 DEF MeantInv

\* Every step but an event of the world keeps what a deletion rests on; an event
\* keeps it by being permitted.
LEMMA MeantStep ==
    ASSUME Calm, "revived" \notin Mishaps, TypeInv, WorkInv, MeantInv, [Next]_vars
    PROVE  MeantInv'
<1>1. CASE StartPass
      BY <1>1, StartPassMeans
<1>2. CASE (\E p \in AtWork : FileStep(p)) \/ VanishedStep
           \/ \E p \in Paths : PullRest(p) \/ FailPull(p)
  <2>1. BringsNothingBack /\ KeepsMeaning
        BY <1>2, FileStepMeans, VanishedStepMeans, RestMeans
  <2>   QED BY <2>1, StillNotRevived, StillMeant DEF MeantInv
<1>3. CASE Save
  <2>1. /\ pass # None /\ pass' = None /\ state'.known = pass.known
        /\ UNCHANGED <<server, disk, dropped>>
        BY <1>3 DEF Save, FilesDone
  <2>2. nodes' = nodes /\ Live' = Live
        BY <2>1, SameRows DEF server
  <2>3. ~Revived(pass.known)
        BY <2>1 DEF MeantInv, NotRevived
  <2>4. ~Revived(state.known)'
        BY <2>1, <2>2, <2>3 DEF Revived
  <2>   QED BY <2>1, <2>4 DEF MeantInv, NotRevived, VanishedMeant
<1>4. CASE World /\ Next
  <2>1. NotRevived'
    <3>1. CASE done' # done
      <4>1. Permitted(state.known)' /\ (pass # None => Permitted(pass.known))'
            BY <1>4, <3>1 DEF Next
      <4>   QED BY <4>1, PermittedNotRevived
    <3>2. CASE done' = done
      <4>1. BackUp
            BY <1>4, <3>2, Spent
               DEF TypeInv, World, Others, Person, RestoreServer, ResetVault, Crash
      <4>2. pass = None /\ pass' = None /\ UNCHANGED <<nodes, disk, state, dropped>>
            BY <4>1 DEF BackUp
      <4>   QED BY <4>2 DEF MeantInv, NotRevived, Revived, Live
    <3>   QED BY <3>1, <3>2
  <2>2. VanishedMeant'
    <3>1. CASE pass' = pass
      <4>1. dropped \subseteq dropped'
            BY <1>4 DEF World, Others, Person, BackUp, RestoreServer, ResetVault, Crash
      <4>   QED BY <3>1, <4>1 DEF MeantInv, VanishedMeant, Where, On
    <3>2. CASE pass' = None
          BY <3>2 DEF VanishedMeant
    <3>   QED BY <1>4, <3>1, <3>2, WorldTyped
  <2>   QED BY <2>1, <2>2 DEF MeantInv
<1>5. CASE UNCHANGED vars
      BY <1>5 DEF vars, server, MeantInv, NotRevived, VanishedMeant, Revived, Live, Where, On
<1>   QED BY <1>1, <1>2, <1>3, <1>4, <1>5 DEF Next, PassStep

LEMMA InitMeant == ASSUME Init PROVE WorkInv /\ MeantInv
<1>1. PICK p, d, e :
        /\ p \in Ordinary /\ d \in Contents
        /\ disk = [Nothing EXCEPT ![p] = d]
        /\ state.known = [Nothing EXCEPT ![p] = e] \/ state.known = Nothing
        /\ pass = None
  <2>1. PICK p \in Ordinary, c \in Contents \ Small, d \in Contents :
          /\ nodes = [m \in Nodes |-> IF m = First
                        THEN [path |-> p, sha |-> c, rev |-> 1, live |-> TRUE] ELSE None]
          /\ held = {c} /\ issued = {First}
          /\ epoch = [restore |-> 0, reset |-> 0] /\ backup = None
          /\ disk = [Nothing EXCEPT ![p] = d]
          /\ kept = [q \in Paths |-> {}]
          /\ \/ d = c /\ state = [cursor |-> epoch,
                  known |-> [Nothing EXCEPT ![p] = [node |-> First, hash |-> c, sha |-> c]]]
             \/ state = [cursor |-> None, known |-> Nothing]
          /\ pass = None /\ dropped = {}
          /\ done = [remote |-> 0, local |-> 0, faults |-> 0, epochs |-> 0]
        BY DEF Init, First
  <2>2. PICK e : e = [node |-> First, hash |-> c, sha |-> c]
        OBVIOUS
  <2>3. \/ state = [cursor |-> epoch, known |-> [Nothing EXCEPT ![p] = e]]
        \/ state = [cursor |-> None, known |-> Nothing]
        BY <2>1, <2>2
  <2>4. state.known = [Nothing EXCEPT ![p] = e] \/ state.known = Nothing
        BY <2>3
  <2>   QED BY <2>1, <2>4
<1>2. WorkInv
      BY <1>1 DEF WorkInv, Present, Twice, ResetFresh, Gone, Between
<1>3. disk[p] # None /\ \A q \in Paths \ {p} : state.known[q] = None
      BY <1>1, Apart DEF Nothing, Ordinary
<1>4. ~Revived(state.known)
      BY <1>3 DEF Revived
<1>   QED BY <1>1, <1>2, <1>4 DEF MeantInv, VanishedMeant, NotRevived

\* A node that a pass trashes is one whose file the person took away.
LEMMA DeletesMeant ==
    ASSUME Calm, TypeInv, WorkInv, MeantInv, Next, pass # None,
           NEW n \in Live, n \notin Live', done'.remote = done.remote
    PROVE  n \in dropped
<1>1. CASE VanishedStep
      BY <1>1, VanishedStepMeans DEF MeantInv, VanishedMeant
<1>2. CASE \E p \in AtWork : FileStep(p)
      BY <1>2, FileStepMeans
<1>3. CASE StartPass \/ Save \/ \E p \in Paths : PullRest(p) \/ FailPull(p)
      BY <1>3, SameRows DEF StartPass, Save, PullRest, PullInto, FailPull
<1>4. CASE World
  <2>1. CASE Others
    <3>1. done' = [done EXCEPT !.remote = done.remote + 1]
          BY <2>1 DEF Others, Spend, TypeInv, TypeOK
    <3>2. done \in [remote : 0..MaxRemote, local : 0..MaxLocal, faults : 0..MaxFaults,
                    epochs : 0..MaxEpochs]
          BY DEF TypeInv, TypeOK
    <3>   QED BY <3>1, <3>2, BoundsAssumption
  <2>2. CASE Person \/ Crash
        BY <2>2, SameRows DEF Person, Crash
  <2>3. CASE BackUp \/ RestoreServer \/ ResetVault
        BY <2>3 DEF BackUp, RestoreServer, ResetVault
  <2>   QED BY <1>4, <2>1, <2>2, <2>3 DEF World
<1>   QED BY <1>1, <1>2, <1>3, <1>4 DEF Next, PassStep

\* On a day with a name for each conflict copy, with no edit in the middle of a
\* pass and no file brought back elsewhere that this device forgot to save the
\* loss of, a pass trashes only what the person took away here: never for a
\* rename or a reset of others, a restore whose epoch was raised, nor for what it
\* removed itself.
THEOREM DeletesWereMeant ==
    ASSUME Calm, "revived" \notin Mishaps
    PROVE  Spec => DeletesOnlyWhatThePersonDid
<1>1. Init => TypeInv /\ WorkInv /\ MeantInv
      BY InitTyped, InitMeant
<1>2. TypeInv /\ WorkInv /\ MeantInv /\ [Next]_vars => (TypeInv /\ WorkInv /\ MeantInv)'
      BY TypeStep, WorkStep, MeantStep
<1>3. /\ TypeInv /\ WorkInv /\ MeantInv /\ [Next]_vars
      => [pass # None =>
            \A n \in Live : (n \notin Live' /\ done'.remote = done.remote) => n \in dropped]_vars
  <2>1. ASSUME TypeInv, WorkInv, MeantInv, [Next]_vars, ~UNCHANGED vars, pass # None,
               NEW n \in Live, n \notin Live', done'.remote = done.remote
        PROVE  n \in dropped
        BY <2>1, DeletesMeant
  <2>   QED BY <2>1
<1>   QED BY <1>1, <1>2, <1>3, PTL DEF Spec, DeletesOnlyWhatThePersonDid

------------------------------------------------------------------------------
(* No pass loses the last copy of a content: what it rests on.              *)

\* Of the situations the code does not come through well, one may happen.
Tame == Mishaps \subseteq {"revived"}

LEMMA TameIs ==
    ASSUME Tame
    PROVE  /\ Calm /\ "second quarantine" \notin Mishaps
           /\ pass # None /\ MayNotSucceed => pass.verdict # "restore" /\ ~Following
           /\ "rename fails" \notin Mishaps /\ "renamed onto" \notin Mishaps
           /\ "renamed and edited" \notin Mishaps /\ "renamed and restored" \notin Mishaps
BY DEF Tame, Calm, MayNotSucceed

\* The versions the rows, a backup and the tree of a pass name are there.
ServerHolds ==
    /\ \A n \in Nodes : nodes[n] # None => nodes[n].sha \in held
    /\ backup # None =>
         \A n \in Nodes : backup.nodes[n] # None => backup.nodes[n].sha \in backup.held
    /\ pass # None => \A p \in Paths : On(p) # None => On(p).sha \in held

\* A cursor is never ahead of the server, and a pass ends in the epoch it began in.
CursorBehind ==
    /\ state.cursor = None => \A p \in Paths : state.known[p] = None
    /\ state.cursor # None =>
         /\ state.cursor.restore <= epoch.restore
         /\ state.cursor.restore = epoch.restore => state.cursor.reset <= epoch.reset
    /\ pass # None => pass.at = epoch

\* What was saved is on the server, unless it was restored or reset since.
Saved ==
    \A p \in Paths : state.known[p] # None =>
        /\ state.known[p].hash = state.known[p].sha
        /\ state.cursor = epoch => state.known[p].hash \in held

\* The file of a rename being followed, or of the conflict that comes of it.
Loose(p) == pass.half # None /\ pass.half.job \in {"edit", "take"} /\ pass.half.path = p

\* The pass is still to decide what becomes of p.
Untold(p) ==
    \/ p \in pass.queue \/ \E v \in pass.vanished : v.path = p
    \/ pass.half # None /\ pass.half.path = p

\* What is on record is on the server: but for an edit a rename takes with it,
\* and, after a restore, for what the pass has not come to.
OnRecord ==
    pass # None => \A p \in Paths : Known(p) # None =>
        \/ Known(p).hash # Known(p).sha /\ Loose(p)
        \/ /\ Known(p).hash = Known(p).sha
           /\ Known(p).hash \in held \/ (pass.verdict = "restore" /\ Untold(p))

GoneOnRecord ==
    pass # None => \A v \in pass.vanished :
        v.hash = v.sha /\ (v.hash \in held \/ pass.verdict = "restore")

RecordInv == ServerHolds /\ CursorBehind /\ Saved /\ OnRecord /\ GoneOnRecord

\* What the pass measured of a file whose turn is still to come, it still holds.
StillMeasured == pass # None => \A p \in Ahead : pass.meta[p] \in {None, disk[p]}

\* Between the halves of a job, what is where.
InHand ==
    pass # None /\ pass.half # None =>
        LET half == pass.half
            here == disk[half.path] IN
        /\ half.path \in pass.handled /\ half.path \notin Ahead
        /\ half.job = "take" => /\ half.copy # half.path /\ disk[half.copy] = here
                                /\ pass.meta[half.copy] \in {None, here}
                                /\ half.sha \in held
        /\ half.job = "drop" => /\ half.to \notin Ahead /\ disk[half.to] = here
                                /\ half.hash = here
                                /\ On(half.to).sha = Known(half.path).sha
        /\ half.job = "edit" => half.hash = here
        /\ half.job = "erase" => here \in kept[half.path] \cup {None}
        /\ half.job = "fill" => here = None

\* A content is safe with the server, under a path the pass does not take for
\* one that only the server has, or in a quarantine.
Kept(c) ==
    \/ c \in held
    \/ \E p \in Ahead \cup pass.handled : disk[p] = c
    \/ \E p \in Paths : c \in kept[p]

AllKept == pass # None => \A p \in Paths : disk[p] # None => Kept(disk[p])

SafeInv == RecordInv /\ StillMeasured /\ InHand /\ AllKept

------------------------------------------------------------------------------
(* How a step of a pass keeps it.                                           *)

\* What a step learns is on the server, or what was on record stays as it was.
LearnsWell ==
    /\ pass # None /\ pass' # None /\ SamePictures(pass') /\ held \subseteq held'
    /\ UNCHANGED <<state, epoch>> /\ pass'.vanished \subseteq pass.vanished
    /\ \A q \in Paths : pass'.known[q] # None =>
          \/ pass'.known[q].hash = pass'.known[q].sha /\ pass'.known[q].hash \in held'
          \/ pass'.known[q].hash # pass'.known[q].sha /\ Loose(q)'
          \/ /\ pass'.known[q] = pass.known[q]
             /\ Loose(q) => Loose(q)' \/ pass.known[q].hash = pass.known[q].sha
             /\ pass.verdict = "restore" /\ Untold(q) => Untold(q)'

LEMMA RecordStays ==
    ASSUME RecordInv, LearnsWell, ServerHolds'
    PROVE  RecordInv'
<1>1. CursorBehind' /\ Saved'
      BY DEF RecordInv, CursorBehind, Saved, LearnsWell, SamePictures
<1>2. OnRecord'
  <2>1. SUFFICES ASSUME NEW q \in Paths, pass'.known[q] # None
                 PROVE  \/ pass'.known[q].hash # pass'.known[q].sha /\ Loose(q)'
                        \/ /\ pass'.known[q].hash = pass'.known[q].sha
                           /\ \/ pass'.known[q].hash \in held'
                              \/ pass'.verdict = "restore" /\ Untold(q)'
        BY DEF OnRecord, Known
  <2>2. pass'.known[q] = pass.known[q] =>
          \/ pass.known[q].hash # pass.known[q].sha /\ Loose(q)
          \/ /\ pass.known[q].hash = pass.known[q].sha
             /\ pass.known[q].hash \in held \/ (pass.verdict = "restore" /\ Untold(q))
        BY <2>1 DEF RecordInv, OnRecord, Known, LearnsWell
  <2>   QED BY <2>1, <2>2 DEF LearnsWell, SamePictures
<1>3. GoneOnRecord'
      BY DEF RecordInv, GoneOnRecord, LearnsWell, SamePictures
<1>   QED BY <1>1, <1>2, <1>3 DEF RecordInv

\* One path is written; what was there is safe elsewhere, and so is what comes
\* there, or the pass leaves the path alone from then on.
WritesAt(w) ==
    /\ pass # None /\ pass' # None /\ w \in Paths /\ held \subseteq held'
    /\ Ahead \cup pass.handled \subseteq (Ahead \cup pass.handled)'
    /\ \A q \in Paths : kept[q] \subseteq kept'[q]
    /\ \A q \in Paths \ {w} : disk'[q] = disk[q]
    /\ \A c : c = disk[w] => c = None \/ c = disk'[w] \/ Kept(c)'
    /\ \A c : c = disk'[w] =>
         c = None \/ c = disk[w] \/ w \in (Ahead \cup pass.handled)' \/ Kept(c)'

LEMMA CopiesStay ==
    ASSUME TypeOK, AllKept, NEW w, WritesAt(w)
    PROVE  AllKept' /\ \A c \in Contents : Kept(c) => Kept(c)'
<1>1. Ahead \cup pass.handled \subseteq Paths
      BY PassTyped DEF WritesAt, Ahead
<1>2. ASSUME NEW c \in Contents, Kept(c) PROVE Kept(c)'
  <2>1. CASE c \in held \/ \E p \in Paths : c \in kept[p]
        BY <2>1 DEF Kept, WritesAt
  <2>2. CASE \E p \in Ahead \cup pass.handled : disk[p] = c
    <3>1. PICK p \in Ahead \cup pass.handled : disk[p] = c
          BY <2>2
    <3>2. p \in (Ahead \cup pass.handled)' /\ p \in Paths
          BY <1>1 DEF WritesAt
    <3>3. CASE disk'[p] = c
          BY <3>2, <3>3 DEF Kept
    <3>4. CASE disk'[p] # c
      <4>1. p = w
            BY <3>1, <3>2, <3>4 DEF WritesAt
      <4>   QED BY <3>1, <3>4, <4>1, Apart DEF WritesAt
    <3>   QED BY <3>3, <3>4
  <2>   QED BY <1>2, <2>1, <2>2 DEF Kept
<1>3. disk \in [Paths -> Contents \cup {None}]
      BY DEF TypeOK, Files
<1>4. ASSUME NEW p \in Paths, NEW c, c = disk'[p], c # None PROVE Kept(c)'
  <2>1. CASE disk'[p] = disk[p]
    <3>1. c \in Contents /\ Kept(c)
          BY <1>3, <1>4, <2>1 DEF AllKept, WritesAt
    <3>   QED BY <1>2, <3>1
  <2>2. CASE disk'[p] # disk[p]
    <3>1. p = w
          BY <2>2 DEF WritesAt
    <3>   QED BY <1>4, <2>2, <3>1 DEF WritesAt, Kept
  <2>   QED BY <2>1, <2>2
<1>5. AllKept'
      BY <1>4 DEF AllKept
<1>   QED BY <1>2, <1>5

\* A step of a pass that all of this is kept by.
GoesOn ==
    /\ LearnsWell /\ ServerHolds' /\ StillMeasured' /\ InHand'
    /\ \E w \in Paths : WritesAt(w)

LEMMA SafeStays ==
    ASSUME TypeOK, SafeInv, GoesOn
    PROVE  SafeInv' /\ \A c \in Contents : Kept(c) => Kept(c)'
BY RecordStays, CopiesStay DEF SafeInv, GoesOn

------------------------------------------------------------------------------
(* The server holds on to what it names.                                    *)

\* One row is written, and its version is held.
LEMMA RowHeld ==
    ASSUME TypeOK, ServerHolds, NEW m \in Nodes, NEW row, nodes' = [nodes EXCEPT ![m] = row],
           row.sha \in held', held \subseteq held'
    PROVE  \A n \in Nodes : nodes'[n] # None => nodes'[n].sha \in held'
<1>1. nodes \in [Nodes -> Rows \cup {None}]
      BY DEF TypeOK
<1>2. nodes'[m] = row /\ \A n \in Nodes \ {m} : nodes'[n] = nodes[n]
      BY <1>1
<1>   QED BY <1>2 DEF ServerHolds

\* A write of the server.
Writes(n, p, c) ==
    \/ Create(p, c)
    \/ n \in Live /\ (Edit(n, c) \/ Move(n, p) \/ Trash(n))
    \/ n \in Nodes /\ nodes[n] # None /\ Revive(n)

LEMMA WritesHeld ==
    ASSUME TypeOK, ServerHolds, NEW n, NEW p \in Paths, NEW c \in Contents, Writes(n, p, c)
    PROVE  /\ \A m \in Nodes : nodes'[m] # None => nodes'[m].sha \in held'
           /\ held \subseteq held' /\ epoch' = epoch /\ backup' = backup
           /\ Create(p, c) \/ Edit(n, c) => c \in held'
<1>1. CASE Create(p, c)
  <2>1. PICK m, row : m = Fresh /\ row = [path |-> p, sha |-> c, rev |-> 1, live |-> TRUE]
        OBVIOUS
  <2>2. m \in Nodes /\ row.sha = c /\ held' = held \cup {c}
        BY <1>1, <2>1, FreshIs DEF Create
  <2>3. nodes' = [nodes EXCEPT ![m] = row]
        BY <1>1, <2>1 DEF Create
  <2>   QED BY <1>1, <2>2, <2>3, RowHeld DEF Create
<1>2. ASSUME n \in Nodes, nodes[n] # None
      PROVE  /\ nodes[n].sha \in held /\ nodes[n] \in Rows
             /\ Edit(n, c) =>
                  nodes' = [nodes EXCEPT ![n] =
                               [nodes[n] EXCEPT !.sha = c, !.rev = nodes[n].rev + 1]]
             /\ Move(n, p) =>
                  nodes' = [nodes EXCEPT ![n] =
                               [nodes[n] EXCEPT !.path = p, !.rev = nodes[n].rev + 1]]
             /\ Trash(n) =>
                  nodes' = [nodes EXCEPT ![n] =
                               [nodes[n] EXCEPT !.live = FALSE, !.rev = nodes[n].rev + 1]]
             /\ Revive(n) =>
                  nodes' = [nodes EXCEPT ![n] =
                               [nodes[n] EXCEPT !.live = TRUE, !.rev = nodes[n].rev + 1]]
  <2>1. nodes[n] \in Rows /\ nodes \in [Nodes -> Rows \cup {None}]
        BY <1>2 DEF TypeOK
  <2>   QED BY <1>2, <2>1 DEF ServerHolds, Edit, Move, Trash, Revive, Rows
<1>3. CASE n \in Nodes /\ nodes[n] # None /\ Edit(n, c)
  <2>1. PICK row, o : /\ o = nodes[n]
                      /\ row = [nodes[n] EXCEPT !.sha = c, !.rev = nodes[n].rev + 1]
        OBVIOUS
  <2>2. row.sha = c
        BY <1>2, <1>3, <2>1 DEF Rows
  <2>3. held' = held \cup {c} /\ epoch' = epoch /\ backup' = backup
        BY <1>3 DEF Edit
  <2>4. nodes' = [nodes EXCEPT ![n] = row]
        BY <1>2, <1>3, <2>1
  <2>5. \A m \in Nodes : nodes'[m] # None => nodes'[m].sha \in held'
        BY <1>3, <2>2, <2>3, <2>4, RowHeld
  <2>   QED BY <2>3, <2>5
<1>4. CASE n \in Nodes /\ nodes[n] # None /\ (Move(n, p) \/ Trash(n) \/ Revive(n))
  <2>1. held' = held /\ epoch' = epoch /\ backup' = backup
        BY <1>4 DEF Move, Trash, Revive
  <2>2. PICK row : nodes' = [nodes EXCEPT ![n] = row] /\ row.sha = nodes[n].sha
    <3>1. PICK o : o = nodes[n]
          OBVIOUS
    <3>2. /\ [o EXCEPT !.path = p, !.rev = o.rev + 1].sha = o.sha
          /\ [o EXCEPT !.live = FALSE, !.rev = o.rev + 1].sha = o.sha
          /\ [o EXCEPT !.live = TRUE, !.rev = o.rev + 1].sha = o.sha
          BY <1>2, <1>4, <3>1 DEF Rows
    <3>   QED BY <1>2, <1>4, <3>1, <3>2
  <2>3. \A m \in Nodes : nodes'[m] # None => nodes'[m].sha \in held'
        BY <1>2, <1>4, <2>1, <2>2, RowHeld
  <2>4. Create(p, c) \/ Edit(n, c) => c \in held'
        BY DEF Create, Edit
  <2>   QED BY <2>1, <2>3, <2>4
<1>5. n \in Live => n \in Nodes /\ nodes[n] # None
      BY DEF Live
<1>   QED BY <1>1, <1>3, <1>4, <1>5 DEF Writes

\* A step of a pass that writes to the server, and one that does not.
LEMMA RemoteHolds ==
    ASSUME TypeOK, ServerHolds, pass # None, NEW n, NEW p \in Paths, NEW c \in Contents,
           Writes(n, p, c),
           \A q \in Paths : pass'.tree[q] \in {pass.tree[q], None}
                            \/ pass'.tree[q].sha \in held'
    PROVE  ServerHolds' /\ held \subseteq held' /\ epoch' = epoch
BY WritesHeld DEF ServerHolds, On

LEMMA LocalHolds ==
    ASSUME ServerHolds, pass # None, UNCHANGED server,
           \A q \in Paths : pass'.tree[q] \in {pass.tree[q], None}
    PROVE  ServerHolds' /\ held \subseteq held' /\ epoch' = epoch
BY DEF ServerHolds, On, server

\* A file done in one step: what is learnt of it is on the server, and so is what
\* it replaced.
LEMMA WholeJobGoesOn ==
    ASSUME TypeOK, WorkInv, SafeInv, NEW p, WholeJob(p), ServerHolds', held \subseteq held',
           UNCHANGED <<kept, state, epoch>>, pass.handled \cup {p} \subseteq pass'.handled,
           pass'.known[p] # None =>
               \/ pass'.known[p].hash = pass'.known[p].sha /\ pass'.known[p].hash \in held'
               \/ pass'.known[p] = pass.known[p] /\ pass.verdict # "restore",
           \A v \in pass.vanished \ pass'.vanished :
               pass.verdict = "restore" => pass'.known[v.path] = None,
           \/ disk'[p] = disk[p]
           \/ p \notin pass.queue \cap pass.late /\ disk[p] \in held' \cup {None}
    PROVE  GoesOn
<1>1. /\ pass.queue \subseteq Paths /\ pass.late \subseteq Paths /\ p \in Paths
      BY PassTyped DEF WholeJob
<1>2. /\ pass'.queue \subseteq pass.queue /\ pass'.late \subseteq pass.late
      /\ pass.queue \ {p} \subseteq pass'.queue /\ pass.late \ {p} \subseteq pass'.late
      /\ p \in pass'.queue \cup pass'.late => p \in pass.queue \cap pass.late
      BY DEF WholeJob, Rid, Ahead
<1>3. LearnsWell
  <2>1. SUFFICES ASSUME NEW q \in Paths, pass'.known[q] # None
                 PROVE  \/ /\ pass'.known[q].hash = pass'.known[q].sha
                           /\ pass'.known[q].hash \in held'
                        \/ pass'.known[q].hash # pass'.known[q].sha /\ Loose(q)'
                        \/ /\ pass'.known[q] = pass.known[q]
                           /\ Loose(q) => Loose(q)' \/ pass.known[q].hash = pass.known[q].sha
                           /\ pass.verdict = "restore" /\ Untold(q) => Untold(q)'
        BY DEF LearnsWell, WholeJob
  <2>2. ~Loose(q)
        BY DEF Loose, WholeJob
  <2>3. CASE q = p
        BY <2>1, <2>2, <2>3
  <2>4. CASE q # p
    <3>1. pass'.known[q] = pass.known[q]
          BY <2>1, <2>4 DEF WholeJob
    <3>2. pass.verdict = "restore" /\ Untold(q) => Untold(q)'
          BY <1>2, <2>1, <2>4 DEF Untold, WholeJob
    <3>   QED BY <2>2, <3>1, <3>2
  <2>   QED BY <2>3, <2>4
<1>4. StillMeasured'
      BY <1>1, <1>2 DEF SafeInv, StillMeasured, WholeJob, SamePictures, Ahead
<1>5. InHand'
      BY DEF InHand, WholeJob
<1>6. WritesAt(p)
      BY <1>1, <1>2 DEF WritesAt, WholeJob, Kept, Ahead
<1>   QED BY <1>1, <1>3, <1>4, <1>5, <1>6 DEF GoesOn

\* What a pass has measured of a file whose turn it is, and has on record of it.
LEMMA MeasuredNow ==
    ASSUME SafeInv, pass # None, NEW p \in Ahead
    PROVE  Measured(p) = disk[p]
BY DEF SafeInv, StillMeasured, Measured

LEMMA KnownNow ==
    ASSUME SafeInv, pass # None, pass.half = None, NEW p \in Paths, Known(p) # None
    PROVE  /\ Known(p).hash = Known(p).sha
           /\ Known(p).hash \in held \/ (pass.verdict = "restore" /\ Untold(p))
BY DEF SafeInv, RecordInv, OnRecord, Loose

LEMMA WalkedHeld ==
    ASSUME SafeInv, pass # None, NEW p \in Paths, On(p) # None
    PROVE  On(p).sha \in held
BY DEF SafeInv, RecordInv, ServerHolds

LEMMA WholeJobsGoOn ==
    ASSUME TypeInv, WorkInv, SafeInv, NEW p,
           \/ LeaveAlone(p) \/ Pull(p) \/ Adopt(p) \/ RemoveLocal(p) \/ Rebind(p)
    PROVE  GoesOn
<1>1. /\ TypeOK /\ WholeJob(p) /\ UNCHANGED <<server, kept, state>>
      /\ pass # None /\ pass.half = None /\ p \in Ahead /\ p \in Paths
      BY WholeJobs DEF TypeInv, WholeJob, LeaveAlone, Pull, PullInto, Adopt, RemoveLocal, Rebind
<1>2. /\ pass'.handled = pass.handled \cup {p} /\ pass'.vanished = pass.vanished
      /\ pass'.tree = pass.tree
      BY <1>1, LeaveAloneIs, PullIs, AdoptIs, RemoveLocalIs, RebindIs DEF Made, Went
<1>3. Measured(p) = disk[p] /\ ServerHolds' /\ held \subseteq held' /\ epoch' = epoch
      BY <1>1, <1>2, MeasuredNow, LocalHolds DEF SafeInv, RecordInv
<1>4. /\ pass.known \in [Paths -> KnownNodes \cup {None}]
      /\ disk \in [Paths -> Contents \cup {None}]
      BY <1>1, PassTyped DEF Knowledge, TypeOK, Files
<1>5. On(p) # None => On(p).sha \in held'
      BY <1>1, <1>3, WalkedHeld
<1>6. pass'.known[p] # None =>
          pass'.known[p].hash = pass'.known[p].sha /\ pass'.known[p].hash \in held'
  <2>1. CASE LeaveAlone(p)
    <3>1. /\ pass'.known = pass.known /\ On(p) # None /\ Known(p) # None
          /\ Known(p).sha = On(p).sha
          BY <2>1, LeaveAloneIs, Decided DEF Made, RemoteChanged
    <3>   QED BY <1>1, <1>5, <3>1, KnownNow DEF Known
  <2>2. CASE Pull(p) \/ Adopt(p) \/ Rebind(p)
    <3>1. /\ On(p) # None
          /\ pass'.known = [pass.known EXCEPT ![p] = Entry(On(p).node, On(p).sha, On(p).sha)]
          BY <2>2, PullIs, AdoptIs, RebindIs DEF Made
    <3>2. pass'.known[p] = Entry(On(p).node, On(p).sha, On(p).sha)
          BY <1>1, <1>4, <3>1
    <3>   QED BY <1>5, <3>1, <3>2 DEF Entry
  <2>3. CASE RemoveLocal(p)
    <3>1. pass'.known = [pass.known EXCEPT ![p] = None]
          BY <2>3, RemoveLocalIs DEF Made
    <3>   QED BY <1>1, <1>4, <3>1
  <2>   QED BY <2>1, <2>2, <2>3
<1>7. \/ disk'[p] = disk[p]
      \/ p \notin pass.queue \cap pass.late /\ disk[p] \in held' \cup {None}
  <2>1. CASE LeaveAlone(p) \/ Adopt(p) \/ Rebind(p)
        BY <2>1 DEF LeaveAlone, Adopt, Rebind
  <2>2. CASE Pull(p) \/ RemoveLocal(p)
    <3>1. Known(p) # None /\ ~LocalChanged(p) /\ ~PreferLocal
          BY <2>2, PullIs, RemoveLocalIs, Decided
    <3>2. Known(p).hash = disk[p] /\ pass.verdict = "continuous"
          BY <1>3, <3>1 DEF LocalChanged, PreferLocal
    <3>3. Known(p).hash \in held
          BY <1>1, <3>1, <3>2, KnownNow
    <3>4. p \notin pass.queue \cap pass.late
          BY <1>1, <3>1 DEF WorkInv, Twice
    <3>   QED BY <1>3, <3>2, <3>3, <3>4
  <2>   QED BY <2>1, <2>2
<1>   QED BY <1>1, <1>2, <1>3, <1>6, <1>7, WholeJobGoesOn

\* A call that was refused, or whose answer was lost: nothing is learnt.
LEMMA LostGoesOn ==
    ASSUME Tame, TypeOK, WorkInv, SafeInv, NEW p, WholeJob(p), ServerHolds',
           held \subseteq held', UNCHANGED <<disk, kept, state, epoch>>,
           pass.handled \cup {p} \subseteq pass'.handled, MayNotSucceed,
           pass'.known = pass.known
    PROVE  GoesOn
<1>1. pass.verdict # "restore"
      BY TameIs DEF WholeJob
<1>   QED BY <1>1, WholeJobGoesOn

LEMMA PushNewGoesOn ==
    ASSUME Tame, TypeInv, WorkInv, SafeInv, NEW p, PushNew(p)
    PROVE  GoesOn
<1>1. PICK n \in Nodes \ issued :
        /\ Turn(p) /\ p \in Paths /\ pass # None
        /\ disk[p] \in Contents /\ Create(p, disk[p])
        /\ Went(pass', p)
        /\ \/ Made([pass.known EXCEPT ![p] = Entry(n, Measured(p), disk[p])],
                   [pass.tree EXCEPT ![p] = Leaf(n, disk[p], 1)], pass.vanished, None)
           \/ Lost
      BY PushNewIs
<1>2. /\ TypeOK /\ WholeJob(p) /\ UNCHANGED <<disk, kept, state>>
      /\ pass.half = None /\ p \in Ahead
      /\ pass.known \in [Paths -> KnownNodes \cup {None}]
      /\ pass.tree \in [Paths -> TreeNodes \cup {None}]
      BY <1>1, PushNewKeeps, PassTyped DEF TypeInv, PushNew, WholeJob, Knowledge
<1>3. Measured(p) = disk[p] /\ pass'.handled = pass.handled \cup {p}
      BY <1>1, <1>2, MeasuredNow DEF Went
<1>4. disk[p] \in held'
      BY <1>1 DEF Create
<1>5. \A q \in Paths : pass'.tree[q] \in {pass.tree[q], None} \/ pass'.tree[q].sha \in held'
      BY <1>1, <1>2, <1>4 DEF Made, Lost, Leaf
<1>6. ServerHolds' /\ held \subseteq held' /\ epoch' = epoch
      BY <1>1, <1>2, <1>5, RemoteHolds DEF Writes, SafeInv, RecordInv
<1>7. CASE Made([pass.known EXCEPT ![p] = Entry(n, Measured(p), disk[p])],
                [pass.tree EXCEPT ![p] = Leaf(n, disk[p], 1)], pass.vanished, None)
  <2>1. pass'.known[p] = Entry(n, disk[p], disk[p]) /\ pass'.vanished = pass.vanished
        BY <1>1, <1>2, <1>3, <1>7 DEF Made
  <2>   QED BY <1>2, <1>3, <1>4, <1>6, <2>1, WholeJobGoesOn DEF Entry
<1>8. CASE Lost
      BY <1>2, <1>3, <1>6, <1>8, LostGoesOn DEF Lost, Made
<1>   QED BY <1>1, <1>7, <1>8

LEMMA PushMoveGoesOn ==
    ASSUME Tame, TypeInv, WorkInv, SafeInv, NEW p, NEW v, PushMove(p, v)
    PROVE  GoesOn
<1>1. /\ Turn(p) /\ p \in Paths /\ pass # None /\ pass.half = None
      /\ v \in pass.vanished /\ v.hash = Measured(p) /\ Where(v.node) # {}
      /\ PreferLocal => AsSynced(v)
      /\ v.node \in Live /\ Move(v.node, p)
      /\ \/ /\ Made([[pass.known EXCEPT ![v.path] = None]
                        EXCEPT ![p] = Entry(v.node, v.hash, v.sha)],
                    MovedTree(p, v), pass.vanished \ {v}, None)
            /\ Went(pass', p)
         \/ UnmovedNow(p, v) /\ MayNotSucceed
      BY PushMoveIs, TameIs
<1>2. /\ TypeOK /\ WholeJob(p) /\ UNCHANGED <<disk, kept, state>>
      /\ p \in Ahead /\ v.path \in Paths /\ v.path # p /\ v.hash \in Contents
      /\ pass.known \in [Paths -> KnownNodes \cup {None}]
  <2>1. TypeOK /\ WholeJob(p) /\ UNCHANGED <<disk, kept, state>>
        BY PushMoveKeeps DEF TypeInv, PushMove
  <2>2. v.path \in Paths /\ v.hash \in Contents
        BY <1>1, <2>1, VanishedTyped
  <2>3. p \in Ahead /\ v.path \notin Ahead
        BY <1>1, <2>1 DEF WholeJob, WorkInv, Gone
  <2>   QED BY <1>1, <2>1, <2>2, <2>3, PassTyped DEF Knowledge
<1>3. v.hash = v.sha /\ v.hash \in held
  <2>1. v.hash = v.sha /\ (v.hash \in held \/ pass.verdict = "restore")
        BY <1>1 DEF SafeInv, RecordInv, GoneOnRecord
  <2>2. CASE pass.verdict = "restore"
    <3>1. PICK q \in Where(v.node) : On(q).sha = v.sha
          BY <1>1, <2>2 DEF AsSynced, PreferLocal
    <3>2. On(q).sha \in held
          BY <1>1, <3>1, WalkedHeld DEF Where
    <3>   QED BY <2>1, <3>1, <3>2
  <2>   QED BY <2>1, <2>2
<1>4. held' = held
      BY <1>1 DEF Move
<1>5. \A q \in Paths : MovedTree(p, v)[q] \in {pass.tree[q], None}
                       \/ MovedTree(p, v)[q].sha = v.sha
      BY DEF MovedTree, On, Leaf
<1>6. \A q \in Paths : pass'.tree[q] \in {pass.tree[q], None} \/ pass'.tree[q].sha \in held'
      BY <1>1, <1>3, <1>4, <1>5 DEF Made, UnmovedNow
<1>7. ServerHolds' /\ held \subseteq held' /\ epoch' = epoch
      BY <1>1, <1>2, <1>6, RemoteHolds DEF Writes, SafeInv, RecordInv
<1>8. CASE /\ Made([[pass.known EXCEPT ![v.path] = None]
                       EXCEPT ![p] = Entry(v.node, v.hash, v.sha)],
                   MovedTree(p, v), pass.vanished \ {v}, None)
           /\ Went(pass', p)
  <2>1. pass'.known[p] = Entry(v.node, v.hash, v.sha) /\ pass'.known[v.path] = None
        BY <1>1, <1>2, <1>8 DEF Made
  <2>2. pass'.vanished = pass.vanished \ {v} /\ pass'.handled = pass.handled \cup {p}
        BY <1>1, <1>8 DEF Made, Went
  <2>   QED BY <1>2, <1>3, <1>7, <2>1, <2>2, WholeJobGoesOn DEF Entry
<1>9. CASE UnmovedNow(p, v) /\ MayNotSucceed
      BY <1>2, <1>7, <1>9, LostGoesOn DEF UnmovedNow, Made
<1>   QED BY <1>1, <1>8, <1>9

\* The second half of a job, done.
LEMMA SecondHalfGoesOn ==
    ASSUME TypeOK, WorkInv, SafeInv, NEW p, SecondHalf(p), ServerHolds', held \subseteq held',
           UNCHANGED <<kept, state, epoch>>, pass.handled \subseteq pass'.handled,
           pass'.known[p] # None =>
               \/ pass'.known[p].hash = pass'.known[p].sha /\ pass'.known[p].hash \in held'
               \/ /\ pass'.known[p] = pass.known[p] /\ pass.verdict # "restore"
                  /\ pass.known[p].hash = pass.known[p].sha,
           \/ disk'[p] = disk[p] \/ disk[p] = None
           \/ pass.half.job = "take" /\ pass'.late = pass.late \cup {pass.half.copy}
    PROVE  GoesOn
<1>1. /\ pass.queue \subseteq Paths /\ pass.late \subseteq Paths
      /\ p \in Paths /\ p \in pass.handled /\ p \notin Ahead
      BY PassTyped DEF SecondHalf, SafeInv, InHand
<1>2. pass.half.job = "take" =>
          /\ pass.half.copy \in Paths /\ pass.half.copy # p /\ disk[pass.half.copy] = disk[p]
          /\ pass.meta[pass.half.copy] \in {None, disk[p]}
  <2>1. pass.half \in Halves
        BY PassTyped DEF SecondHalf
  <2>2. pass.half.job = "take" => pass.half.copy \in Paths
        BY <2>1 DEF Halves
  <2>   QED BY <2>2 DEF SafeInv, InHand, SecondHalf
<1>3. LearnsWell
  <2>1. SUFFICES ASSUME NEW q \in Paths, pass'.known[q] # None
                 PROVE  \/ /\ pass'.known[q].hash = pass'.known[q].sha
                           /\ pass'.known[q].hash \in held'
                        \/ pass'.known[q].hash # pass'.known[q].sha /\ Loose(q)'
                        \/ /\ pass'.known[q] = pass.known[q]
                           /\ Loose(q) => Loose(q)' \/ pass.known[q].hash = pass.known[q].sha
                           /\ pass.verdict = "restore" /\ Untold(q) => Untold(q)'
        BY DEF LearnsWell, SecondHalf
  <2>2. CASE q = p
        BY <2>1, <2>2
  <2>3. CASE q # p
    <3>1. pass'.known[q] = pass.known[q] /\ ~Loose(q) /\ (Untold(q) => Untold(q)')
          BY <2>3 DEF SecondHalf, Loose, Untold
    <3>   QED BY <3>1
  <2>   QED BY <2>2, <2>3
<1>4. StillMeasured'
  <2>1. ASSUME NEW q \in Ahead'
        PROVE  pass'.meta[q] \in {None, disk'[q]}
    <3>1. q # p
          BY <1>1, <1>2, <2>1 DEF Ahead, SecondHalf
    <3>2. CASE q \in Ahead
      <4>1. q \in Paths /\ pass.meta[q] \in {None, disk[q]}
            BY <1>1, <3>2 DEF SafeInv, StillMeasured, SecondHalf, Ahead
      <4>   QED BY <3>1, <4>1 DEF SecondHalf, SamePictures
    <3>3. CASE q \notin Ahead
      <4>1. q = pass.half.copy /\ pass.half.job = "take"
            BY <2>1, <3>3 DEF Ahead, SecondHalf
      <4>   QED BY <1>2, <3>1, <4>1 DEF SecondHalf, SamePictures
    <3>   QED BY <3>2, <3>3
  <2>   QED BY <2>1 DEF StillMeasured
<1>5. InHand'
      BY DEF InHand, SecondHalf
<1>6. WritesAt(p)
  <2>1. Ahead \cup pass.handled \subseteq (Ahead \cup pass.handled)'
        BY DEF Ahead, SecondHalf
  <2>2. ASSUME NEW c, c = disk[p]
        PROVE  c = None \/ c = disk'[p] \/ Kept(c)'
    <3>1. CASE pass.half.job = "take" /\ pass'.late = pass.late \cup {pass.half.copy}
      <4>1. pass.half.copy \in Ahead' /\ disk'[pass.half.copy] = c
            BY <1>2, <2>2, <3>1 DEF Ahead, SecondHalf
      <4>   QED BY <4>1 DEF Kept
    <3>   QED BY <2>2, <3>1
  <2>3. p \in (Ahead \cup pass.handled)'
        BY <1>1, <2>1
  <2>   QED BY <1>1, <2>1, <2>2, <2>3 DEF WritesAt, SecondHalf
<1>   QED BY <1>1, <1>3, <1>4, <1>5, <1>6 DEF GoesOn

\* What is refused, and when nothing may be.
LEMMA NotFollowing ==
    ASSUME Tame, TypeOK, SafeInv, pass # None, pass.half # None, MayNotSucceed,
           NEW p \in Paths, p = pass.half.path, Known(p) # None
    PROVE  Known(p).hash = Known(p).sha /\ pass.verdict # "restore" /\ pass.half.job # "edit"
<1>1. ~Following /\ pass.verdict # "restore"
      BY TameIs
<1>2. pass.half.job \notin {"drop", "edit"}
      BY <1>1 DEF Following
<1>3. Known(p).hash # Known(p).sha => pass.half.job = "take"
      BY <1>2 DEF SafeInv, RecordInv, OnRecord, Loose
<1>   QED BY <1>1, <1>2, <1>3 DEF Following

LEMMA FailFileGoesOn ==
    ASSUME Tame, TypeInv, WorkInv, SafeInv, NEW p, FailFile(p)
    PROVE  GoesOn
<1>1. /\ p \in Paths /\ pass # None /\ MayNotSucceed
      /\ Turn(p) \/ (pass.half # None /\ pass.half.path = p)
      /\ \/ Made(pass.known, pass.tree, pass.vanished, None) /\ Went(pass', p)
         \/ \E v \in pass.vanished : pass.half = None /\ UnmovedNow(p, v)
      BY FailFileIs
<1>2. TypeOK /\ UNCHANGED <<server, disk, kept, state>>
      BY DEF TypeInv, FailFile
<1>3. pass'.tree = pass.tree /\ pass'.known = pass.known /\ pass' # None
      BY <1>1 DEF UnmovedNow, Made
<1>4. ServerHolds' /\ held \subseteq held' /\ epoch' = epoch
      BY <1>1, <1>2, <1>3, LocalHolds DEF SafeInv, RecordInv
<1>5. CASE pass.half = None
  <2>1. p \in Ahead /\ disk[p] # None
        BY <1>1, <1>2, <1>5, Due DEF WorkInv, Present
  <2>2. WholeJob(p)
        BY <1>1, <1>2, <1>5, <2>1 DEF WholeJob, UnmovedNow, Made, Went, Rid
  <2>3. pass.handled \cup {p} \subseteq pass'.handled
        BY <1>1, <1>5 DEF UnmovedNow, Went
  <2>   QED BY <1>1, <1>2, <1>3, <1>4, <2>2, <2>3, LostGoesOn
<1>6. CASE pass.half # None
  <2>1. SecondHalf(p) /\ pass'.handled = pass.handled
        BY <1>1, <1>2, <1>6 DEF SecondHalf, Made, Went, Turn
  <2>2. p = pass.half.path
        BY <2>1 DEF SecondHalf
  <2>3. Known(p) # None => Known(p).hash = Known(p).sha /\ pass.verdict # "restore"
        BY <1>1, <1>2, <1>6, <2>2, NotFollowing
  <2>   QED BY <1>2, <1>3, <1>4, <2>1, <2>3, SecondHalfGoesOn DEF Known
<1>   QED BY <1>5, <1>6

LEMMA PushEditGoesOn ==
    ASSUME Tame, TypeInv, WorkInv, SafeInv, NEW p, PushEdit(p)
    PROVE  GoesOn
<1>1. PICK n \in Live :
        /\ Editing(p) /\ p \in Paths /\ pass # None /\ disk[p] # None /\ disk[p] \in Contents
        /\ Edit(n, disk[p]) /\ Went(pass', p)
        /\ \/ /\ EditHash(p) \in Contents
              /\ Made([pass.known EXCEPT ![p] = Entry(n, EditHash(p), disk[p])],
                      pass.tree, pass.vanished, None)
           \/ Lost
      BY PushEditIs
<1>2. /\ TypeOK /\ UNCHANGED <<disk, kept, state>> /\ n \in Nodes
      /\ pass.known \in [Paths -> KnownNodes \cup {None}]
      BY <1>1, PassTyped, LiveTyped DEF TypeInv, PushEdit, Knowledge
<1>3. disk[p] \in held'
      BY <1>1 DEF Edit
<1>4. pass'.tree = pass.tree /\ pass' # None /\ pass'.vanished = pass.vanished
      BY <1>1 DEF Made, Lost
<1>5. ServerHolds' /\ held \subseteq held' /\ epoch' = epoch
      BY <1>1, <1>2, <1>4, RemoteHolds DEF Writes, SafeInv, RecordInv
<1>6. ASSUME ~Lost
      PROVE  pass'.known = [pass.known EXCEPT ![p] = Entry(n, EditHash(p), disk[p])]
      BY <1>1, <1>6 DEF Made
<1>7. EditHash(p) = disk[p]
  <2>1. CASE pass.half = None
        BY <1>1, <1>2, <2>1, EditingIs, Due, MeasuredNow DEF EditHash
  <2>2. CASE pass.half # None
    <3>1. pass.half.path = p /\ pass.half.job = "edit"
          BY <1>1, <1>2, <2>2, EditingIs DEF Halfway
    <3>   QED BY <1>1, <2>2, <3>1 DEF EditHash, SafeInv, InHand
  <2>   QED BY <2>1, <2>2
<1>8. ASSUME ~Lost
      PROVE  pass'.known[p].hash = pass'.known[p].sha /\ pass'.known[p].hash \in held'
  <2>1. pass'.known[p] = Entry(n, disk[p], disk[p])
        BY <1>1, <1>2, <1>6, <1>7, <1>8
  <2>   QED BY <1>3, <2>1 DEF Entry
<1>9. CASE pass.half = None
  <2>1. p \in Ahead
        BY <1>1, <1>2, <1>9, EditingIs, Due
  <2>2. WholeJob(p)
        BY <1>1, <1>2, <1>9, <2>1 DEF WholeJob, Made, Lost, Went, Rid
  <2>3. pass'.handled = pass.handled \cup {p}
        BY <1>1, <1>9 DEF Went
  <2>4. CASE Lost
        BY <1>2, <1>5, <2>2, <2>3, <2>4, LostGoesOn DEF Lost, Made
  <2>5. CASE ~Lost
        BY <1>2, <1>4, <1>5, <1>8, <2>2, <2>3, <2>5, WholeJobGoesOn
  <2>   QED BY <2>4, <2>5
<1>10. CASE pass.half # None
  <2>1. pass.half.path = p /\ pass.half.job = "edit"
        BY <1>1, <1>2, <1>10, EditingIs DEF Halfway
  <2>2. ~Lost
    <3>1. Lost => ~Following
          BY <1>1, TameIs DEF Lost
    <3>   QED BY <1>10, <2>1, <3>1 DEF Following
  <2>3. Entry(n, EditHash(p), disk[p]) # None
        BY <1>1, <1>2, <1>7, Apart DEF Entry, KnownNodes
  <2>4. On(p) # None
        BY <1>1, <1>10, <2>1 DEF WorkInv, Between
  <2>5. SecondHalf(p) /\ pass'.handled = pass.handled
        BY <1>1, <1>2, <1>10, <2>1, <2>2, <2>3, <2>4 DEF SecondHalf, Made, Went
  <2>   QED BY <1>2, <1>5, <1>8, <2>2, <2>5, SecondHalfGoesOn
<1>   QED BY <1>9, <1>10

LEMMA TakeServerGoesOn ==
    ASSUME TypeInv, WorkInv, SafeInv, NEW p, TakeServer(p)
    PROVE  GoesOn
<1>1. /\ TypeOK /\ p \in Paths /\ pass # None /\ pass.half # None
      /\ pass.half.job = "take" /\ pass.half.path = p
      /\ pass.half.node \in Nodes /\ pass.half.sha \in Contents
      BY TakeServerIs DEF TypeInv, Halfway
<1>2. PICK e, c : e = Entry(pass.half.node, pass.half.sha, pass.half.sha) /\ c = pass.half.sha
      OBVIOUS
<1>3. e # None /\ c # None /\ e.hash = c /\ e.sha = c /\ c \in held
      BY <1>1, <1>2, Apart DEF Entry, KnownNodes, SafeInv, InHand
<1>4. /\ Made([pass.known EXCEPT ![p] = e], pass.tree, pass.vanished, None)
      /\ pass'.queue = pass.queue /\ pass'.late = pass.late \cup {pass.half.copy}
      /\ pass'.handled = pass.handled
      /\ disk' = [disk EXCEPT ![p] = c] /\ UNCHANGED <<server, kept, state>>
      BY <1>2, TakeServerIs DEF TakeServer
<1>5. /\ pass.known \in [Paths -> KnownNodes \cup {None}]
      /\ disk \in [Paths -> Contents \cup {None}]
      BY <1>1, PassTyped DEF Knowledge, TypeOK, Files
<1>6. On(p) # None
      BY <1>1 DEF WorkInv, Between
<1>7. SecondHalf(p)
      BY <1>1, <1>3, <1>4, <1>5, <1>6 DEF SecondHalf, Made
<1>8. ServerHolds' /\ held \subseteq held' /\ epoch' = epoch
      BY <1>1, <1>4, LocalHolds DEF SafeInv, RecordInv, Made
<1>9. pass'.known[p] = e
      BY <1>1, <1>4, <1>5 DEF Made
<1>   QED BY <1>1, <1>3, <1>4, <1>7, <1>8, <1>9, SecondHalfGoesOn

LEMMA FillGoesOn ==
    ASSUME TypeInv, WorkInv, SafeInv, NEW p, Fill(p)
    PROVE  GoesOn
<1>1. /\ TypeOK /\ p \in Paths /\ pass # None /\ pass.half # None /\ On(p) # None
      /\ pass.half.job = "fill" /\ pass.half.path = p
      BY FillIs DEF TypeInv, Halfway
<1>2. PICK e, c : e = Entry(On(p).node, On(p).sha, On(p).sha) /\ c = On(p).sha
      OBVIOUS
<1>3. e # None /\ c # None /\ e.hash = c /\ e.sha = c /\ c \in held
      BY <1>1, <1>2, OnTyped, WalkedHeld, Apart DEF Entry, KnownNodes
<1>4. /\ Made([pass.known EXCEPT ![p] = e], pass.tree, pass.vanished, None)
      /\ Went(pass', p)
      /\ disk' = [disk EXCEPT ![p] = c] /\ UNCHANGED <<server, kept, state>>
      BY <1>2, FillIs DEF Fill, PullInto
<1>5. /\ pass.known \in [Paths -> KnownNodes \cup {None}]
      /\ disk \in [Paths -> Contents \cup {None}]
      BY <1>1, PassTyped DEF Knowledge, TypeOK, Files
<1>6. SecondHalf(p) /\ pass'.handled = pass.handled
      BY <1>1, <1>3, <1>4, <1>5 DEF SecondHalf, Made, Went
<1>7. ServerHolds' /\ held \subseteq held' /\ epoch' = epoch
      BY <1>1, <1>4, LocalHolds DEF SafeInv, RecordInv, Made
<1>8. pass'.known[p] = e /\ disk[p] = None
      BY <1>1, <1>4, <1>5 DEF Made, SafeInv, InHand
<1>   QED BY <1>1, <1>3, <1>4, <1>6, <1>7, <1>8, SecondHalfGoesOn

\* The first half of a conflict: the copy.
LEMMA CopyAsideGoesOn ==
    ASSUME Tame, TypeOK, WorkInv, SafeInv, pass # None, NEW p \in Paths, NEW n \in Nodes,
           NEW sha \in Contents, sha \in held, disk[p] # None, CopyAside(p, n, sha),
           On(p) # None,
           Turn(p) \/ (pass.half # None /\ pass.half.job = "edit" /\ pass.half.path = p)
    PROVE  GoesOn
<1>1. PICK q \in CopyNames(p) :
        /\ q \in Paths /\ q # p
        /\ disk' = [disk EXCEPT ![q] = disk[p]]
        /\ Made(pass.known, pass.tree, pass.vanished, TakeHalf(p, n, sha, q))
        /\ Went(pass', p)
      BY CopyAsideIs
<1>2. {disk[q], pass.meta[q]} \subseteq {None, disk[p]}
      BY <1>1, TameIs DEF CopyNames, Calm
<1>3. PICK h : h = TakeHalf(p, n, sha, q)
      OBVIOUS
<1>4. h.job = "take" /\ h.path = p /\ h.copy = q /\ h.sha = sha /\ h # None
      BY <1>1, <1>3, Apart DEF TakeHalf, Halves
<1>5. /\ pass' # None /\ pass'.half = h /\ SamePictures(pass') /\ Went(pass', p)
      /\ pass'.known = pass.known /\ pass'.tree = pass.tree /\ pass'.vanished = pass.vanished
      /\ UNCHANGED <<server, kept, state>>
      BY <1>1, <1>3 DEF Made, CopyAside
<1>6. /\ pass.queue \subseteq Paths /\ pass.late \subseteq Paths
      /\ disk'[q] = disk[p] /\ \A r \in Paths \ {q} : disk'[r] = disk[r]
  <2>1. disk \in [Paths -> Contents \cup {None}]
        BY DEF TypeOK, Files
  <2>   QED BY <1>1, <2>1, PassTyped
<1>7. /\ Ahead' \subseteq Ahead \ {p} /\ pass.handled \cup {p} \subseteq pass'.handled
      /\ Ahead \ {p} \subseteq Ahead' /\ pass.queue \ {p} \subseteq pass'.queue
  <2>1. CASE pass.half = None
    <3>1. p \notin pass.queue \cap pass.late
          BY DEF WorkInv, Twice
    <3>   QED BY <1>5, <2>1, <3>1 DEF Went, Ahead
  <2>2. CASE pass.half # None
    <3>1. p \in pass.handled /\ p \notin Ahead
          BY <2>2 DEF SafeInv, InHand, Turn
    <3>   QED BY <1>5, <2>2, <3>1 DEF Went, Ahead
  <2>   QED BY <2>1, <2>2
<1>8. ServerHolds' /\ held \subseteq held' /\ epoch' = epoch
      BY <1>5, LocalHolds DEF SafeInv, RecordInv
<1>9. LearnsWell
  <2>1. \A r \in Paths : (Loose(r) => Loose(r)') /\ (Untold(r) => Untold(r)')
        BY <1>4, <1>5, <1>7 DEF Loose, Untold, Turn
  <2>   QED BY <1>5, <1>8, <2>1 DEF LearnsWell
<1>10. StillMeasured'
  <2>1. ASSUME NEW r \in Ahead'
        PROVE  pass'.meta[r] \in {None, disk'[r]}
    <3>1. r \in Ahead /\ r \in Paths
          BY <1>6, <1>7, <2>1 DEF Ahead
    <3>2. pass.meta[r] \in {None, disk[r]}
          BY <3>1 DEF SafeInv, StillMeasured
    <3>   QED BY <1>2, <1>5, <1>6, <3>1, <3>2 DEF SamePictures
  <2>   QED BY <2>1 DEF StillMeasured
<1>11. InHand'
      BY <1>1, <1>2, <1>4, <1>5, <1>6, <1>7, <1>8 DEF InHand, SamePictures
<1>12. WritesAt(q)
  <2>1. ASSUME NEW c, c = disk[p] PROVE Kept(c)'
        BY <1>1, <1>6, <1>7, <2>1 DEF Kept
  <2>   QED BY <1>1, <1>2, <1>5, <1>6, <1>7, <1>8, <2>1 DEF WritesAt, Ahead
<1>   QED BY <1>1, <1>8, <1>9, <1>10, <1>11, <1>12 DEF GoesOn

LEMMA ResolvingGoesOn ==
    ASSUME Tame, TypeInv, WorkInv, SafeInv, NEW p, Conflict(p) \/ BaseMismatch(p)
    PROVE  GoesOn
<1>1. PICK n \in Nodes, sha \in Contents :
        /\ CopyAside(p, n, sha) \/ Bind(p, n, sha)
        /\ p \in Paths /\ pass # None /\ disk[p] # None
        /\ \/ Turn(p) /\ On(p) # None /\ pass.half = None
           \/ Halfway(p, "edit") /\ pass.half # None
        /\ \/ On(p) # None /\ sha = On(p).sha
           \/ n \in Live /\ sha = nodes[n].sha
      BY ResolvingIs
<1>2. TypeOK
      BY DEF TypeInv
<1>3. pass.half # None => pass.half.path = p /\ pass.half.job = "edit"
      BY <1>1 DEF Halfway, Turn
<1>4. On(p) # None
      BY <1>1, <1>3 DEF WorkInv, Between
<1>5. sha \in held
  <2>1. n \in Live => nodes[n].sha \in held
        BY DEF Live, SafeInv, RecordInv, ServerHolds
  <2>   QED BY <1>1, <1>4, <2>1, WalkedHeld
<1>6. CASE CopyAside(p, n, sha)
      BY <1>1, <1>2, <1>3, <1>4, <1>5, <1>6, CopyAsideGoesOn
<1>7. CASE Bind(p, n, sha)
  <2>1. /\ UNCHANGED <<server, disk, kept, state>>
        /\ pass.known \in [Paths -> KnownNodes \cup {None}]
        /\ Made([pass.known EXCEPT ![p] = Entry(n, sha, sha)],
                pass.tree, pass.vanished, None)
        /\ Went(pass', p)
        BY <1>1, <1>2, <1>7, BindIs, PassTyped DEF Bind, Knowledge
  <2>2. Entry(n, sha, sha) # None /\ pass'.known[p] = Entry(n, sha, sha)
        BY <1>1, <2>1, Apart DEF Entry, KnownNodes, Made
  <2>3. ServerHolds' /\ held \subseteq held' /\ epoch' = epoch
        BY <1>1, <2>1, LocalHolds DEF SafeInv, RecordInv, Made
  <2>4. pass'.known[p].hash = pass'.known[p].sha /\ pass'.known[p].hash \in held'
        BY <1>5, <2>2, <2>3 DEF Entry
  <2>5. CASE pass.half = None
    <3>1. p \in Ahead
          BY <1>1, <1>2, <2>5, Due
    <3>2. WholeJob(p)
          BY <1>1, <2>1, <2>5, <3>1 DEF WholeJob, Made, Went, Rid
    <3>3. pass'.handled = pass.handled \cup {p} /\ pass'.vanished = pass.vanished
          BY <2>1, <2>5 DEF Went, Made
    <3>   QED BY <1>2, <2>1, <2>3, <2>4, <3>2, <3>3, WholeJobGoesOn
  <2>6. CASE pass.half # None
    <3>1. SecondHalf(p) /\ pass'.handled = pass.handled
          BY <1>1, <1>3, <1>4, <2>1, <2>2, <2>6 DEF SecondHalf, Made, Went
    <3>   QED BY <1>2, <2>1, <2>3, <2>4, <3>1, SecondHalfGoesOn
  <2>   QED BY <2>5, <2>6
<1>   QED BY <1>1, <1>6, <1>7

\* A remote rename, followed: the new name, then the old one.
LEMMA FollowRenameGoesOn ==
    ASSUME Tame, TypeInv, WorkInv, SafeInv, NEW p, FollowRename(p)
    PROVE  GoesOn
<1>1. PICK to \in Paths :
        /\ Turn(p) /\ disk[p] # None /\ Measured(p) \in Contents
        /\ Known(p) # None /\ to # p /\ On(to) # None /\ Followable(p, to)
        /\ disk' = [disk EXCEPT ![to] = disk[p]]
        /\ Made(pass.known, pass.tree, pass.vanished, DropHalf(p, to, Measured(p)))
        /\ Went(pass', p)
      BY FollowRenameIs
<1>2. /\ TypeOK /\ pass # None /\ pass.half = None /\ p \in Ahead /\ p \in Paths
      /\ UNCHANGED <<server, kept, state>>
      BY <1>1, Due DEF TypeInv, FollowRename
<1>3. disk[to] = None /\ On(to).sha = Known(p).sha
      BY <1>1, TameIs DEF Followable
<1>4. PICK h : h = DropHalf(p, to, Measured(p))
      OBVIOUS
<1>5. h.job = "drop" /\ h.path = p /\ h.to = to /\ h.hash = disk[p] /\ h # None
      BY <1>1, <1>2, <1>4, MeasuredNow, Apart DEF DropHalf, Halves
<1>6. /\ pass' # None /\ pass'.half = h /\ SamePictures(pass') /\ Went(pass', p)
      /\ pass'.known = pass.known /\ pass'.tree = pass.tree /\ pass'.vanished = pass.vanished
      BY <1>1, <1>4 DEF Made
<1>7. /\ pass.queue \subseteq Paths /\ pass.late \subseteq Paths
      /\ disk'[to] = disk[p] /\ \A r \in Paths \ {to} : disk'[r] = disk[r]
  <2>1. disk \in [Paths -> Contents \cup {None}]
        BY <1>2 DEF TypeOK, Files
  <2>   QED BY <1>1, <1>2, <2>1, PassTyped
<1>8. /\ Ahead' \subseteq Ahead \ {p} /\ pass.handled \cup {p} = pass'.handled
      /\ Ahead \ {p} \subseteq Ahead' /\ pass.queue \ {p} \subseteq pass'.queue
  <2>1. p \notin pass.queue \cap pass.late
        BY <1>1, <1>2 DEF WorkInv, Twice
  <2>   QED BY <1>2, <1>6, <2>1 DEF Went, Ahead
<1>9. to \notin Ahead
      BY <1>2, <1>3 DEF WorkInv, Present
<1>10. ServerHolds' /\ held \subseteq held' /\ epoch' = epoch
      BY <1>2, <1>6, LocalHolds DEF SafeInv, RecordInv
<1>11. LearnsWell
  <2>1. \A r \in Paths : ~Loose(r) /\ (Untold(r) => Untold(r)')
        BY <1>2, <1>5, <1>6, <1>8 DEF Loose, Untold
  <2>   QED BY <1>2, <1>6, <1>10, <2>1 DEF LearnsWell
<1>12. StillMeasured'
      BY <1>2, <1>6, <1>7, <1>8, <1>9 DEF SafeInv, StillMeasured, SamePictures, Ahead
<1>13. InHand'
      BY <1>1, <1>2, <1>3, <1>5, <1>6, <1>7, <1>8, <1>9 DEF InHand, On, Known
<1>14. WritesAt(to)
  <2>1. ASSUME NEW c, c = disk[p] PROVE Kept(c)'
        BY <1>1, <1>2, <1>7, <1>8, <2>1 DEF Kept
  <2>   QED BY <1>1, <1>2, <1>3, <1>6, <1>7, <1>8, <1>10, <2>1 DEF WritesAt, Ahead
<1>   QED BY <1>1, <1>10, <1>11, <1>12, <1>13, <1>14 DEF GoesOn

LEMMA DropOldNameGoesOn ==
    ASSUME TypeInv, WorkInv, SafeInv, NEW p, DropOldName(p)
    PROVE  GoesOn
<1>1. PICK to, hash, n, sha, h :
        /\ to = pass.half.to /\ hash = pass.half.hash
        /\ n = On(to).node /\ sha = On(to).sha
        /\ h = IF Known(p).hash = hash THEN None ELSE EditHalf(to, hash, Known(p).sha)
      OBVIOUS
<1>2. /\ TypeOK /\ Halfway(p, "drop") /\ p \in Paths /\ to \in Paths /\ to # p
      /\ On(to) # None /\ Known(p) # None
      /\ Made([[pass.known EXCEPT ![p] = None] EXCEPT ![to] = Entry(n, hash, sha)],
              pass.tree, pass.vanished, h)
      /\ pass'.queue = pass.queue /\ pass'.late = pass.late
      /\ pass'.handled = pass.handled \cup {to}
      /\ disk' = [disk EXCEPT ![p] = None]
      /\ UNCHANGED <<server, kept, state>>
      BY <1>1, DropOldNameIs DEF DropOldName, TypeInv
<1>3. /\ pass # None /\ pass.half # None /\ pass.half.path = p /\ pass.half.job = "drop"
      /\ pass.half.to = to /\ pass.half.hash = hash
      BY <1>1, <1>2 DEF Halfway
<1>4. /\ p \in pass.handled /\ p \notin Ahead /\ to \notin Ahead
      /\ disk[to] = disk[p] /\ hash = disk[p] /\ sha = Known(p).sha
      BY <1>1, <1>3 DEF SafeInv, InHand
<1>5. Known(p).hash = Known(p).sha /\ sha \in held
      BY <1>1, <1>2, <1>3, WalkedHeld DEF SafeInv, RecordInv, OnRecord, Loose
<1>6. /\ pass.queue \subseteq Paths /\ pass.late \subseteq Paths
      /\ disk'[p] = None /\ \A r \in Paths \ {p} : disk'[r] = disk[r]
      /\ pass'.known[p] = None /\ pass'.known[to] = Entry(n, hash, sha)
      /\ \A r \in Paths \ {p, to} : pass'.known[r] = pass.known[r]
  <2>1. /\ disk \in [Paths -> Contents \cup {None}]
        /\ pass.known \in [Paths -> KnownNodes \cup {None}]
        BY <1>2, <1>3, PassTyped DEF TypeOK, Files, Knowledge
  <2>   QED BY <1>2, <1>3, <2>1, PassTyped DEF Made
<1>7. /\ pass' # None /\ pass'.half = h /\ SamePictures(pass')
      /\ pass'.tree = pass.tree /\ pass'.vanished = pass.vanished
      BY <1>2 DEF Made
<1>8. h = None \/ (h.job = "edit" /\ h.path = to /\ h.hash = hash)
      BY <1>1 DEF EditHalf
<1>9. hash # sha => h # None /\ h.job = "edit" /\ h.path = to
  <2>1. Known(p).sha \in Contents /\ hash \in Contents
        BY <1>1, <1>2, <1>3, KnownTyped, HalfwayIs
  <2>2. EditHalf(to, hash, Known(p).sha) # None
        BY <1>2, <2>1, Apart DEF EditHalf, Halves
  <2>   QED BY <1>1, <1>4, <1>5, <2>2 DEF EditHalf
<1>10. ServerHolds' /\ held \subseteq held' /\ epoch' = epoch
      BY <1>2, <1>3, <1>7, LocalHolds DEF SafeInv, RecordInv
<1>11. LearnsWell
  <2>1. SUFFICES ASSUME NEW q \in Paths, pass'.known[q] # None
                 PROVE  \/ /\ pass'.known[q].hash = pass'.known[q].sha
                           /\ pass'.known[q].hash \in held'
                        \/ pass'.known[q].hash # pass'.known[q].sha /\ Loose(q)'
                        \/ /\ pass'.known[q] = pass.known[q]
                           /\ Loose(q) => Loose(q)' \/ pass.known[q].hash = pass.known[q].sha
                           /\ pass.verdict = "restore" /\ Untold(q) => Untold(q)'
        BY <1>2, <1>3, <1>7, <1>10 DEF LearnsWell
  <2>2. CASE q = to
    <3>1. pass'.known[q].hash = hash /\ pass'.known[q].sha = sha
          BY <1>6, <2>2 DEF Entry
    <3>2. CASE hash = sha
          BY <1>5, <1>10, <3>1, <3>2
    <3>3. CASE hash # sha
          BY <1>7, <1>9, <2>2, <3>1, <3>3 DEF Loose
    <3>   QED BY <3>2, <3>3
  <2>3. CASE q # to
    <3>1. q # p
          BY <1>6, <2>1
    <3>2. ~Loose(q)
          BY <1>3 DEF Loose
    <3>3. Untold(q) => Untold(q)'
          BY <1>2, <1>3, <1>7, <3>1 DEF Untold
    <3>   QED BY <1>6, <2>3, <3>1, <3>2, <3>3
  <2>   QED BY <2>2, <2>3
<1>12. StillMeasured'
      BY <1>2, <1>3, <1>4, <1>6, <1>7 DEF SafeInv, StillMeasured, SamePictures, Ahead
<1>13. InHand'
      BY <1>2, <1>4, <1>6, <1>7, <1>8 DEF InHand, Ahead
<1>14. WritesAt(p)
  <2>1. ASSUME NEW c, c = disk[p] PROVE Kept(c)'
        BY <1>2, <1>4, <1>6, <2>1 DEF Kept
  <2>   QED BY <1>2, <1>3, <1>6, <1>7, <1>10, <2>1 DEF WritesAt, Ahead
<1>   QED BY <1>2, <1>10, <1>11, <1>12, <1>13, <1>14 DEF GoesOn

\* After a reset a file that differs is written to the quarantine, then erased.
LEMMA QuarantineGoesOn ==
    ASSUME Tame, TypeInv, WorkInv, SafeInv, NEW p, Quarantine(p)
    PROVE  GoesOn
<1>1. PICK h : h = ResetHalf("erase", p)
      OBVIOUS
<1>2. /\ Turn(p) /\ pass.verdict = "reset"
      /\ Made(pass.known, pass.tree, pass.vanished, h)
      /\ Went(pass', p)
      /\ kept' = [kept EXCEPT ![p] = {disk[p]} \cup
                     IF "second quarantine" \in Mishaps THEN {} ELSE kept[p]]
      /\ UNCHANGED <<server, disk, state>>
      BY <1>1, QuarantineIs DEF Quarantine
<1>3. /\ TypeOK /\ pass # None /\ pass.half = None /\ p \in Ahead /\ p \in Paths
      BY <1>2, Due DEF TypeInv
<1>4. h.job = "erase" /\ h.path = p
      BY <1>1 DEF ResetHalf
<1>5. kept'[p] = {disk[p]} \cup kept[p] /\ \A q \in Paths \ {p} : kept'[q] = kept[q]
      BY <1>2, <1>3, TameIs DEF TypeOK
<1>6. /\ pass' # None /\ pass'.half = h /\ SamePictures(pass')
      /\ pass'.known = pass.known /\ pass'.tree = pass.tree /\ pass'.vanished = pass.vanished
      BY <1>2 DEF Made
<1>7. /\ pass.queue \subseteq Paths /\ pass.late = {} /\ pass'.late = {}
      /\ pass'.queue = pass.queue \ {p} /\ pass'.handled = pass.handled \cup {p}
  <2>1. pass.late = {}
        BY <1>2, <1>3 DEF WorkInv, ResetFresh
  <2>   QED BY <1>2, <1>3, <2>1, PassTyped DEF Went, Ahead
<1>8. ServerHolds' /\ held \subseteq held' /\ epoch' = epoch
      BY <1>2, <1>3, <1>6, LocalHolds DEF SafeInv, RecordInv
<1>9. LearnsWell
      BY <1>2, <1>3, <1>6, <1>8 DEF LearnsWell, Loose
<1>10. StillMeasured'
      BY <1>2, <1>3, <1>6, <1>7 DEF SafeInv, StillMeasured, SamePictures, Ahead
<1>11. InHand'
      BY <1>2, <1>4, <1>5, <1>6, <1>7 DEF InHand, Ahead
<1>12. WritesAt(p)
      BY <1>2, <1>3, <1>5, <1>6, <1>7, <1>8 DEF WritesAt, Ahead
<1>   QED BY <1>3, <1>8, <1>9, <1>10, <1>11, <1>12 DEF GoesOn

LEMMA EraseGoesOn ==
    ASSUME TypeInv, WorkInv, SafeInv, NEW p, Erase(p)
    PROVE  GoesOn
<1>1. PICK h : h = IF On(p) = None THEN None ELSE ResetHalf("fill", p)
      OBVIOUS
<1>2. /\ TypeOK /\ Halfway(p, "erase") /\ p \in Paths
      /\ Made(pass.known, pass.tree, pass.vanished, h) /\ Went(pass', p)
      /\ disk' = [disk EXCEPT ![p] = None]
      /\ UNCHANGED <<server, kept, state>>
      BY <1>1, EraseIs DEF Erase, TypeInv
<1>3. /\ pass # None /\ pass.half # None /\ pass.half.path = p /\ pass.half.job = "erase"
      BY <1>2 DEF Halfway
<1>4. h = None \/ (h.job = "fill" /\ h.path = p)
      BY <1>1 DEF ResetHalf
<1>5. p \in pass.handled /\ p \notin Ahead /\ disk[p] \in kept[p] \cup {None}
      BY <1>3 DEF SafeInv, InHand
<1>6. /\ pass' # None /\ pass'.half = h /\ SamePictures(pass')
      /\ pass'.known = pass.known /\ pass'.tree = pass.tree /\ pass'.vanished = pass.vanished
      /\ pass'.queue = pass.queue /\ pass'.late = pass.late /\ pass'.handled = pass.handled
      BY <1>2, <1>3 DEF Made, Went
<1>7. /\ pass.queue \subseteq Paths /\ pass.late \subseteq Paths
      /\ disk'[p] = None /\ \A r \in Paths \ {p} : disk'[r] = disk[r]
  <2>1. disk \in [Paths -> Contents \cup {None}]
        BY <1>2 DEF TypeOK, Files
  <2>   QED BY <1>2, <1>3, <2>1, PassTyped
<1>8. ServerHolds' /\ held \subseteq held' /\ epoch' = epoch
      BY <1>2, <1>3, <1>6, LocalHolds DEF SafeInv, RecordInv
<1>9. pass.verdict = "reset"
      BY <1>3 DEF WorkInv, Between
<1>10. LearnsWell
      BY <1>2, <1>3, <1>6, <1>8, <1>9 DEF LearnsWell, Loose
<1>11. StillMeasured'
      BY <1>2, <1>3, <1>5, <1>6, <1>7 DEF SafeInv, StillMeasured, SamePictures, Ahead
<1>12. InHand'
      BY <1>4, <1>5, <1>6, <1>7 DEF InHand, Ahead
<1>13. WritesAt(p)
  <2>1. ASSUME NEW c, c = disk[p] PROVE c = None \/ Kept(c)'
    <3>1. c # None => c \in kept'[p]
          BY <1>2, <1>5, <2>1
    <3>   QED BY <1>2, <3>1 DEF Kept
  <2>   QED BY <1>2, <1>3, <1>6, <1>7, <1>8, <2>1 DEF WritesAt, Ahead
<1>   QED BY <1>2, <1>8, <1>10, <1>11, <1>12, <1>13 DEF GoesOn

\* After the files one path is settled, and only that one.
LEMMA RestGoesOn ==
    ASSUME TypeOK, SafeInv, FilesDone, pass' # None, pass'.half = None, SamePictures(pass'),
           NEW p \in Paths, pass'.queue = {}, pass'.late = {},
           pass'.handled = pass.handled \cup {p}, pass'.vanished \subseteq pass.vanished,
           \A v \in pass.vanished \ pass'.vanished : v.path = p,
           ServerHolds', held \subseteq held', UNCHANGED <<kept, state, epoch>>,
           \/ pass'.known[p] = None
           \/ pass'.known[p].hash = pass'.known[p].sha /\ pass'.known[p].hash \in held'
           \/ pass'.known[p] = pass.known[p] /\ pass.verdict # "restore",
           \A q \in Paths \ {p} : disk'[q] = disk[q] /\ pass'.known[q] = pass.known[q],
           disk'[p] = disk[p] \/ p \notin pass.handled
    PROVE  GoesOn
<1>1. pass # None /\ pass.half = None /\ pass.queue = {} /\ pass.late = {}
      BY DEF FilesDone
<1>2. LearnsWell
  <2>1. \A q \in Paths : ~Loose(q) /\ (q # p /\ Untold(q) => Untold(q)')
        BY <1>1 DEF Loose, Untold
  <2>   QED BY <1>1, <2>1 DEF LearnsWell
<1>3. StillMeasured' /\ InHand'
      BY DEF StillMeasured, InHand, Ahead
<1>4. WritesAt(p)
  <2>1. ASSUME NEW c, c = disk[p], c # None, c # disk'[p] PROVE Kept(c)'
    <3>1. Kept(c) /\ p \notin pass.handled
          BY <1>1, <2>1 DEF SafeInv, AllKept
    <3>2. pass.handled \subseteq Paths
          BY <1>1, PassTyped
    <3>   QED BY <1>1, <3>1, <3>2 DEF Kept, Ahead
  <2>   QED BY <1>1, <2>1 DEF WritesAt, Ahead
<1>   QED BY <1>2, <1>3, <1>4 DEF GoesOn

LEMMA VanishedStepGoesOn ==
    ASSUME TypeInv, SafeInv, VanishedStep
    PROVE  GoesOn
<1>1. TypeOK /\ pass # None
      BY DEF TypeInv, VanishedStep
<1>2. PICK v \in pass.vanished : ForgetVanished(v) \/ PushDelete(v) \/ FailDelete(v)
      BY DEF VanishedStep
<1>3. v.path \in Paths /\ v.hash \in Contents
      BY <1>1, VanishedTyped
<1>4. /\ FilesDone /\ SettledNow(v) /\ UNCHANGED <<disk, kept, state>>
      /\ \/ Made([pass.known EXCEPT ![v.path] = None], pass.tree, pass.vanished \ {v}, None)
         \/ /\ Made([pass.known EXCEPT ![v.path] = None],
                    [pass.tree EXCEPT ![v.path] = None], pass.vanished \ {v}, None)
            /\ ~PreferLocal
         \/ /\ Made(pass.known, pass.tree, pass.vanished \ {v}, None)
            /\ ~PreferLocal
      /\ \/ UNCHANGED server
         \/ v.node \in Live /\ Trash(v.node)
  <2>1. CASE ForgetVanished(v)
        BY <1>1, <2>1, ForgottenNow DEF ForgetVanished
  <2>2. CASE PushDelete(v)
        BY <2>2, PushDeleteIs DEF PushDelete
  <2>3. CASE FailDelete(v)
        BY <2>3, FailDeleteIs DEF FailDelete
  <2>   QED BY <1>2, <2>1, <2>2, <2>3
<1>5. /\ pass.known \in [Paths -> KnownNodes \cup {None}]
      /\ pass.tree \in [Paths -> TreeNodes \cup {None}]
      BY <1>1, PassTyped DEF Knowledge
<1>6. \A q \in Paths : pass'.tree[q] \in {pass.tree[q], None}
      BY <1>4, <1>5 DEF Made
<1>7. ServerHolds' /\ held \subseteq held' /\ epoch' = epoch
      BY <1>1, <1>3, <1>4, <1>6, LocalHolds, RemoteHolds DEF SafeInv, RecordInv, Writes
<1>8. /\ pass'.known[v.path] = None
         \/ (pass'.known[v.path] = pass.known[v.path] /\ pass.verdict # "restore")
      /\ \A q \in Paths \ {v.path} : pass'.known[q] = pass.known[q]
      BY <1>3, <1>4, <1>5 DEF Made, PreferLocal
<1>9. /\ pass' # None /\ pass'.half = None /\ SamePictures(pass')
      /\ pass'.queue = {} /\ pass'.late = {} /\ pass'.handled = pass.handled \cup {v.path}
      /\ pass'.vanished = pass.vanished \ {v}
      BY <1>4 DEF Made, SettledNow
<1>   QED BY <1>1, <1>3, <1>4, <1>7, <1>8, <1>9, RestGoesOn

LEMMA ServerOnlyGoesOn ==
    ASSUME Tame, TypeInv, SafeInv, NEW p \in Paths, PullRest(p) \/ FailPull(p)
    PROVE  GoesOn
<1>1. TypeOK
      BY DEF TypeInv
<1>2. PICK e, c : e = Entry(On(p).node, On(p).sha, On(p).sha) /\ c = On(p).sha
      OBVIOUS
<1>3. /\ FilesDone /\ pass # None /\ On(p) # None
      /\ pass' # None /\ pass'.half = None /\ SamePictures(pass')
      /\ pass'.tree = pass.tree /\ pass'.vanished = pass.vanished
      /\ pass'.queue = {} /\ pass'.late = {} /\ pass'.handled = pass.handled \cup {p}
      /\ UNCHANGED <<server, kept, state>>
      BY PullRestIs, FailPullIs DEF Made, PullRest, PullInto, FailPull
<1>4. /\ pass.known \in [Paths -> KnownNodes \cup {None}]
      /\ disk \in [Paths -> Contents \cup {None}]
      BY <1>1, <1>3, PassTyped DEF Knowledge, TypeOK, Files
<1>5. ServerHolds' /\ held \subseteq held' /\ epoch' = epoch
      BY <1>3, LocalHolds DEF SafeInv, RecordInv
<1>6. e.hash = c /\ e.sha = c /\ c \in held
      BY <1>2, <1>3, WalkedHeld DEF Entry
<1>7. CASE PullRest(p)
  <2>1. /\ pass'.known = [pass.known EXCEPT ![p] = e] /\ disk' = [disk EXCEPT ![p] = c]
        /\ p \notin pass.handled
        BY <1>2, <1>7, PullRestIs DEF Made
  <2>   QED BY <1>1, <1>3, <1>4, <1>5, <1>6, <2>1, RestGoesOn
<1>8. CASE FailPull(p)
  <2>1. disk' = disk /\ pass'.known = pass.known /\ pass.verdict # "restore"
        BY <1>3, <1>8, FailPullIs, TameIs DEF Made, FailPull
  <2>   QED BY <1>1, <1>3, <1>5, <2>1, RestGoesOn
<1>   QED BY <1>7, <1>8

LEMMA FileStepGoesOn ==
    ASSUME Tame, TypeInv, WorkInv, SafeInv, NEW p, FileStep(p)
    PROVE  GoesOn
<1>1. CASE LeaveAlone(p) \/ Pull(p) \/ Adopt(p) \/ RemoveLocal(p) \/ Rebind(p)
      BY <1>1, WholeJobsGoOn
<1>2. CASE Conflict(p) \/ BaseMismatch(p) \/ TakeServer(p)
      BY <1>2, ResolvingGoesOn, TakeServerGoesOn
<1>3. CASE PushEdit(p) \/ PushNew(p) \/ \E v : PushMove(p, v)
      BY <1>3, PushEditGoesOn, PushNewGoesOn, PushMoveGoesOn
<1>4. CASE FollowRename(p) \/ DropOldName(p)
      BY <1>4, FollowRenameGoesOn, DropOldNameGoesOn
<1>5. CASE FailFile(p)
      BY <1>5, FailFileGoesOn
<1>6. CASE Quarantine(p) \/ Erase(p) \/ Fill(p)
      BY <1>6, QuarantineGoesOn, EraseGoesOn, FillGoesOn
<1>   QED BY <1>1, <1>2, <1>3, <1>4, <1>5, <1>6 DEF FileStep

------------------------------------------------------------------------------
(* From pass to pass.                                                       *)

\* The record a pass starts from is on the server, unless it was restored.
LEMMA CursorHolds ==
    ASSUME TypeOK, RecordInv, NEW p \in Paths, state.known[p] # None, Verdict # "reset"
    PROVE  /\ state.known[p].hash = state.known[p].sha
           /\ state.known[p].hash \in held \/ Verdict = "restore"
<1>1. state.cursor # None /\ state.cursor \in Epochs /\ epoch \in Epochs
      BY DEF RecordInv, CursorBehind, TypeOK
<1>2. Verdict # "restore" =>
          state.cursor.restore = epoch.restore /\ state.cursor.reset = epoch.reset
      BY <1>1 DEF Verdict
<1>3. Verdict # "restore" => state.cursor = epoch
      BY <1>1, <1>2 DEF Epochs
<1>   QED BY <1>3 DEF RecordInv, Saved

LEMMA StartPassSafe ==
    ASSUME TypeInv, SafeInv, StartPass
    PROVE  SafeInv'
<1>1. /\ TypeOK /\ pass' # None /\ pass'.late = {} /\ pass'.half = None
      /\ pass'.tree = Walked /\ pass'.meta = disk /\ pass'.at = epoch
      /\ pass'.queue = {p \in Paths : disk[p] # None} /\ pass'.verdict = Verdict
      /\ pass'.known = IF Verdict = "reset" THEN Nothing ELSE state.known
      /\ pass'.vanished = IF Verdict = "reset" THEN {}
                          ELSE {Remembered(p) : p \in {q \in Paths : state.known[q] # None
                                                                     /\ disk[q] = None}}
      /\ UNCHANGED <<server, disk, kept, state>>
      BY StartPassIs DEF TypeInv, StartPass
<1>2. UNCHANGED <<nodes, held, epoch, backup, state>>
      BY <1>1 DEF server
<1>3. ServerHolds'
  <2>1. \A p \in Paths : Walked[p] # None => Walked[p].sha \in held
    <3>1. \A n \in Live : nodes[n].sha \in held
          BY DEF Live, SafeInv, RecordInv, ServerHolds
    <3>   QED BY <1>1, <3>1, WalkedIs
  <2>   QED BY <1>1, <1>2, <2>1 DEF SafeInv, RecordInv, ServerHolds, On
<1>4. CursorBehind' /\ Saved'
      BY <1>1, <1>2 DEF SafeInv, RecordInv, CursorBehind, Saved
<1>5. OnRecord'
  <2>1. SUFFICES ASSUME NEW p \in Paths, pass'.known[p] # None
                 PROVE  /\ pass'.known[p].hash = pass'.known[p].sha
                        /\ \/ pass'.known[p].hash \in held
                           \/ pass'.verdict = "restore" /\ Untold(p)'
        BY <1>2 DEF OnRecord, Known
  <2>2. Verdict # "reset" /\ pass'.known = state.known /\ state.known[p] # None
        BY <1>1, <2>1 DEF Nothing
  <2>3. Untold(p)'
    <3>1. CASE disk[p] # None
          BY <1>1, <3>1 DEF Untold
    <3>2. CASE disk[p] = None
      <4>1. Remembered(p) \in pass'.vanished /\ Remembered(p).path = p
            BY <1>1, <2>2, <3>2 DEF Remembered
      <4>   QED BY <4>1 DEF Untold
    <3>   QED BY <3>1, <3>2
  <2>   QED BY <1>1, <2>2, <2>3, CursorHolds DEF SafeInv
<1>6. GoneOnRecord'
  <2>1. SUFFICES ASSUME NEW v \in pass'.vanished
                 PROVE  v.hash = v.sha /\ (v.hash \in held \/ pass'.verdict = "restore")
        BY <1>2 DEF GoneOnRecord
  <2>2. PICK p \in Paths : v = Remembered(p) /\ state.known[p] # None
        BY <1>1, <2>1
  <2>3. v.hash = state.known[p].hash /\ v.sha = state.known[p].sha
        BY <2>2 DEF Remembered
  <2>4. Verdict # "reset"
        BY <1>1, <2>1
  <2>   QED BY <1>1, <2>2, <2>3, <2>4, CursorHolds DEF SafeInv
<1>7. StillMeasured' /\ InHand' /\ AllKept'
      BY <1>1 DEF StillMeasured, InHand, AllKept, Kept, Ahead
<1>   QED BY <1>3, <1>4, <1>5, <1>6, <1>7 DEF SafeInv, RecordInv

LEMMA SaveSafe ==
    ASSUME TypeInv, SafeInv, Save
    PROVE  SafeInv'
<1>1. /\ pass # None /\ pass.half = None /\ pass.queue = {} /\ pass.vanished = {}
      /\ pass' = None /\ state' = [cursor |-> pass.at, known |-> pass.known]
      /\ UNCHANGED <<server, disk, kept>>
      BY DEF Save, FilesDone
<1>2. UNCHANGED <<nodes, held, epoch, backup>>
      BY <1>1 DEF server
<1>3. state'.cursor = epoch /\ state'.known = pass.known /\ epoch # None /\ epoch \in Epochs
      BY <1>1, Apart DEF SafeInv, RecordInv, CursorBehind, TypeInv, TypeOK
<1>4. \A p \in Paths : pass.known[p] # None =>
          pass.known[p].hash = pass.known[p].sha /\ pass.known[p].hash \in held
      BY <1>1 DEF SafeInv, RecordInv, OnRecord, Known, Loose, Untold
<1>5. CursorBehind'
      BY <1>1, <1>2, <1>3 DEF CursorBehind, Epochs
<1>6. Saved' /\ ServerHolds'
      BY <1>1, <1>2, <1>3, <1>4 DEF Saved, SafeInv, RecordInv, ServerHolds
<1>   QED BY <1>1, <1>5, <1>6
         DEF SafeInv, RecordInv, OnRecord, GoneOnRecord, StillMeasured, InHand, AllKept

\* What holds between two passes is all there is to hold then.
LEMMA SafeOutside ==
    ASSUME pass' = None, ServerHolds', CursorBehind', Saved'
    PROVE  SafeInv'
BY DEF SafeInv, RecordInv, OnRecord, GoneOnRecord, StillMeasured, InHand, AllKept

LEMMA OthersWrite ==
    ASSUME TypeOK, Others
    PROVE  \E p \in Paths, c \in Contents : \E n : Writes(n, p, c)
<1>1. \/ \E p \in Ordinary, c \in Contents : Create(p, c)
      \/ \E n \in Live, c \in Contents : Edit(n, c)
      \/ \E n \in Live, p \in Ordinary : Move(n, p)
      \/ \E n \in Live : Trash(n)
      \/ \E n \in Nodes \ Live : nodes[n] # None /\ Revive(n)
      BY DEF Others
<1>2. Ordinary \subseteq Paths
      BY DEF Ordinary
<1>3. \A n \in Nodes : nodes[n] # None => nodes[n].path \in Paths /\ nodes[n].sha \in Contents
      BY DEF TypeOK, Rows
<1>4. Live \subseteq Nodes /\ \A n \in Live : nodes[n] # None
      BY DEF Live
<1>5. CASE \E p \in Ordinary, c \in Contents : Create(p, c)
      BY <1>2, <1>5 DEF Writes
<1>6. CASE \E n \in Live, c \in Contents : Edit(n, c)
      BY <1>3, <1>4, <1>6 DEF Writes
<1>7. CASE \E n \in Live, p \in Ordinary : Move(n, p)
      BY <1>2, <1>3, <1>4, <1>7 DEF Writes
<1>8. CASE \E n \in Live : Trash(n)
      BY <1>3, <1>4, <1>8 DEF Writes
<1>9. CASE \E n \in Nodes \ Live : nodes[n] # None /\ Revive(n)
      BY <1>3, <1>9 DEF Writes
<1>   QED BY <1>1, <1>5, <1>6, <1>7, <1>8, <1>9

\* While a pass runs, others only add to what the server holds.
LEMMA OthersSafe ==
    ASSUME TypeOK, SafeInv, Others
    PROVE  SafeInv' /\ UNCHANGED <<disk, kept, pass>>
<1>1. PICK p \in Paths, c \in Contents : \E n : Writes(n, p, c)
      BY OthersWrite
<1>2. PICK n : Writes(n, p, c)
      BY <1>1
<1>3. /\ \A m \in Nodes : nodes'[m] # None => nodes'[m].sha \in held'
      /\ held \subseteq held' /\ epoch' = epoch /\ backup' = backup
      BY <1>2, WritesHeld DEF SafeInv, RecordInv
<1>4. UNCHANGED <<disk, kept, state, pass>>
      BY DEF Others
<1>5. ServerHolds' /\ CursorBehind' /\ Saved'
      BY <1>3, <1>4 DEF SafeInv, RecordInv, ServerHolds, CursorBehind, Saved, On
<1>6. OnRecord' /\ GoneOnRecord'
      BY <1>3, <1>4 DEF SafeInv, RecordInv, OnRecord, GoneOnRecord, Known, Loose, Untold
<1>7. StillMeasured' /\ InHand'
      BY <1>3, <1>4 DEF SafeInv, StillMeasured, InHand, Ahead, On, Known
<1>8. AllKept'
      BY <1>3, <1>4 DEF SafeInv, AllKept, Kept, Ahead
<1>   QED BY <1>4, <1>5, <1>6, <1>7, <1>8 DEF SafeInv, RecordInv

\* Between passes: the person, a backup, a restore, a reset; and a pass cut short.
LEMMA OutsideSafe ==
    ASSUME Tame, TypeOK, SafeInv, Person \/ BackUp \/ RestoreServer \/ ResetVault \/ Crash
    PROVE  SafeInv' /\ (pass # None => UNCHANGED <<disk, kept>>)
<1>1. /\ pass' = None /\ state' = state
      /\ pass # None => UNCHANGED <<disk, kept>>
      BY TameIs DEF Calm, Person, BackUp, RestoreServer, ResetVault, Crash
<1>2. /\ state.cursor \in Epochs \cup {None} /\ epoch \in Epochs
      /\ backup # None => backup \in Backups
      BY DEF TypeOK
<1>3. CASE Person \/ Crash
  <2>1. UNCHANGED <<nodes, held, epoch, backup>>
        BY <1>3 DEF Person, Crash, server
  <2>2. ServerHolds' /\ CursorBehind' /\ Saved'
        BY <1>1, <2>1 DEF SafeInv, RecordInv, ServerHolds, CursorBehind, Saved
  <2>   QED BY <1>1, <2>2, SafeOutside
<1>4. CASE BackUp
  <2>1. /\ UNCHANGED <<nodes, held, epoch>>
        /\ backup'.nodes = nodes /\ backup'.held = held
        BY <1>4 DEF BackUp
  <2>2. ServerHolds' /\ CursorBehind' /\ Saved'
        BY <1>1, <2>1 DEF SafeInv, RecordInv, ServerHolds, CursorBehind, Saved
  <2>   QED BY <1>1, <2>2, SafeOutside
<1>5. CASE RestoreServer
  <2>1. /\ nodes' = backup.nodes /\ held' = backup.held /\ backup # None /\ backup' = backup
        /\ epoch'.restore = epoch.restore + 1 /\ epoch.restore \in Nat
        BY <1>2, <1>5 DEF RestoreServer, Epochs
  <2>2. ServerHolds'
        BY <1>1, <2>1 DEF SafeInv, RecordInv, ServerHolds
  <2>3. state.cursor # None =>
            state.cursor.restore \in Nat /\ state.cursor.restore <= epoch.restore
        BY <1>2 DEF SafeInv, RecordInv, CursorBehind, Epochs
  <2>4. state.cursor # None => state.cursor.restore < epoch'.restore
        BY <2>1, <2>3
  <2>5. CursorBehind'
        BY <1>1, <2>1, <2>3, <2>4 DEF SafeInv, RecordInv, CursorBehind
  <2>6. Saved'
        BY <1>1, <2>1, <2>3, <2>4 DEF SafeInv, RecordInv, CursorBehind, Saved
  <2>   QED BY <1>1, <2>2, <2>5, <2>6, SafeOutside
<1>6. CASE ResetVault
  <2>1. /\ nodes' = [n \in Nodes |-> None] /\ backup' = backup
        /\ epoch'.reset = epoch.reset + 1 /\ epoch'.restore = epoch.restore
        /\ epoch.reset \in Nat
        BY <1>2, <1>6 DEF ResetVault, Epochs
  <2>2. ServerHolds'
        BY <1>1, <2>1 DEF SafeInv, RecordInv, ServerHolds
  <2>3. state.cursor # None /\ state.cursor.restore = epoch.restore =>
            state.cursor.reset \in Nat /\ state.cursor.reset <= epoch.reset
        BY <1>2 DEF SafeInv, RecordInv, CursorBehind, Epochs
  <2>4. state.cursor # None /\ state.cursor.restore = epoch.restore =>
            state.cursor.reset < epoch'.reset
        BY <2>1, <2>3
  <2>5. CursorBehind'
        BY <1>1, <2>1, <2>3, <2>4 DEF SafeInv, RecordInv, CursorBehind
  <2>6. Saved'
        BY <1>1, <2>1, <2>4 DEF SafeInv, RecordInv, CursorBehind, Saved
  <2>   QED BY <1>1, <2>2, <2>5, <2>6, SafeOutside
<1>   QED BY <1>3, <1>4, <1>5, <1>6

LEMMA InitSafe == ASSUME Init PROVE SafeInv
<1>1. PICK p \in Ordinary, c \in Contents \ Small, d \in Contents :
        /\ nodes = [m \in Nodes |-> IF m = First
                      THEN [path |-> p, sha |-> c, rev |-> 1, live |-> TRUE] ELSE None]
        /\ held = {c} /\ issued = {First}
        /\ epoch = [restore |-> 0, reset |-> 0] /\ backup = None
        /\ disk = [Nothing EXCEPT ![p] = d]
        /\ kept = [q \in Paths |-> {}]
        /\ \/ d = c /\ state = [cursor |-> epoch,
                known |-> [Nothing EXCEPT ![p] = [node |-> First, hash |-> c, sha |-> c]]]
           \/ state = [cursor |-> None, known |-> Nothing]
        /\ pass = None /\ dropped = {}
        /\ done = [remote |-> 0, local |-> 0, faults |-> 0, epochs |-> 0]
      BY DEF Init, First
<1>2. ServerHolds
      BY <1>1 DEF ServerHolds
<1>3. PICK e : e = [node |-> First, hash |-> c, sha |-> c]
      OBVIOUS
<1>4. epoch \in Epochs /\ epoch # None
      BY <1>1, Apart DEF Epochs
<1>5. Nothing \in [Paths -> {None}]
      BY DEF Nothing
<1>6. CASE state = [cursor |-> epoch, known |-> [Nothing EXCEPT ![p] = e]]
  <2>1. state.cursor = epoch /\ state.known = [Nothing EXCEPT ![p] = e]
        BY <1>6
  <2>2. \A q \in Paths : state.known[q] = None \/ state.known[q] = e
        BY <1>5, <2>1
  <2>3. e.hash = c /\ e.sha = c /\ c \in held
        BY <1>1, <1>3
  <2>4. CursorBehind
        BY <1>1, <1>4, <2>1 DEF CursorBehind, Epochs
  <2>5. Saved
        BY <2>2, <2>3 DEF Saved
  <2>   QED BY <1>1, <1>2, <2>4, <2>5
            DEF SafeInv, RecordInv, OnRecord, GoneOnRecord, StillMeasured, InHand, AllKept
<1>7. CASE state = [cursor |-> None, known |-> Nothing]
  <2>1. state.cursor = None /\ \A q \in Paths : state.known[q] = None
        BY <1>5, <1>7
  <2>2. CursorBehind /\ Saved
        BY <1>1, <2>1 DEF CursorBehind, Saved
  <2>   QED BY <1>1, <1>2, <2>2
            DEF SafeInv, RecordInv, OnRecord, GoneOnRecord, StillMeasured, InHand, AllKept
<1>   QED BY <1>1, <1>3, <1>6, <1>7

\* Whether a step is of the pass, of its beginning or end, or of the world.
LEMMA SafeStep ==
    ASSUME Tame, TypeInv, WorkInv, SafeInv, [Next]_vars
    PROVE  /\ SafeInv'
           /\ pass # None =>
                \/ UNCHANGED <<disk, kept>>
                \/ pass' # None /\ \A c \in Contents : Kept(c) => Kept(c)'
<1>1. TypeOK
      BY DEF TypeInv
<1>2. CASE \/ \E p \in AtWork : FileStep(p)
           \/ VanishedStep
           \/ \E p \in Paths : PullRest(p) \/ FailPull(p)
  <2>1. GoesOn
        BY <1>2, FileStepGoesOn, VanishedStepGoesOn, ServerOnlyGoesOn
  <2>2. pass' # None
        BY <2>1 DEF GoesOn, LearnsWell
  <2>   QED BY <1>1, <2>1, <2>2, SafeStays
<1>3. CASE StartPass
      BY <1>3, StartPassSafe DEF StartPass
<1>4. CASE Save
      BY <1>4, SaveSafe DEF Save
<1>5. CASE World
      BY <1>1, <1>5, OthersSafe, OutsideSafe DEF World
<1>6. CASE UNCHANGED vars
  <2>1. UNCHANGED <<nodes, held, epoch, backup, disk, kept, state, pass>>
        BY <1>6 DEF vars, server
  <2>2. RecordInv'
        BY <2>1 DEF SafeInv, RecordInv, ServerHolds, CursorBehind, Saved, OnRecord, GoneOnRecord,
                    On, Known, Loose, Untold
  <2>3. StillMeasured' /\ InHand' /\ AllKept'
        BY <2>1 DEF SafeInv, StillMeasured, InHand, AllKept, Kept, Ahead, On, Known
  <2>   QED BY <2>1, <2>2, <2>3 DEF SafeInv
<1>   QED BY <1>2, <1>3, <1>4, <1>5, <1>6 DEF Next, PassStep

\* What a pass may not lose, on the device or on the server after any step of it.
LEMMA StaysSomewhere ==
    ASSUME Tame, TypeInv, WorkInv, SafeInv, [Next]_vars, pass # None
    PROVE  OnDevice \ {None} \subseteq OnDevice' \cup held'
<1>1. TypeOK /\ TypeOK'
      BY TypeStep DEF TypeInv
<1>2. CASE UNCHANGED <<disk, kept>>
      BY <1>2 DEF OnDevice
<1>3. CASE pass' # None /\ \A c \in Contents : Kept(c) => Kept(c)'
  <2>1. SUFFICES ASSUME NEW c \in OnDevice, c # None
                 PROVE  c \in OnDevice' \cup held'
        OBVIOUS
  <2>2. /\ disk \in [Paths -> Contents \cup {None}] /\ kept \in [Paths -> SUBSET Contents]
        BY <1>1 DEF TypeOK, Files
  <2>3. c \in Contents /\ Kept(c)
    <3>1. CASE \E p \in Paths : c = disk[p]
          BY <2>1, <2>2, <3>1 DEF SafeInv, AllKept
    <3>2. CASE \E p \in Paths : c \in kept[p]
          BY <2>2, <3>2 DEF Kept
    <3>   QED BY <2>1, <3>1, <3>2 DEF OnDevice
  <2>4. Kept(c)'
        BY <1>3, <2>3
  <2>5. (Ahead \cup pass.handled)' \subseteq Paths
    <3>1. pass' \in Passes
          BY <1>1, <1>3 DEF TypeOK
    <3>   QED BY <3>1 DEF Passes, Ahead
  <2>   QED BY <2>4, <2>5 DEF Kept, OnDevice
<1>   QED BY <1>2, <1>3, SafeStep

\* Where no mishap may happen but that a file the person took away is brought
\* back, nothing a pass does takes the last copy of a content: not a pull, a
\* conflict, a rename followed, a removal or a quarantine, whatever fails and
\* whatever others, a reset or a restore whose epoch was raised do in between.
THEOREM NothingIsLost ==
    ASSUME Tame
    PROVE  Spec => NoCopyLost
<1>1. Init => TypeInv /\ WorkInv /\ SafeInv
      BY InitTyped, InitMeant, InitSafe
<1>2. TypeInv /\ WorkInv /\ SafeInv /\ [Next]_vars => (TypeInv /\ WorkInv /\ SafeInv)'
      BY TypeStep, WorkStep, SafeStep, TameIs
<1>3. TypeInv /\ WorkInv /\ SafeInv /\ [Next]_vars =>
        [pass # None => (OnDevice \ {None}) \subseteq OnDevice' \cup held']_vars
      BY StaysSomewhere
<1>   QED BY <1>1, <1>2, <1>3, PTL DEF Spec, NoCopyLost

=============================================================================
