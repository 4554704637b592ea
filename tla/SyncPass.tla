------------------------------ MODULE SyncPass ------------------------------
(***************************************************************************)
(* One device and its passes: plugin/src/engine/engine.ts, with the        *)
(* decisions of reconcile.ts and rename.ts and the state of state.ts,      *)
(* against a vault that other devices write to, that is restored from a    *)
(* backup and that is reset, while a person writes, renames and deletes    *)
(* files on this device.                                                   *)
(*                                                                         *)
(* A pass walks the server once and measures the disk once, and works from *)
(* those two pictures to its end: every write of the server and every file *)
(* operation is a step of its own, and what the pass learned is saved only *)
(* by its last step.                                                       *)
(*                                                                         *)
(* Files lie side by side: folders and shares are left out.  An address    *)
(* stands for the content under it; a dedup lookup that answers another    *)
(* address of the same content ends where `adopt` does.                    *)
(***************************************************************************)
EXTENDS Naturals, FiniteSets

CONSTANTS
    Paths,       \* vault-relative paths
    CopyOf,      \* conflictCopyName: the copies of each path on this device, by day
    Nodes,       \* node ids
    Contents,    \* plaintexts
    Small,       \* plaintexts below RENAME_MIN_BYTES
    None,
    MaxRemote,   \* bound: operations of other devices
    MaxLocal,    \* bound: operations of the person at this device
    MaxFaults,   \* bound: failed calls and crashes
    MaxEpochs,   \* bound: restores of the server and resets of the vault
    MaxEvents,   \* bound: all of these together
    Mishaps      \* which of MishapKinds may happen

\* Situations the code does not come through well, each allowed or not.
MishapKinds ==
    { "edit in a pass",       \* the person writes while a pass runs
      "renamed and edited",   \* others rename and edit one file between two passes
      "renamed onto",         \* others rename a file onto the path of another one here
      "rename fails",         \* a step fails or is refused as a remote rename is followed
      "restore push fails",   \* a call fails in the pass that follows a restore
      "renamed and restored", \* renamed here, while a restore took its content back
      "revived",              \* gone there, taken away here, brought back: no pass saved
      "second conflict",      \* two of one file on one day, the first copy still about
      "second quarantine" }   \* two quarantines of one path on one day

ASSUME PathsAssumption ==
    /\ CopyOf \in [Paths -> SUBSET Paths] /\ \A p \in Paths : p \notin CopyOf[p]
    /\ Small \subseteq Contents
ASSUME SomeNode == Nodes # {}
ASSUME BoundsAssumption ==
    {MaxRemote, MaxLocal, MaxFaults, MaxEpochs, MaxEvents} \subseteq Nat
ASSUME MishapsAssumption == Mishaps \subseteq MishapKinds

VARIABLES
    nodes,    \* the rows of the vault, by id
    held,     \* contents some version of the server still names
    issued,   \* node ids the server has given out
    epoch,    \* restore_epoch and reset_epoch
    backup,   \* what a restore would bring back, or None
    disk,     \* the files of the device
    kept,     \* `_Reset <date>/`: what was moved there from each path
    state,    \* VaultState: what the last finished pass saved
    pass,     \* PassContext, or None between two passes
    dropped,  \* history: nodes whose file the person took away here
    done      \* how much of each bound is spent

server == <<nodes, held, issued, epoch, backup>>
vars == <<server, disk, kept, state, pass, dropped, done>>

-----------------------------------------------------------------------------
(* The server as a pass sees it.                                           *)

Live == {n \in Nodes : nodes[n] # None /\ nodes[n].live}

Free(p) == \A n \in Live : nodes[n].path # p

\* listNodes and treeFrom: every live file at its path.
Walked ==
    [p \in Paths |->
        IF Free(p) THEN None
        ELSE LET n == CHOOSE m \in Live : nodes[m].path = p
             IN  [node |-> n, sha |-> nodes[n].sha, rev |-> nodes[n].rev]]

Fresh == CHOOSE n \in Nodes : n \notin issued

\* createNode, under an id never given before.
Create(p, c) ==
    /\ Nodes \ issued # {} /\ Free(p)
    /\ nodes' = [nodes EXCEPT ![Fresh] = [path |-> p, sha |-> c, rev |-> 1, live |-> TRUE]]
    /\ issued' = issued \cup {Fresh}
    /\ held' = held \cup {c}
    /\ UNCHANGED <<epoch, backup>>

\* putContent, once its preconditions hold.
Edit(n, c) ==
    /\ nodes' = [nodes EXCEPT ![n].sha = c, ![n].rev = @ + 1]
    /\ held' = held \cup {c}
    /\ UNCHANGED <<issued, epoch, backup>>

\* moveNode
Move(n, p) ==
    /\ Free(p)
    /\ nodes' = [nodes EXCEPT ![n].path = p, ![n].rev = @ + 1]
    /\ UNCHANGED <<held, issued, epoch, backup>>

\* deleteNode
Trash(n) ==
    /\ nodes' = [nodes EXCEPT ![n].live = FALSE, ![n].rev = @ + 1]
    /\ UNCHANGED <<held, issued, epoch, backup>>

\* restoreNode, out of the trash
Revive(n) ==
    /\ Free(nodes[n].path)
    /\ nodes' = [nodes EXCEPT ![n].live = TRUE, ![n].rev = @ + 1]
    /\ UNCHANGED <<held, issued, epoch, backup>>

-----------------------------------------------------------------------------
(* What a pass knows.                                                      *)

Nothing == [p \in Paths |-> None]

\* probeEpoch, on the cursor the last pass saved; a cursor that cannot be
\* verified is read as a restore is.
Verdict ==
    CASE state.cursor = None -> "continuous"
      [] state.cursor # None /\ state.cursor.restore # epoch.restore -> "restore"
      [] OTHER -> IF state.cursor.reset # epoch.reset THEN "reset" ELSE "continuous"

PreferLocal == pass.verdict # "continuous"

On(p) == pass.tree[p]
Known(p) == pass.known[p]

\* The hash a pass has of a file: measured before the walk of the disk began,
\* or now, for a file that was not there then.
MeasuredAtFirst(p) == pass.meta[p]
Measured(p) == IF pass.meta[p] # None THEN pass.meta[p] ELSE disk[p]

\* byNodeId
Where(n) == {p \in Paths : On(p) # None /\ On(p).node = n}

LocalChanged(p) == Known(p).hash # Measured(p)
RemoteChanged(p) == Known(p).sha # On(p).sha

RenameSourcesGone(p) ==
    LET same == {v \in pass.vanished : v.hash = Measured(p)}
    IN  IF Measured(p) \in Small \/ Cardinality(same) # 1 THEN {} ELSE same

\* renameSourceFor: the one vanished file with these bytes, still on the server.
RenameSources(p) ==
    LET same == {v \in pass.vanished : v.hash = Measured(p)}
    IN  IF Measured(p) \in Small \/ Cardinality(same) # 1 THEN {}
        ELSE {v \in same : Where(v.node) # {}}

\* decide
KnownHereTrusting(p) ==
    CASE ~LocalChanged(p) /\ ~RemoteChanged(p) -> "nothing"
      [] ~LocalChanged(p) /\ RemoteChanged(p) -> "pull"
      [] OTHER -> "push-edit"
KnownHere(p) ==
    CASE ~LocalChanged(p) /\ ~RemoteChanged(p) -> "nothing"
      [] ~LocalChanged(p) /\ RemoteChanged(p) /\ ~PreferLocal -> "pull"
      [] OTHER -> "push-edit"
GoneFromHere(p) ==
    CASE Where(Known(p).node) # {} -> "remote-rename"
      [] Where(Known(p).node) = {} /\ ~PreferLocal /\ ~LocalChanged(p) -> "remove-local"
      [] OTHER -> "push-new"
Decide(p) ==
    CASE On(p) # None /\ Known(p) # None /\ Known(p).node = On(p).node -> KnownHere(p)
      [] On(p) # None /\ (Known(p) = None \/ Known(p).node # On(p).node) ->
            IF Measured(p) = On(p).sha THEN "adopt" ELSE "conflict"
      [] On(p) = None /\ Known(p) # None -> GoneFromHere(p)
      [] OTHER -> IF RenameSources(p) # {} THEN "push-move" ELSE "push-new"

-----------------------------------------------------------------------------
(* Steps of a pass.                                                        *)

\* Where the walk stands: at the second half of a job, or at files in any order
\* and then at the copies conflicts made.
AtWork ==
    CASE pass = None -> {}
      [] pass # None /\ pass.half # None -> {pass.half.path}
      [] OTHER -> IF pass.queue # {} THEN pass.queue ELSE pass.late

Turn(p) == pass # None /\ pass.half = None /\ p \in AtWork

Taken(p) ==
    IF p \in pass.queue
    THEN [pass EXCEPT !.queue = @ \ {p}, !.handled = @ \cup {p}]
    ELSE [pass EXCEPT !.late = @ \ {p}, !.handled = @ \cup {p}]

Reconciling(p, kind) == pass # None /\ pass.verdict # "reset" /\ Turn(p) /\ Decide(p) = kind

\* The second half of a job that is two writes of the disk.
Halfway(p, job) == pass # None /\ pass.half # None /\ pass.half.job = job /\ pass.half.path = p

\* Out of the queue, or on from the half that is done.
Onward(p) == IF pass.half # None THEN [pass EXCEPT !.half = None] ELSE Taken(p)

Learnt(rec, p, n, h, s) == [rec EXCEPT !.known[p] = [node |-> n, hash |-> h, sha |-> s]]
Forgotten(rec, p) == [rec EXCEPT !.known[p] = None]

Spend(what) ==
    /\ done.remote + done.local + done.faults + done.epochs < MaxEvents
    /\ done' = [done EXCEPT ![what] = @ + 1]

\* A remote rename is being followed: until what was edited here is on the server,
\* the file is on record with its own bytes and the address of others.
Following ==
    /\ pass.half # None
    /\ \/ pass.half.job \in {"drop", "edit"}
       \/ /\ pass.half.job = "take" /\ Known(pass.half.path) # None
          /\ Known(pass.half.path).hash # Known(pass.half.path).sha

\* Whether a step may fail or be refused now, and whether a fault may be what
\* fails it or what takes its answer.
MayNotSucceed ==
    /\ pass.verdict = "restore" => "restore push fails" \in Mishaps
    /\ Following => "rename fails" \in Mishaps
MayFail == MayNotSucceed /\ done.faults < MaxFaults

\* A call that was carried out: its answer arrives, or a fault takes it.
Answered(learnt, lost) ==
    \/ pass' = learnt /\ UNCHANGED done
    \/ MayFail /\ pass' = lost /\ Spend("faults")

OnDisk(p, c) == disk' = [disk EXCEPT ![p] = c]

\* sync, to the start of the walk: the probe, the walk, the measuring of the
\* disk.  DeltaFeed has what may come between the first two.
StartPass ==
    /\ pass = None
    /\ LET gone == {p \in Paths : state.known[p] # None /\ disk[p] = None}
       IN  pass' = [ verdict |-> Verdict, tree |-> Walked, meta |-> disk,
                     known |-> IF Verdict = "reset" THEN Nothing ELSE state.known,
                     vanished |-> IF Verdict = "reset" THEN {}
                                  ELSE {[ path |-> p, node |-> state.known[p].node,
                                          hash |-> state.known[p].hash,
                                          sha |-> state.known[p].sha ] : p \in gone},
                     queue |-> {p \in Paths : disk[p] # None},
                     late |-> {}, handled |-> {}, half |-> None,
                     at |-> epoch ]
    /\ UNCHANGED <<server, disk, kept, state, dropped, done>>

\* Identical on both sides.
LeaveAlone(p) ==
    /\ Reconciling(p, "nothing")
    /\ pass' = Taken(p)
    /\ UNCHANGED <<server, disk, kept, state, dropped, done>>

\* pull, of one node
PullInto(p, rec) ==
    /\ OnDisk(p, On(p).sha)
    /\ pass' = Learnt(rec, p, On(p).node, On(p).sha, On(p).sha)
    /\ UNCHANGED <<server, kept, state, dropped, done>>
Pull(p) == Reconciling(p, "pull") /\ PullInto(p, Onward(p))

\* The same bytes under the same path: only the record changes.
Adopt(p) ==
    /\ Reconciling(p, "adopt")
    /\ pass' = Learnt(Onward(p), p, On(p).node, Measured(p), On(p).sha)
    /\ UNCHANGED <<server, disk, kept, state, dropped, done>>

\* The names today's copy may have: only this conflict can have been there
\* before, now or when the pass measured the disk.
CopyNames(p) ==
    {q \in CopyOf[p] : \/ "second conflict" \in Mishaps
                       \/ /\ Known(q) = None /\ On(q) = None
                          /\ {disk[q], pass.meta[q]} \subseteq {None, disk[p]}}

\* resolveConflict, its first write: this device's bytes beside the file.
CopyAside(p, n, sha) ==
    /\ disk[p] # sha
    /\ \E q \in CopyNames(p) :
         /\ OnDisk(q, disk[p])
         /\ pass' = [Onward(p) EXCEPT
                !.half = [job |-> "take", path |-> p, node |-> n, sha |-> sha, copy |-> q]]
    /\ UNCHANGED <<server, kept, state, dropped, done>>

\* resolveConflict, its second write: the server's bytes take the path.
TakeServer(p) ==
    /\ Halfway(p, "take")
    /\ OnDisk(p, pass.half.sha)
    /\ pass' = [Learnt(Onward(p), p, pass.half.node, pass.half.sha, pass.half.sha)
                   EXCEPT !.late = @ \cup {pass.half.copy}]
    /\ UNCHANGED <<server, kept, state, dropped, done>>

\* resolveConflict on bytes that turn out the same.
Bind(p, n, sha) ==
    /\ disk[p] = sha
    /\ pass' = Learnt(Onward(p), p, n, sha, sha)
    /\ UNCHANGED <<server, disk, kept, state, dropped, done>>

Conflict(p) ==
    /\ Reconciling(p, "conflict") /\ disk[p] # None
    /\ CopyAside(p, On(p).node, On(p).sha) \/ Bind(p, On(p).node, On(p).sha)

\* pushEdit: for a file whose turn it is, or for one that followed a rename.
Editing(p) == Reconciling(p, "push-edit") \/ Halfway(p, "edit")
EditHash(p) == IF pass.half # None THEN pass.half.hash ELSE Measured(p)
BaseSha(p) ==
    CASE PreferLocal -> On(p).sha
      [] ~PreferLocal /\ pass.half # None -> pass.half.base
      [] OTHER -> Known(p).sha

PushEdit(p) ==
    /\ Editing(p) /\ disk[p] # None
    /\ LET n == On(p).node IN
       /\ n \in Live /\ nodes[n].sha = BaseSha(p)
       /\ Edit(n, disk[p])
       /\ Answered(Learnt(Onward(p), p, n, EditHash(p), disk[p]), Onward(p))
    /\ UNCHANGED <<disk, kept, state, dropped>>

\* pushEdit answered `base_mismatch`.
BaseMismatch(p) ==
    /\ Editing(p) /\ disk[p] # None
    /\ LET n == On(p).node IN
       /\ n \in Live /\ nodes[n].sha # BaseSha(p)
       /\ CopyAside(p, n, nodes[n].sha) \/ Bind(p, n, nodes[n].sha)

\* pushNew
PushNew(p) ==
    /\ Reconciling(p, "push-new") /\ disk[p] # None
    /\ Create(p, disk[p])
    /\ Answered([Learnt(Onward(p), p, Fresh, Measured(p), disk[p])
                    EXCEPT !.tree[p] = [node |-> Fresh, sha |-> disk[p], rev |-> 1]],
                 Onward(p))
    /\ UNCHANGED <<disk, kept, state, dropped>>

\* pushMove.  The source is claimed whatever comes of the call.
Claimed(p, v) == [Onward(p) EXCEPT !.vanished = @ \ {v}]
Unmoved(p, v) == [Claimed(p, v) EXCEPT !.handled = @ \cup {v.path}]
Moved(p, v) ==
    LET from == CHOOSE q \in Where(v.node) : TRUE
        rec  == Learnt(Forgotten(Claimed(p, v), v.path), p, v.node, Measured(p), v.sha)
    IN  [rec EXCEPT !.tree = [q \in Paths |->
            CASE q = p -> [node |-> v.node, sha |-> v.sha, rev |-> On(from).rev + 1]
              [] q \in Where(v.node) \ {p} -> None
              [] OTHER -> On(q)]]

\* The revision the walk saw: none, of a node it did not see.
RevOf(n) == IF Where(n) = {} THEN 0 ELSE On(CHOOSE q \in Where(n) : TRUE).rev

\* The precondition of a move and of a deletion: the revision the walk saw.
AsWalked(n) == n \in Live /\ nodes[n].rev = RevOf(n)

\* The content of v is what was last synced, or the restore took another back.
AsSynced(v) == \A q \in Where(v.node) : On(q).sha = v.sha

PushMove(p, v) ==
    /\ Reconciling(p, "push-move") /\ v \in RenameSources(p) /\ AsWalked(v.node)
    /\ PreferLocal /\ ~AsSynced(v) => "renamed and restored" \in Mishaps
    /\ Move(v.node, p)
    /\ Answered(Moved(p, v), Unmoved(p, v))
    /\ UNCHANGED <<disk, kept, state, dropped>>

\* Nothing is in the way of a remote rename, and nothing but the name changed.
Followable(p, to) ==
    /\ disk[to] # None => "renamed onto" \in Mishaps
    /\ On(to).sha # Known(p).sha => "renamed and edited" \in Mishaps

\* applyRemoteRename: write the new name, then delete the old one, then push
\* what was edited here.
FollowRename(p) ==
    /\ Reconciling(p, "remote-rename") /\ disk[p] # None
    /\ LET to == CHOOSE q \in Where(Known(p).node) : TRUE IN
       /\ Followable(p, to)
       /\ OnDisk(to, disk[p])
       /\ pass' = [Onward(p) EXCEPT !.half =
                      [job |-> "drop", path |-> p, to |-> to, hash |-> Measured(p)]]
    /\ UNCHANGED <<server, kept, state, dropped, done>>

DropOldName(p) ==
    /\ Halfway(p, "drop")
    /\ disk' = [disk EXCEPT ![p] = None]
    /\ LET to   == pass.half.to
           hash == pass.half.hash
           rec  == Learnt(Forgotten(Onward(p), p), to, On(to).node, hash, On(to).sha)
       IN  pass' = [rec EXCEPT
                      !.handled = @ \cup {to},
                      !.half = IF Known(p).hash = hash THEN None
                               ELSE [job |-> "edit", path |-> to, hash |-> hash,
                                     base |-> Known(p).sha]]
    /\ UNCHANGED <<server, kept, state, dropped, done>>

\* Deleted on the server, unchanged here.
RemoveLocal(p) ==
    /\ Reconciling(p, "remove-local")
    /\ disk' = [disk EXCEPT ![p] = None]
    /\ pass' = Forgotten(Onward(p), p)
    /\ UNCHANGED <<server, kept, state, dropped, done>>

\* resyncAfterReset, of a file: it rebinds or is displaced.
Resetting(p) == pass # None /\ pass.verdict = "reset" /\ Turn(p)
Displaced(p) == Resetting(p) /\ (On(p) # None => On(p).sha # Measured(p))

\* What the server refuses, as it moved on after the walk; and a file to read
\* that an earlier file's work took away.
Refused(p) ==
    \/ disk[p] = None /\ Turn(p) /\ Decide(p) \in {"push-edit", "push-new", "conflict"}
    \/ disk[p] = None /\ Displaced(p)
    \/ Editing(p) /\ On(p).node \notin Live
    \/ Reconciling(p, "push-new") /\ ~Free(p)
    \/ /\ Reconciling(p, "push-move")
       /\ \E v \in RenameSources(p) : ~AsWalked(v.node) \/ ~Free(p)

\* Some step of one file's work throws: the walk goes on with the next file.
FailFile(p) ==
    /\ pass # None
    /\ Turn(p) \/ (pass.half # None /\ pass.half.path = p)
    /\ MayNotSucceed /\ (Reconciling(p, "remote-rename") => "rename fails" \in Mishaps)
    /\ (Refused(p) /\ UNCHANGED done) \/ (MayFail /\ Spend("faults"))
    /\ pass' = IF \E v \in RenameSources(p) : Reconciling(p, "push-move")
               THEN Unmoved(p, CHOOSE v \in RenameSources(p) : TRUE)
               ELSE Onward(p)
    /\ UNCHANGED <<server, disk, kept, state, dropped>>

-----------------------------------------------------------------------------
(* After the files: what vanished, what is only on the server, the save.   *)

FilesDone == pass # None /\ pass.half = None /\ pass.queue = {} /\ pass.late = {}

Settled(v) == [pass EXCEPT !.vanished = @ \ {v}, !.handled = @ \cup {v.path}]

\* Shown elsewhere by the walk, or gone there too.
GoneThere(v) == Where(v.node) = {}
NotThere(v) == Where(v.node) # {v.path}

\* Renamed by others, gone there too, or an absence that proves nothing.
ForgetVanished(v) ==
    /\ FilesDone
    /\ ~PreferLocal => NotThere(v)
    /\ pass' = Forgotten(Settled(v), v.path)
    /\ UNCHANGED <<server, disk, kept, state, dropped, done>>

\* pushDelete
PushDelete(v) ==
    /\ FilesDone /\ ~NotThere(v) /\ ~PreferLocal /\ AsWalked(v.node)
    /\ Trash(v.node)
    /\ Answered([Forgotten(Settled(v), v.path) EXCEPT !.tree[v.path] = None], Settled(v))
    /\ UNCHANGED <<disk, kept, state, dropped>>

FailDelete(v) ==
    /\ FilesDone /\ ~NotThere(v) /\ ~PreferLocal
    /\ \/ ~AsWalked(v.node) /\ UNCHANGED done
       \/ MayFail /\ Spend("faults")
    /\ pass' = Settled(v)
    /\ UNCHANGED <<server, disk, kept, state, dropped>>

\* What the walk found and no local file stood in for.
ServerOnly(p) == FilesDone /\ pass.vanished = {} /\ On(p) # None /\ p \notin pass.handled

Handled(p) == [pass EXCEPT !.handled = @ \cup {p}]

PullRest(p) == ServerOnly(p) /\ PullInto(p, Handled(p))

FailPull(p) ==
    /\ ServerOnly(p) /\ MayFail /\ Spend("faults")
    /\ pass' = Handled(p)
    /\ UNCHANGED <<server, disk, kept, state, dropped>>

\* store.save: what was learnt, and the cursor of the walk, errors or not.
Save ==
    /\ FilesDone /\ pass.vanished = {} /\ \A p \in Paths : ~ServerOnly(p)
    /\ state' = [cursor |-> pass.at, known |-> pass.known]
    /\ pass' = None
    /\ UNCHANGED <<server, disk, kept, dropped, done>>

-----------------------------------------------------------------------------
(* resyncAfterReset                                                        *)

Rebind(p) ==
    /\ Resetting(p) /\ On(p) # None /\ On(p).sha = Measured(p)
    /\ pass' = Learnt(Onward(p), p, On(p).node, Measured(p), On(p).sha)
    /\ UNCHANGED <<server, disk, kept, state, dropped, done>>

\* The file goes to `_Reset <date>/`: written there first, over what the same day
\* put there, or beside it on another day ...
Quarantine(p) ==
    /\ Displaced(p) /\ disk[p] # None
    /\ kept' = [kept EXCEPT ![p] =
                   {disk[p]} \cup IF "second quarantine" \in Mishaps THEN {} ELSE @]
    /\ pass' = [Onward(p) EXCEPT !.half = [job |-> "erase", path |-> p]]
    /\ UNCHANGED <<server, disk, state, dropped, done>>

\* ... then deleted where it was, ...
Erase(p) ==
    /\ Halfway(p, "erase")
    /\ disk' = [disk EXCEPT ![p] = None]
    /\ pass' = IF On(p) = None THEN Onward(p)
               ELSE [Onward(p) EXCEPT !.half = [job |-> "fill", path |-> p]]
    /\ UNCHANGED <<server, kept, state, dropped, done>>

\* ... and the winning tree's file comes down in its place.
Fill(p) == Halfway(p, "fill") /\ PullInto(p, Onward(p))

-----------------------------------------------------------------------------
(* The world around a pass.                                                *)

\* Whatever throws outside a file's own work, and the app being closed: all a
\* pass learnt is gone, what it did is done.
Crash ==
    /\ pass # None
    /\ done.faults < MaxFaults /\ Spend("faults")
    /\ pass' = None
    /\ UNCHANGED <<server, disk, kept, state, dropped>>

\* What the mishaps that are not one call are, of what a device has on record
\* or has walked, and others have renamed since.
HadHere(known) ==
    {[path |-> p, at |-> known[p]] : p \in {q \in Paths : known[q] # None /\ disk[q] # None}}
    \cup IF pass = None THEN {}
         ELSE {[path |-> p, at |-> On(p)] : p \in {q \in Paths : On(q) # None}}
RenamedAway(known) ==
    {h \in HadHere(known) : h.at.node \in Live /\ nodes[h.at.node].path # h.path}
RenamedAndEdited(known) == \E h \in RenamedAway(known) : nodes[h.at.node].sha # h.at.sha
RenamedOnto(known) ==
    \E h \in RenamedAway(known) : LET to == nodes[h.at.node].path
                                  IN  disk[to] # None \/ (pass # None /\ On(to) # None)
RenameRefused(known) ==
    pass # None /\ \E p \in Paths :
        \/ /\ known[p] # None /\ disk[p] # None /\ known[p].node \notin Live
           /\ Where(known[p].node) \ {p} # {}
        \/ pass.half # None /\ Halfway(p, "edit") /\ On(p).node \notin Live
RenamedAndRestored(known) ==
    /\ state.cursor # None /\ state.cursor.restore # epoch.restore
    /\ \E p, q \in Paths : /\ known[p] # None /\ disk[p] = None /\ known[p].node \in Live
                          /\ nodes[known[p].node].sha # known[p].sha
                          /\ disk[q] = known[p].hash
Revived(known) ==
    \E p \in Paths : /\ known[p] # None /\ disk[p] = None
                     /\ known[p].node \in Live \ dropped
                     /\ nodes[known[p].node].path = p
SecondConflict(known) ==
    \E p \in Paths :
        /\ \A q \in CopyOf[p] :
              known[q] # None \/ ~Free(q) \/ disk[q] \notin {None, disk[p]}
        /\ disk[p] # None /\ ~Free(p) /\ Walked[p].sha # disk[p]
        /\ known[p] # None => known[p].hash # disk[p] \/ known[p].node # Walked[p].node

Permitted(known) ==
    /\ SecondConflict(known) => "second conflict" \in Mishaps
    /\ RenamedAndEdited(known) => "renamed and edited" \in Mishaps
    /\ RenamedOnto(known) => "renamed onto" \in Mishaps
    /\ RenameRefused(known) => "rename fails" \in Mishaps
    /\ RenamedAndRestored(known) => "renamed and restored" \in Mishaps
    /\ Revived(known) => "revived" \in Mishaps

\* Paths that others and the person write at: they may delete a conflict copy,
\* and leave its content alone.
Ordinary == {p \in Paths : \A q \in Paths : p \notin CopyOf[q]}

\* An operation of another device, of the console or of a sharer.
Others ==
    /\ done.remote < MaxRemote /\ Spend("remote")
    /\ pass # None /\ pass.verdict = "restore" => "restore push fails" \in Mishaps
    /\ \/ \E p \in Ordinary, c \in Contents : Create(p, c)
       \/ \E n \in Live, c \in Contents :
             nodes[n].path \in Ordinary /\ c # nodes[n].sha /\ Edit(n, c)
       \/ \E n \in Live, p \in Ordinary : Move(n, p)
       \/ \E n \in Live : Trash(n)
       \/ \E n \in Nodes \ Live : nodes[n] # None /\ Revive(n)
    /\ UNCHANGED <<disk, kept, state, pass, dropped>>

\* The person at this device writes, deletes or renames a file.
Person ==
    /\ done.local < MaxLocal /\ Spend("local")
    /\ pass # None => "edit in a pass" \in Mishaps
    /\ \/ \E p \in Ordinary, c \in Contents :
             disk[p] # c /\ OnDisk(p, c) /\ UNCHANGED dropped
       \/ \E p \in Paths, q \in Ordinary \cup {None} :
             /\ disk[p] # None /\ (q # None => disk[q] = None)
             /\ disk' = [r \in Paths |-> CASE r = p -> None
                                         [] r = q -> disk[p]
                                         [] OTHER -> disk[r]]
             /\ dropped' = dropped \cup
                   {n \in issued : state.known[p] # None /\ state.known[p].node = n}
    /\ UNCHANGED <<server, kept, state, pass>>

BackUp ==
    /\ pass = None /\ done.epochs < MaxEpochs /\ backup = None
    /\ backup' = [nodes |-> nodes, held |-> held, reset |-> epoch.reset]
    /\ UNCHANGED <<nodes, held, issued, epoch, disk, kept, state, pass, dropped, done>>

\* The server is restored from its backup, between two passes of this device,
\* and its epoch is raised before it answers: by the confirmation, or by the
\* operator where nothing is pending.  A copy served under the epoch in use is
\* the switch Unraised of DeltaFeed, and is not in this module.
RestoreServer ==
    /\ pass = None /\ backup # None
    /\ done.epochs < MaxEpochs /\ Spend("epochs")
    /\ nodes' = backup.nodes /\ held' = backup.held
    /\ epoch' = [restore |-> epoch.restore + 1, reset |-> backup.reset]
    /\ UNCHANGED <<issued, backup, disk, kept, state, pass, dropped>>

\* Another device takes the vault over and uploads it anew.
ResetVault ==
    /\ pass = None
    /\ done.epochs < MaxEpochs /\ Spend("epochs")
    /\ nodes' = [n \in Nodes |-> None] /\ held' = {}
    /\ epoch' = [epoch EXCEPT !.reset = @ + 1]
    /\ UNCHANGED <<issued, backup, disk, kept, state, pass, dropped>>

World == Others \/ Person \/ BackUp \/ RestoreServer \/ ResetVault \/ Crash

FileStep(p) ==
    \/ LeaveAlone(p) \/ Pull(p) \/ Adopt(p) \/ Conflict(p) \/ TakeServer(p)
    \/ PushEdit(p) \/ BaseMismatch(p) \/ PushNew(p)
    \/ (pass # None /\ \E v \in pass.vanished : PushMove(p, v))
    \/ FollowRename(p) \/ DropOldName(p) \/ RemoveLocal(p) \/ FailFile(p)
    \/ Rebind(p) \/ Quarantine(p) \/ Erase(p) \/ Fill(p)

VanishedStep ==
    /\ pass # None
    /\ \E v \in pass.vanished : ForgetVanished(v) \/ PushDelete(v) \/ FailDelete(v)

PassStep ==
    \/ StartPass
    \/ \E p \in AtWork : FileStep(p)
    \/ VanishedStep
    \/ \E p \in Paths : PullRest(p) \/ FailPull(p)
    \/ Save

-----------------------------------------------------------------------------

\* A device that has synced one file, large enough to be known by its bytes, or
\* one that is new to the vault and brings a file of its own.
Init ==
    \E p \in Ordinary, c \in Contents \ Small, d \in Contents :
        LET n == CHOOSE m \in Nodes : TRUE IN
        /\ nodes = [m \in Nodes |-> IF m = n
                       THEN [path |-> p, sha |-> c, rev |-> 1, live |-> TRUE] ELSE None]
        /\ held = {c} /\ issued = {n}
        /\ epoch = [restore |-> 0, reset |-> 0] /\ backup = None
        /\ disk = [Nothing EXCEPT ![p] = d]
        /\ kept = [q \in Paths |-> {}]
        /\ \/ d = c /\ state = [cursor |-> epoch,
                known |-> [Nothing EXCEPT ![p] = [node |-> n, hash |-> c, sha |-> c]]]
           \/ state = [cursor |-> None, known |-> Nothing]
        /\ pass = None /\ dropped = {}
        /\ done = [remote |-> 0, local |-> 0, faults |-> 0, epochs |-> 0]

\* What others, the person and faults do stays within the mishaps allowed.
Next ==
    /\ PassStep \/ World
    /\ done' # done => Permitted(state.known)' /\ (pass # None => Permitted(pass.known))'

Spec == Init /\ [][Next]_vars

\* One pass at a time (gate.ts), each of its steps taken if it can be; nobody
\* owes the vault an edit, a fault or a restore.
FairSpec == Spec /\ WF_vars(PassStep /\ UNCHANGED done)

-----------------------------------------------------------------------------
(* Properties.                                                             *)

\* The types.
Rows == [path : Paths, sha : Contents, rev : Nat \ {0}, live : BOOLEAN]
KnownNodes == [node : Nodes, hash : Contents, sha : Contents]
TreeNodes == [node : Nodes, sha : Contents, rev : Nat \ {0}]
Epochs == [restore : Nat, reset : Nat]
Backups == [nodes : [Nodes -> Rows \cup {None}], held : SUBSET Contents, reset : Nat]
Knowledge == [Paths -> KnownNodes \cup {None}]
Files == [Paths -> Contents \cup {None}]
Vanished == [path : Paths, node : Nodes, hash : Contents, sha : Contents]
Halves == [job : {"take"}, path : Paths, node : Nodes, sha : Contents, copy : Paths]
          \cup [job : {"drop"}, path : Paths, to : Paths, hash : Contents]
          \cup [job : {"edit"}, path : Paths, hash : Contents, base : Contents]
          \cup [job : {"erase", "fill"}, path : Paths]
Passes == [ verdict : {"continuous", "restore", "reset"}, tree : [Paths -> TreeNodes \cup {None}],
            meta : Files, known : Knowledge, vanished : SUBSET Vanished,
            queue : SUBSET Paths, late : SUBSET Paths, handled : SUBSET Paths,
            half : Halves \cup {None}, at : Epochs ]

ASSUME NoneIsApart ==
    None \notin Nodes \cup Contents \cup Rows \cup KnownNodes \cup TreeNodes \cup Epochs
                \cup Backups \cup Halves \cup Passes

\* The shape of the server, the device, a pass and what it saves (state.ts,
\* PassContext).
TypeOK ==
    /\ nodes \in [Nodes -> Rows \cup {None}]
    /\ held \subseteq Contents /\ issued \subseteq Nodes /\ epoch \in Epochs
    /\ backup \in Backups \cup {None}
    /\ disk \in Files /\ kept \in [Paths -> SUBSET Contents]
    /\ state \in [cursor : Epochs \cup {None}, known : Knowledge]
    /\ pass \in Passes \cup {None}
    /\ dropped \subseteq issued
    /\ done \in [remote : 0..MaxRemote, local : 0..MaxLocal, faults : 0..MaxFaults,
                 epochs : 0..MaxEpochs]

OnDevice == {disk[p] : p \in Paths} \cup UNION {kept[p] : p \in Paths}

\* "Never destroy the last local copy of content before its replacement exists"
\* (engine.ts, its header): a content no version of the server names stays on
\* this device, under some name, whatever a pass does, and whatever is written,
\* reset or restored between two passes, where a restore raises the epoch.
NoCopyLost ==
    [][pass # None => (OnDevice \ {None}) \subseteq OnDevice' \cup held']_vars

\* A pass trashes a node only if the person took its file away at this device
\* (engine.ts, the vanished paths): not for a rename, a reset or a restore under
\* a raised epoch that others made, nor for a file the pass itself removed.
DeletesOnlyWhatThePersonDid ==
    [][pass # None =>
         \A n \in Live : (n \notin Live' /\ done'.remote = done.remote) => n \in dropped]_vars

InStep == \A p \in Paths :
    IF Free(p) THEN disk[p] = None ELSE disk[p] = Walked[p].sha

\* Once nobody writes, renames or fails any more, the passes bring the device and
\* the server to the same files.
EventuallyInStep == <>[]InStep
=============================================================================
