# A verification of the sync server and its plugin

obsidian-syncserver keeps the folders of an Obsidian vault the same on several
devices, end-to-end encrypted, and lets accounts share folders. This directory
holds TLA+ modules translated from its TypeScript and SQL, TLC configurations
that check them on small instances, and proofs that TLAPS checks for every
instance. `PROJECT.json` lists the components, the runs, the hazards and, under
`map`, the source lines every definition stands for.

    tlc -workers 2 -config MCVaultTree.cfg MCVaultTree    # a run
    tlapm --cleanfp VaultTreeProofs.tla                   # the proofs, from nothing

## 1. The system

Paths in this section are under `server/src` and `plugin/src`.

| part | keeps | does | module |
|---|---|---|---|
| node tree (`nodes/`, `ancestry`, `revision`) | `nodes`, `vaults.head_rev`, `journal`, `versions` | create, put, delete, move; each one transaction that takes the vault row last | VaultTree |
| history (`history/`) | the same rows | list, restore (lifting trashed ancestors), purge of the trash | VaultTree, BlobLifecycle |
| vaults (`vaults/`) | `vaults`, `reset_epoch`, the root node | create, read, empty | VaultTree, DeltaFeed |
| change feed (`delta/`) | nothing: a signed cursor goes to the device and back | position, page, listing | DeltaFeed |
| blobs (`blobs/`, `holdings`, `quota`) | `blobs`, `user_blobs`, files, staged parts | upload in parts or whole, download, claim, bind, freeze | BlobLifecycle, Sharing |
| collector (`collector`, `retention`) | marks and ages | thin history, empty spent trash, drop claims, mark, sweep, unlink, prune the journal | BlobLifecycle, DeltaFeed |
| shares (`shares/`) | `shares`, `share_members`, marks on nodes | prepare, activate, invite, join, leave, remove, finalize; fan-out of writes, catch-up, thaw | Sharing |
| key material of shares (`shares/owed`, `material`; `sharing`, `share-flow`, `share-keys`) | envelopes, dedup tags, name scopes | convert a folder to the key of a share and back, batch by batch | ShareKeys |
| backup (`backup*`, `interlock`) | `backup_runs`, two advisory locks, a refusal window in memory, directories | run, schedule, self-check, remove | Maintenance |
| restore (`restore*`, `version`) | `server_meta`, a state file, a request file | load a copy at boot, halt, confirm, move the epoch | Maintenance, DeltaFeed, SyncPass |
| devices (`auth/`, `devices`, `pairing/`; `session/`, `session-hold`, `pairing-flow`) | `users` (envelope, verifiers), `devices`, `pairings`; `data.json` | unlock, change and adopt a phrase, recover, pair, revoke | Access |
| accounts (`auth/`, `admin/`, `account`) | `users.state`, console sessions, memberships, authorship | invite, switch off and on, sign in to the console, delete | Accounts |
| events (`listen`, `events-route`; `obsidian/push`) | a LISTEN connection, sockets, timers | wake the devices of a vault | Wakeup |
| scheduling (`sync`, `gate`, `local-changes`, `main`) | the operation in hand, timers | one operation at a time, a pass after a quiet period | Wakeup |
| sync engine (`engine/`) | `VaultState`: cursor and, per path, node, hash, address | one pass: probe, walk, measure, folders, files, deletions, pull, save | SyncPass (files), FolderMoves (folders) |

Devices call the server over HTTP; a write notifies the other devices of the
vault over LISTEN/NOTIFY and a socket; a write inside a share is carried to the
vaults of the other members in the same transaction. Uploads, writes and
purges meet the collector in the tables of blobs. A backup opens a window in
which writes are refused and shares a lock with the collector. A restore of the
server moves `restore_epoch`, emptying a vault moves its `reset_epoch`, and both
reach a device through its cursor.

What is hard, part by part, and what makes the part correct:

* **Tree.** Every handler reads and checks before it holds the vault row, so
  what it read may be stale when it writes; a row lock and the vault row are
  taken in both orders. Correct: live under live, one name per folder, ancestries
  that are the chains of the parents, a journal that tells of all trash, a write
  that is checked against what it replaces.
* **Feed.** Position and rows are two statements, pages are many requests, and
  purges, pruning, resets and restores fall between them. Correct: no change is
  stepped over, nothing is taken for deleted that was not.
* **Blobs.** Uploads write the file first, the collector removes it last, in
  separate transactions. Correct: what is kept can be read, what nobody keeps
  goes away, what an upload left behind goes away.
* **Engine.** A pass works from two pictures taken at its start and saves at its
  end, while others write, calls fail, answers are lost and the app is killed.
  Correct: the last copy of a content is never destroyed, only what the person
  deleted is deleted, passes converge, and what is done with a folder never takes
  a file from the other members of a share.
* **Shares.** A write touches several vaults; membership changes while writes fan
  out; frozen members catch up later; only devices can convert keys and only the
  server knows what is owed. Correct: members hold the same folder with the same
  past, everything opens with a key its owner is offered, who goes receives
  nothing more and gets away.
* **Maintenance.** Two advisory locks, a window held in memory, a restore
  confirmed in two places. Correct: a copy called good has every file its dump
  names, a moment of the schedule is answered once, a confirmed epoch is new.
* **Access and accounts.** Every change of a phrase is a change in two places with
  an answer that may be lost; a deletion is three runs over rows others refer to.
  Correct: what a person was told opens their device, a device that fell behind
  knows it, a changed password ends what the old one opened, nobody's history is
  shortened by another's deletion.
* **Wakeup.** Reconnects on both ends, timers that outlive their owners. Correct:
  both legs come back, nothing outlives its stop, an edit is carried.

`PROJECT.json` lists the hazards at their lines, with the properties that
watch over each, or why none does.

## 2. The modules

### VaultTree — `nodes/service.ts`, `history/`, `vaults/reset.ts`, `ancestry.ts`, `schema.sql`

The state is the tables: `nodes`, `versions`, `journal` and the vault's `head`,
with `tx` for what each connection has read and is about to write. A request is
two steps. `BeginX` performs the reads, early returns and row locks of handler X;
`CommitX` performs everything from `nextRev`, which takes the vault row, to COMMIT,
with the triggers and constraints as its guard (`Accepted`). One step is enough for
the second half, because the vault row is held throughout it; `purgeTrash`, which does
not take it, waits for row locks like everybody (`Blockers`). A write the database
refuses is `Refuse`; two connections that wait for each other are cut by
`DeadlockAbort`, as PostgreSQL does. Left out: shares (their fan-out is a
no-op for a vault in no share), sizes, times, key material.
`VaultTreeProofs` holds the theorems.

### DeltaFeed — `delta/`, `engine.ts` (probe and walk), `collector.ts` (journal), `restore.ts`

The server's side is a flat tree with its journal and epochs; the reader has a
cursor, a mirror and a request under way. `Ask` is the statement that reads the
position, `AnswerPage` or `AnswerProbe` the one that reads the rows; `StartList` and
`Listed` are the same for a listing. Writes, `Purge`, `Prune`, `Reset`, `BackUp`,
`Restore` and `Rotate` fall between any two. A reader pages as the documentation
describes, or probes and walks as the plugin does. `GiveUp` loses an answer.

`Restore` is the whole of it, from the copy put back to the first answer. `Pending` is the
comparison of the boot: a copy that is behind the state file waits for its confirmation, which
raises the epoch; any other is refused confirmation and served, under an epoch the operator
raised by hand or under that of the copy (`RestoreEpochs`). Two switches, off in the run, admit what
the code does not keep the properties through:

* `Unraised`: a copy is served under the epoch in use. `NothingJournalledIsMissed` and
  `DeletionsAreReal` fail: the cursors of the lost history are answered.
* `RestoreMidPass`: a restore between a probe and its walk. `DeletionsAreReal` fails.

### BlobLifecycle — `blobs/`, `holdings.ts`, `collector.ts`, `retention.ts`, `api/client.ts` (uploads)

An upload is whole (`BeginWhole`) or in parts: what is staged is asked for, the
missing parts are sent, `complete` assembles them (`Store`), and `Record` commits the row and
the claim; it may end at any point, and what it staged stays. `Bind`, `Receive`,
`RestoreNode`, `DeleteNode` and `PurgeTrash` are what the handlers do to nodes, versions
and claims. A pass of the collector is one action per transaction in the order of the
source, ending with a re-check and an unlink per file and the sweep of parts grown old. `Crash`
forgets the pass and the uploads; `FailPass` is a statement that throws. `MayCommit` and
its like keep three things apart in the passing run:

* `Overlap`: a writer commits while one DELETE of `dropSpentClaims` runs.
* `Window`: an upload falls between the re-check and the unlink, the gap the
  comment in `collector.ts` accepts.
* `WrongSizes`: an upload declares a wrong size for a content another upload has just
  stored.

`KeptIsReadable` fails with any of them.

### SyncPass — `engine/engine.ts`, `reconcile.ts`, `rename.ts`, `state.ts`

One device, the vault it syncs and the person at it. `StartPass` takes the tree and
measures the disk; `Decide` is `decideFile`; then every write to the server and every
operation on a file is a step of its own, in the order of the source: the files, the
late queue, what vanished, what only the server has, `Save`. A restore whose epoch was raised makes the pass
prefer what is here, a reset replaces reconciling by `Rebind`, `Quarantine`, `Erase` and
`Fill`. A call may fail before or after it took effect (`FailFile`, `Answered`), and
the app may be killed between any two steps (`Crash`). Others write at any moment.

Left out: folders and shares (FolderMoves), hints that spare hashing. Probe, walk and
measuring are one step, because DeltaFeed has what may come between the first two.
Restores, resets and backups fall between passes, and every restore raises the epoch, by its confirmation or by
hand (one that does not is `Unraised` of DeltaFeed). An address stands for its content.
The copies a path may be given are `CopyOf[p]`, one a day, and a resolution that meets such a name in use
counts as a second conflict, the name having been there when the pass began included. A mishap that others cause
is kept out where the pass would meet it, not only where it arises: what a pass meets is what counts.

The code does not come through nine situations well. Each is a member of `Mishaps`,
which the run leaves empty; `Permitted` keeps such a situation from arising:

| mishap | the code | what fails |
|---|---|---|
| edit in a pass | pull, removal and conflict do not look at the file again | `NoCopyLost` |
| renamed and edited | `applyRemoteRename` records the new address with the old bytes | `EventuallyInStep` |
| renamed onto | it writes over a file this device has at the new name | `NoCopyLost` |
| rename fails | its record is saved although the upload that follows failed | `NoCopyLost` (*) |
| restore push fails | the cursor is saved although the rescue failed | `NoCopyLost` |
| renamed and restored | `pushMove` keeps the address last synced: the edit a restore took back is recorded as synced | `NoCopyLost` (*) |
| revived | a file back at the same path passes for one deleted here | `DeletesOnlyWhatThePersonDid` (*) |
| second conflict | a copy's name has only the day in it | `NoCopyLost` |
| second quarantine | so has the quarantine folder's | `NoCopyLost` (*) |

(*) with one event and one local change more than the run's bounds, for a second quarantine one epoch too.

### FolderMoves — `engine/engine.ts` (folders and shares), `rename.ts`, `remap.ts`, `scopes.ts`

The same pass, over folders. The disk has no folder identities: `StartPass` makes the plan of
folder moves from what vanished and what turned up, remaps nothing yet, and decides which share
roots are held back (`HeldRoots`). `MoveFolder`, `CrossFolder` and `ReplaceLeftover` carry out the
plan; `PushNew`, `PushMove`, `CrossFile`, `FollowRename`, `Pull` and the rest take the files
one by one, in the order of the source (`Foremost`), and `DeleteVanished`, `RemoveFolder` and
`FinishPass` end it. A move whose new parent is no longer in the picture ends the pass unsaved
(`Orphaned`, in `Crash`). A file that would cross the edge of a share is created anew on one side and
deleted on the other (`DropSource`). Others create, edit, move and delete at any moment; the person
does between passes; calls fail and the app is killed.

Left out: restored and reset servers, and what a pass does with contents beyond which version
they are (SyncPass). The measure a pass takes at its start (`ctx.meta`) is not kept apart from the
disk, because nobody edits here during a pass. Some names carry a prefix (`FoldersInit`, `folderVars`, as `KeysSpec`
in ShareKeys and `AccountsSpec` in Accounts) because these modules are read beside another one by the module of their proofs.

| mishap | the code | what fails |
|---|---|---|
| name in use again | a shared folder is deleted, or renamed, and a folder or file of its old names made before the pass: files are deleted from the share or leave it | `ShareKeepsItsFiles` |
| news while held | a root is held back, and a file renamed or made in it here, or put into it by others, is treated as private or pulled: the next pass empties the share | `ShareKeepsItsFiles` |
| same name elsewhere | a shared folder went and a file elsewhere is called as one in it | `ShareKeepsItsFiles` |
| renamed there too | the root was renamed there while a file of it was renamed here: the file is carried out of the share | `ShareKeepsItsFiles` |
| renamed onto | `applyRemoteRename` writes over a file here | `ShareKeepsItsFiles` |
| renamed and edited | as in SyncPass | `QuietPassAgrees` |
| renamed in it too | a folder moved here, others renamed a file in it: it is written where it was | `QuietPassAgrees` |

### Sharing — `shares/`, `quota.ts`, the write handlers, `schema.sql`

One shared folder: the share, its memberships, the room and the freeze of each account, and
one file with its history in the vault of each. A request is one transaction of two steps,
as in VaultTree: `StartX` performs the reads, the early returns and the row locks of
handler X, `CommitX` the writes, with triggers and constraints as its guard. `tx` holds what
was read, and which copies a write will go to, so that memberships, freezes and copies may
change in between wherever no lock forbids it (`ShareLocked`, `MemberLocked`, `NodeLocked`).
`RollBack` is a refusal, a deadlock or a crash. `Delivered` is what a write leaves of a copy,
its own and every other, `CaughtUp` what a thaw makes of a copy that was passed over. An
account has one request in flight. Short administrative calls are one step.

Room is counted in contents of one size: an administrator's change of quota, and what an
account stores or frees outside the folder, are both `SetRoom`, or `StartThaw` when they lift
a freeze. `Apart` and `Risk` keep seven situations from arising unless `Mishaps` lists them:

| mishap | the code | what fails |
|---|---|---|
| write in a join | `joinShare` reads the copy without the locks a fan-out takes | `CopiesAgree` |
| write in a thaw | `catchUpShare` likewise | `CopiesAgree`, `RecordHasNoHole` |
| two departures | `removeMember` does not lock the share, `departMember` not the members it counts | a share of one stays active |
| join from a frozen copy | `joinShare` copies the initiator, frozen or not | `CopiesAgree`, with a third version |
| nobody to catch up from | a thaw without a live, unfrozen copy lifts the freeze for good | `CopiesAgree` |
| catch up from a copy that lacks it | who joined after a deletion lacks the file, and `catchUpShare` walks their files only | `CopiesAgree` |
| restore of what a copy lacks | `propagateUndelete` passes over a copy without the file | `CopiesAgree` |

Left out: folders and moves, retention, a second share, an invitation that races the end of the share.

### ShareKeys — `plugin/src/sharing.ts`, `share-flow.ts`, `shares/owed.ts`, `material.ts`, `shares/service.ts`, `schema.sql`

What each name is under, which scopes each address has an envelope for, and which tags are filed. The
device walks the folder, asks what is owed, prepares in batches (`PrepareBatch`), activates;
whoever leaves lists the replica (`ListReplica`), leaves and finalizes. `MarkAccepted`,
`ActivationAccepted` and `UnmarkAccepted` are what the server and the triggers demand. Other
devices write in between (`CreateNode`, `PutContent`, `DeleteNode`, `RestoreNode`), and a device
may stop after any request (`GiveUp`). Every sealing makes a new address. Two mishaps: `same text
twice` (two files of one text at two addresses: the tag of one is never filed, and activation is
refused for ever), `trash in the folder` (activation wants the trash renamed, which nobody
asks for). `PreparedIsAccepted` fails with either. It is assumed that a file on disk is the head
the walk saw; `sharing.ts:226` computes the tag over the disk whatever it holds.

### Maintenance, DurableStore — `backup*.ts`, `interlock.ts`, `restore*.ts`, `index.ts`

A backup run is the stages of `runBackup` for a person or the schedule; `lock` is the advisory lock
shared with the collector, `window` the refusal of new writes; `copies` the directories. Uploads
that began before the window end in it. `SweepCopy` and `RemoveDirectory` remove copies,
`Stop` and `Start` are a crash or a restart with what the boot does in order: `RestoreBlobs`, `LoadDatabase`,
`BuildApp` (the comparison of epochs), `SettleInterruptedRuns`, `Listen`. `RestoreByHand` and
`RaiseByHand` are the operator's procedure, `ConfirmRestore` and `FinishConfirm` the two halves of a
confirmation. `DurableStore` says what all this promises: everything the database names has its
file, a good copy holds every file its dump names, the database goes back to good copies only. The run
checks that Maintenance implements it, with `refs` the contents the database names and `kept` the
copies marked good, and `MaintenanceProofs` proves it.

### Access — `auth/`, `devices.ts`, `pairing/`, `session/`, `pairing-flow.ts`, `main.ts`

The account's envelope and verifiers, the rows of `devices` and `pairings`, and for each install its
`data.json`, its open session, its client and the request it has under way, which is sent,
passes the guard of its route, is carried out and is answered in four steps; a request or an answer may be lost
and the app restarted between any two. `MovesMidway` admits a change of the server's address under
another operation of the session; `ToldIsKept` fails with it.

### Accounts — `auth/service.ts`, `admin/`, `account.ts`, `shares/service.ts`, `schema.sql`

The console's password and sessions with their three-step sign-in; the accounts of people; one share, its
members and the authors of everybody's versions. `DeleteAccount` is one advance of a deletion: it
revokes, departs from shares and, when nothing is outstanding, anonymises, empties and deletes;
it commits only if the schema lets it. `Overtaken` admits a password change between the
check of a sign-in and its session; `OldPasswordIsOut` fails with it.

### Wakeup — `listen.ts`, `events-route.ts`, `push.ts`, `sync.ts`, `gate.ts`, `local-changes.ts`, `main.ts`

`leg` is the closure of `subscribe` with its generations, `events` drops not yet seen by their handlers,
`hub` the notifications under way; `push`, `sockets`, `gate` and `watcher` are the device's. Each await
ends a step. `LateAnswers` admits a refresh or close that outlasts the delay of a connection:
`NothingOutlivesStop` fails with it. The late answer schedules a second connection beside the first; the new
socket takes the place of the live one in `this.socket` (`push.ts:86`), and `stop()` closes only the new one.

### How they fit together

Sharing takes a vault of VaultTree as one file written whole; DeltaFeed takes places and names from
VaultTree; SyncPass takes what may come between probe and walk from DeltaFeed; Maintenance sees BlobLifecycle as
contents with files, and DeltaFeed and SyncPass see Maintenance as one step that restores and serves; ShareKeys takes the
memberships of Sharing as single steps; Accounts takes a share as its members and authors; Wakeup takes a pass as begun, read and done.

## 3. The runs

| run | asks | instance | states |
|---|---|---|---|
| `vault_tree` | do races of requests break the tree or its journal, or write over what they were checked against; can requests block each other for good | root and 2 nodes, 2 names, 2 contents, 2 connections, 5 revisions, 1 reset | 248 000 |
| `purge_race` | violated: does a purge take only trash | root and 2 nodes, 3 revisions | |
| `delta` | does a page boundary lose a node; what does a device do that was away for a reset or restore | 3 nodes, pages of 1, 3 revisions, 1 reset, 2 restores, 1 rotation, purges, pruning | 7 371 000 |
| `blob_life` | does a pass take what is kept; is garbage, and what an upload left, collected | 2 accounts, 1 content, 1 upload of 2 parts, 1 fault | 222 000 |
| `sync_pass` | what a pass may never do, and do passes converge | 2 files, 3 contents, any 2 of: 2 remote writes, 1 local change, 1 fault, 1 restore or reset | 917 000 |
| `folders` | does a share keep its files, do disk and server agree | a shared folder with a file and a folder in it, a private one, any 2 events | 40 000 |
| `sharing` | do the copies agree, is their record whole, is a departure clean | 3 accounts, the participants without room at first, 2 changes of room, 2 contents, 2 versions | 674 000 |
| `share_keys` | does everything open, is what was prepared accepted, does a departure end | 2 accounts, a file written twice and room for another, 1 new address, 2 writes | 37 000 |
| `maintenance` | are copies whole, moments answered once, epochs new | 1 content, 2 runs, 2 moments, 1 restore by hand and 1 asked for, 1 fault | 658 000 |
| `access` | is what a person was told kept, does a device know it is behind | 2 installs, 2 phrases, 2 device rows, 3 envelopes, 1 pairing, 2 turns | 740 000 |
| `accounts` | does an old password stay in, whose history goes with an account | 3 accounts, 2 browsers, 2 passwords, 2 sessions, 2 versions, 5 turns | 276 000 |
| `wakeup` | do both legs come back, does anything outlive its stop, is an edit carried | 1 write, 1 edit, 3 attempts, 3 sockets, 2 faults or acts | 144 000 |

Why the bounds are enough. Two connections make every pair of requests overlap,
and each property of the tree relates at most two rows or a row and its parent. Pages of one
node put a boundary between any two nodes; three revisions let a node change after it was given while
another waits. The first restore is never pending, so its epoch is raised by hand; a second of the same copy
is pending, and the epoch after the copy's own has been given out. What follows a second restore is explored only where there
was no rotation, and no reset the copy has not undone (`SecondRestoreAlone`). Two accounts that hold one content are what the collector must tell apart; two parts
are the fewest of which one can be missing. Two files are enough for a rename,
its target and a bystander; two events are a conflict, or any write with a fault or an
epoch on top. Folders need a share, a folder inside it and one beside it, to be moved in, out
and within. Two participants who join an empty folder without room are frozen by the first write
and miss the second; whoever is given room before or after thaws while the other two differ. A file written twice has a head and a past. Two runs are the least where
one is removed and one kept; two ways of restoring meet each other's epoch. Two installs are one
that changes a phrase and one that is behind; three accounts are a share that goes on when one goes.
What bounds cut off is named in each module and guards only the start of new work, never its end.

Symmetry is declared in runs without liveness properties, over sets whose members no definition
tells apart. `CHECK_DEADLOCK FALSE` appears where a run really may stop: when writes are bounded and
everybody has left, or every turn has been taken. `vault_tree`, `blob_life`, `sync_pass` and `maintenance` are
checked for deadlock.

Fairness. `blob_life`: the collector's timer starts passes and a pass goes on; marks, claims and parts grow old; an
upload request ends one way or the other. `sync_pass`: passes repeat (`sync.ts`) one at a time
(`gate.ts`), and a step that can be taken without a fault is taken. `share_keys`: the folder stays in the list of
shares until its departure is recorded, and the person asks again (strong: another write may be in the way);
that is what `leaveShare` says of a device that died in between. `wakeup`: requests are answered, timers fire, events
reach their handlers, operations end; strong only for the pass that meets a held gate. Nobody owes an edit, a fault, a
write or a restore.

Every property has a mutant in `PROJECT.json`: a plausible bug of one mapped definition
that makes that property fail.

### What the violated run shows

`purge_race`: `purgeTrash` lists the trash without locks and deletes by id; a restore that
commits in between is answered and its live file is deleted.

### Where code and documentation part

Beside that run, these were met while modelling. Each is a switch or a mishap, off in
the passing runs, or a guard of the model that says what the code does.

Server:

* Only `confirmRestore` raises `restore_epoch`, and it is refused unless the database is behind the state file
  (`restore.ts:97`, `admin/routes.ts:421`). A copy taken under the epoch in use is served under it (`Unraised`), unless the
  operator takes the third step of the procedure by hand, for which a restore asked from the console leaves no moment. A
  device that had read past the copy is then told that all is quiet and lacks what the server has, or takes for deleted what
  the server lost. `docs/11-management-console.md:247` describes this failure and says that the machine checks for it; so do
  `docs/08-backup-restore.md:104` and the comment at `admin/routes.ts:370`.
* A restore confirmed between the probe and the walk of one pass (`RestoreMidPass`) makes the
  device delete what the server lost; `docs/04-sync-protocol.md` says deletions are not applied then.
* Under READ COMMITTED a DELETE that waited looks again at the row but not at the tables of its
  subqueries (`Overlap`): a node bound meanwhile loses its claim, and its owner gets 404.
* The `del` entry of a node purged later is hidden by the join of `delta/service.ts`, and a journal
  pruned to nothing accepts a cursor of any age.
* A backup whose row cannot be inserted (`backup.ts:194`, outside the try) leaves the refusal window open.
* An account that ever began a share cannot be deleted: the row of an ended share names its folder
  (`schema.sql:1060`) and `finish` deletes nodes first; the account stays `deleting`. A deletion is also
  refused while its owner is in an active share with others, has an open invitation in one, or waits for
  another account that is being deleted too.
* A console sign-in that checked the old password and makes its session after a change stays in (`Overtaken`).
* A claim or recovery that passed its guard before an account was switched off makes a device that is live
  when it is switched on again (`admin/service.ts:232`).
* The departure that ends a share is refused while an invitation is open, because the open row
  would begin finalization without having joined. A share with trash in it can be activated by nobody. A share of
  which one batch was prepared cannot be cancelled, though the plugin says it can and loses nothing. A version from before the share cannot
  be restored, for want of a tag. Somebody who left cannot be invited back (primary key).
* `membership.ts` says a frozen member's copy is never read back, and `joinShare` reads it.
* `docs/05-sharing.md` says of a write that either every eligible replica advanced or none did; a
  write beside a join or a thaw, and a restore of what a copy lacks, reach some of them.

Plugin:

* A verifier refiled after an unlock (`session.ts:257`) is a request apart from the envelope: a phrase changed in
  between leaves the two of different phrases; `auth/service.ts:456` says the pair moves together.
* Any failure of a refresh drops the refresh token (`client.ts:379`).
* `changeServerUrl` under a change of phrase keeps the connection it read before (`MovesMidway`).
* A refresh answered, or a close seen, after the next connection was begun schedules one more (`push.ts:107`, `push.ts:118`);
  the older socket stays open and `stop()` does not close it (`LateAnswers`). `lock()` stops the push and nothing starts
  it when the session is unlocked again. A hint that meets a held gate is dropped (`sync.ts:89`):
  `docs/04-sync-protocol.md:729` says the pass that runs will see the change anyway, which is not so when the gate
  is held by another operation or the pass is already past its read. The timer finds the change.
* An upload that broke off is sealed anew, under a new address, by the next pass: the parts staged are never resumed
  across passes (`client.ts:869`) and count until the sweep.
* A new file in a new folder of a share is refused once: `pushNew` reads the scope before it makes the folders
  (`engine.ts:1244`). Of two folder moves, the second into a folder the first was to put in the place of a leftover: when
  the leftover goes and the first move then fails, the second looks up a parent that is not there, outside the `try`
  (`engine.ts:866`), and the pass ends unsaved. A move whose folders cannot be made leaves its source unclaimed, and it is pulled back.
* `removeDeletedFolders` may delete an empty folder inside a share root that is held back. After a folder move all vanished
  files with the bytes of a moved one are forgotten (`engine.ts:884`).
* A file deleted here whose answer was lost, and put back at its old path, is deleted here too.
* The mishaps of SyncPass and FolderMoves, above.

## 4. What is proved

The theorems hold for every value of the constants that meets the module's named assumptions, so for any numbers
of nodes, accounts, devices, folders, revisions, faults and turns; a run sees one small instance. Every
component module has a module of proofs that extends it:

| proofs | of |
|---|---|
| VaultTreeProofs | VaultTree |
| DeltaFeedProofs | DeltaFeed |
| BlobLifecycleProofs | BlobLifecycle |
| EngineProofs | SyncPass |
| SharingProofs | Sharing, FolderMoves |
| DeviceProofs | Wakeup, ShareKeys |
| MaintenanceProofs | Maintenance, with DurableStore |
| AccessProofs | Access, Accounts |

| module | theorem | says | needs |
|---|---|---|---|
| VaultTree | `AncestryAlwaysParentChain` | the ancestry of every row is the chain of its parents | |
| | `LiveAlwaysUnderLive` | no live node is under a trashed one | |
| | `SiblingNamesAlwaysUnique` | live siblings have different names | |
| | `CheckedStaysSo` | what a put, delete or move was checked against holds when it commits | |
| | `JournalAlwaysTellsTrash` | the journal tells of every trashed node | |
| DeltaFeed | `NothingIsMissed` | a reader past a revision has what the journal tells up to it | `~Unraised` |
| | `OnlyRealDeletions` | nothing passes for deleted that was not trashed or reset | `~RestoreMidPass`, `~Unraised` |
| BlobLifecycle | `KeptAlwaysReadable` | what an account keeps, live or in its past, can be read | `~Overlap`, `~Window`, `~WrongSizes` |
| Sharing | `DepartureIsClean` | who departs receives nothing more | |
| | `LevelCopiesAgree` | who is in the share, has room and nothing to catch up with sees the same file | `Careful` |
| | `RecordIsWhole` | who is level has a version of every write another who is level has | `Careful` |
| FolderMoves | `FoldersTypeCorrect` | the rows stay one tree in which a share has one scope, and what is on disk is in folders that are | |
| ShareKeys | `EveryFileAlwaysOpens` | every name and version opens with a key its owner is offered, at every step | |
| | `PreparedAlwaysAccepted` | what was prepared undisturbed lacks nothing the server asks for | no mishap |
| SyncPass | `DeletesWereMeant` | a pass trashes a node only if the person took its file away | `Calm`, no "revived" |
| | `NothingIsLost` | no step of a pass takes the last copy of a content | `Tame` |
| Maintenance | `KeepsThePromise` | it implements `DurableStore` | |
| | `OneRunForAMoment` | the schedule answers a moment once | |
| | `ConfirmedEpochAlwaysNew` | a confirmed restore has an epoch nobody was answered under | |
| Access | `BehindAlwaysMarked` | a device that fell behind the account knows it | |
| | `ToldAlwaysKept` | the phrase a person was last told opens the file | `~MovesMidway` |
| Accounts | `ChangedPasswordIsOut` | a changed password ends what the old one opened | `~Overtaken` |
| | `NobodyLosesAVersion` | nobody's history is shortened by another | |
| Wakeup | `StopIsComplete` | nothing outlives a stop | `~LateAnswers` |

Each module has its types proved too: `TypeCorrect`, or by another name where two modules share their proofs (`PassTypeCorrect`,
`FoldersTypeCorrect`, `KeysTypeCorrect`, `WakeupTypeCorrect`, `AccountsTypeCorrect`). "Needs" names what must be
off: with it on the code does not keep the property, or is not known to, and section 2 says why.

* `Careful`: the mishaps of Sharing but for "two departures" are kept out.
* `Calm`: of SyncPass, "edit in a pass" and "second conflict" are. The other six, faults, resets and restores whose epoch is raised are free.
* `Tame`: every mishap of SyncPass but for "revived" is.

The other switches and mishaps of a module are free, and so is everything else.

### The arguments

**VaultTree.** `TypeInv` adds to `TypeOK` that no request in flight is about the root;
without it a delete could trash it. `TreeInv` adds that an id a create is about to use is in no
row (`FreshInv`), that chains are the parents' (`Chains`) and that live hangs under live
(`Lives`). The two go together: the deferred triggers check only the rows a write
touched, so that the untouched ones keep their chains follows from the chains of the
state before. The names need `TreeInv`, because a create, a move and each lifted ancestor of a
restore can disturb one folder only. `LockInv` says that no two requests hold one row
(`LocksApart`) together with `CheckedIsStillSo`: a commit that changes a row waits for its
holder (`Blockers`), so nothing it was checked against changes. `JournalInv` ties the revision of a
row to its entry: none is ahead of `head_rev`, none is of an id a create is about to use, and the ancestors a
restore is about to lift are told of already.

**DeltaFeed.** `FeedInv` says three things beside the types. `JournalHolds`: the journal of a database,
and of the backup of it, has one entry a revision, none beyond `head_rev`, and none later than the row
it is of. `EpochsPass`: an epoch that a cursor or a request names was or is, so it does not come again. This is
where both theorems need `~Unraised`; the types and the journal do without it (`RowsStep`).
`PositionsAreReached`: in the history it was given in, a cursor is not ahead. What a page leaves out lies
beyond the position it gives, whatever its size (`PageProperties`): the rows before a cut are those of the lowest
revisions, and a row that changes after it was given gets a higher one. For deletions, `AbsencesAreReal` says of every reader
that will believe an absence: what it has and the server does not was removed.

**BlobLifecycle.** The chain that keeps a file: what is held is claimed and bound (`KeptIsClaimed`), what is
claimed is recorded (in `ClaimsTyped`), what is recorded has a file (`FilesThere`). The collector cuts it nowhere:
what it is about to unlink has no row (`DoomedIsUnrecorded`), and what a DELETE saw as spent is held by nobody
(`SpentIsUnheld`). `Overlap` breaks the last, `Window` the one before, `WrongSizes` takes a file from a recorded content.

**Sharing.** Every request is two steps, so the invariant is about what the first read and the second will use. Which
request a step may begin, with what, is said once (`Starts`), and a request stays what it was until it is gone
(`RequestsStay`). `Places` says who may be in the share in each of its states, `Departures` that the initiator's ends it, and
`TargetsStay` that whoever a write goes to stays live: a departure waits for the memberships a write has locked. `DepartureIsClean`
is that. For `LevelCopiesAgree`, `WritesApart` and `WritesReach` say that the targets of a write are all who are level when it commits,
although it read them a step earlier; and `OneView` that there is one content, or none, which all who are level show and
which every join and catch-up under way is about to show. A write makes the same of every copy that shows the same (`DeliveredShows`);
without the mishap "restore of what a copy lacks" that is false. `PastIsKept` is what a join needs to have a version to begin with.

The record is harder, because the versions of two copies are not the same: a join records the head anew, with a moment of its own,
and a catch-up appends all that its source has after the last version both have, which may bring older versions behind newer ones.
What they share is the writes they are of. `RecordInv` says that there is a set of writes W with contents K that every
record is about: each version is of a write (`Of`: the last one not later than it) and has its content (`Told`), the first
write is among them (`Early`), and after a version come versions of all later writes, of all there are for who is
level (`Whole`), of those up to the last they have for who is behind (`SoFar`). Every join and catch-up under way has read a head that is
the last write's (`Newest`) or a record that is whole.

**FolderMoves.** The rows are changed from all sides by requests that name ids, parents and scopes out of a picture that is
overtaken. `FoldersInv` says that there is a set K of ids which are of files, for good, so that a parent a pass names is a folder
whatever became of it, and the server looks at whether it stands. The rows are `Grown`: typed, of the kinds K says, and a tree in the
form that speaks of one node and its parent, which a create, an edit and the delete of a bare folder disturb in one place only. A move
rewrites the paths of everything under a folder (`Rehung`); the lemmas on it say what it keeps of lengths, prefixes and last names, and that
it has an inverse. `Housed` is the same for the disk. `PassFits` says what a pass may name: ids of K in its record and among what
vanished, pictures whose paths are of the kind of their node but may lie beyond the bound, files that are here in its queue.

**ShareKeys.** `OpenInv` is file by file (`FileFits`): the mark says whether its owner is inside, the name and all versions are under scopes its
owner is offered, and all under one scope once the folder is wholly converted, one way or the other. It is kept for all copies at once, because
the write of one member reaches the files of the others. Who is in a share that is being prepared (`Populations`) and that a
tag names what opens under its scope (`TagsOpen`) go with it. `PreparedAlwaysAccepted` is about a conversion nobody disturbed: then the
walk is the folder, a file on the list has on it all that is missing, and one that was sent lacks nothing
(`Walked`). This needs files of one text to be at one address (`HeadsApart`) and nothing in the trash (`NothingTrashed`), the two mishaps.

**SyncPass.** A step may be the first half of a job, so the types already say what its second half goes on from (`HalfPoints`).
`WorkInv` is what a pass counts on: what waits is there, what waits twice is new here, after a reset nothing is known, and what vanished is on
record once with nothing waiting at its path.

`MeantInv` says that a node which still stands where a vanished file was on record lost it to the person, and that no file on
record is back at a place it was taken from; a step of a pass brings nothing back to such a place (`BringsNothingBack`). A copy written over one that is
there, or an edit under a pass, would make a file vanish that nobody took.

`SafeInv` has two halves. The record is true of the server (`RecordInv`): every file on record has its content in some version, but for the one of a rename
being followed and, after a restore, for the files the pass has not come to. And every content on the disk is safe (`AllKept`): the server
has it, or it lies at a path the pass has in hand, already or still, where it looks before it writes, or in a quarantine. Between, what was measured of a file whose turn is to come is still there
(`StillMeasured`), and `InHand` says what is where between the two halves of a job. The contents are spoken of and not the files, because a
content may move from one path to another in two steps.

**Maintenance.** The database has many pasts: a restore brings an old one back. So what the invariant says of it
(`Databases`, `EpochsAreCounted`) it says of every dump too. Then a run holds its lock from row to release
(`OneRunHolds`), each stage has the row, the copy and the files of its run (`RunsUnderWay`), a moment claimed
without a row is later than every row (`ClaimIsNew`), and nobody remembers an epoch that needed more restores than
there were (`EpochsAreCounted`). The refinement maps every step to one of `DurableStore` or to none;
`LoadDatabase` is the step that needs the files put back first.

**Access.** An operation is several requests, and what it found out with one it uses in the next: `Carries` says
of each kind what that is (the phrase its envelope is under, the device made for it, the filing its envelope was
shown with). `RowsLeft` and `PairingsLeft` keep a row for whoever was let in. `ShownIsSo` and `SeenIsSo` say that what
an operation, or a session, was shown is the envelope of that filing unless there is a later one, which the
device is then marked as behind. `KeptIsTyped` is what `ToldIsKept` needs of an operation at its last request.

**Accounts.** A sign-in under way was begun with the password there is (`SignsInWithIt`, without `Overtaken`).
The one statement that replaces a history is a join. That nothing is lost there is not in it: `NothingBeforeJoining`
follows from the schema, which invites nobody back, and from the cascade of a deletion, together.

**Wakeup.** Already the types take a count: a hint, a fan-out and a notification are each owed to a write of their
own. Then one attempt is in flight at most and none beside a subscription (`OneAtATime`), a connection out of the pool
is in use (`HeldIsUsed`), and the listener's socket is its only one (`OneSocket`). What `stop` waits for is then all there is.

What the proofs needed of the models. `None` must be apart from what it stands beside; this is assumed by name
(`NoneIsApart`) and TLC evaluates it. Access needs a row and an envelope to begin with, Accounts one password,
BlobLifecycle one part and one reservation, DeltaFeed pages that hold a node, SyncPass one node. ShareKeys needs two addresses and a text that was
replaced by another. In FolderMoves a folder's parent is a folder (`FoldersAreClosed`), no path is of a file and of a folder, and the rows it
begins with are a tree (`StartIsATree`). Wakeup's bounds must not starve a leg (`LegsOutnumberTurns`), which is about the
bounds and not about the code.

Two forms recur. No proof uses induction over data: that a set of naturals has a least member comes from the well-founded
order of finite sets (`SmallestNat`). Where the state is a record of many fields, a step is shown field by field and the
record put together by a lemma.

### What is only model-checked

* Liveness, which takes fairness and ENABLED: `sync_pass`, `blob_life`, `share_keys`, `wakeup`.
* `ShareKeepsItsFiles` and `QuietPassAgrees` of FolderMoves. Both are about a pass as a whole: which share a file was in when the plan was made, what the
  person meant by it, and how two pictures, the disk and the server stand to each other at each step of a plan whose folder moves rewrite all four. What is
  proved (`FoldersInv`) is the ground of such an invariant and not the invariant: that the plan is made once, from counts of matching files over sets
  of paths, is the part for which none was found.

`AncestryAlwaysParentChain` and `SiblingNamesAlwaysUnique` are the other way round: proved, and checked by no run.

## 5. The plan

The components the plan began with are modelled, and every module is proved about. What is left:

1. FolderMoves: `ShareKeepsItsFiles` by an invariant on the plan, which would have to say of every file of a share that its path here is under a root held
   back, under a planned move inside the share, or meant to leave.
2. FolderMoves with restored and reset servers, which SyncPass has for files only.
3. Sharing over a tree of folders, with the order in which a catch-up goes through it.

## 6. Not modelled

Cryptographic primitives (pure functions over bytes), the wire format, the presentation of the
plugin and the console, logging: they have no state the properties speak of. Ceilings of bytes in flight, download rates
and the attempt limiter are counters of one statement or one process that no other part reads. The migration ledger runs once before the
server listens. Unseen activity is a count for display, and the reset and history flows of the plugin are
short sequences of calls whose server halves are in VaultTree. `PROJECT.json` marks these parts, and those of which a piece
is left out.
