------------------------------ MODULE Maintenance ------------------------------
(***************************************************************************)
(* Backups and restores of a whole server: the lock a backup shares with   *)
(* the collector, the window in which new writes are refused, the two legs *)
(* of a run, the schedule's claim of its moment, the removal of copies,    *)
(* and the boot that carries out a restore and compares the epoch of the   *)
(* database with the one in a file beside it.                              *)
(*                                                                         *)
(* Content is BlobLifecycle's, seen from afar: what the database names,    *)
(* what the store holds, and the uploads in between.                       *)
(***************************************************************************)
EXTENDS Naturals, FiniteSets, Sequences

CONSTANTS Contents,     \* content addresses
          MaxRuns,      \* bound on the runs that get a row, the names of directories
          MaxMoments,   \* bound on the moments the schedule reaches
          Ways,         \* bound on loads of a dump, and how each is come by: "hand" is
                        \* the operator's command, "asked" the console's button
          MaxFaults,    \* bound on crashes and failing legs
          Keep,         \* backup_schedule.keep
          None

ASSUME BoundsAreNaturals ==
  /\ {MaxRuns, MaxMoments, MaxFaults} \subseteq Nat
  /\ Keep \in Nat \ {0}
ASSUME WaysAreKnown == Ways \in Seq({"hand", "asked"})

Runs == 1..MaxRuns
Sources == {"person", "schedule"}
MaxRestores == Len(Ways)
Epochs == 1..(MaxRestores + 1)

VARIABLES db,        \* what pg_dump takes: nodes' contents, backup_runs, the claim, the epoch
          files,     \* contents in the blob store
          inflight,  \* uploads past the hook, stored and not yet bound
          copies,    \* the run directories under the destination
          taken,     \* how many directories were named: none is named twice
          lock,      \* who holds the advisory lock
          window,    \* windowOpen
          jobs,      \* runBackup, as each source has it under way
          removals,  \* removeBackupCopy between its checks and its last statement
          moment,    \* the moments of the schedule that have come
          server,    \* where the process stands between its start and its listening
          request,   \* restore-request.json: the run it names
          restoring, \* restoreFrom: the run, who runs it, and whether its blobs are back
          epochFile, \* RESTORE_STATE_FILE
          halted,    \* of restore.ts
          confirmed, \* confirmRestore between its transaction and its file
          history,   \* which restore the database comes from: 0 for none
          served,    \* the epochs devices were answered under, each with its history
          faults

content == <<files, inflight>>
disk == <<copies, taken>>
memory == <<lock, window, jobs, removals, halted, confirmed>>
guard == <<request, restoring, epochFile, history, served>>
vars == <<db, content, disk, memory, moment, server, guard, faults>>

\* A row of backup_runs that has a directory; moment is 0 for a person's.
Row == [status : {"running", "ok", "failed"}, copy : BOOLEAN,
        moment : 0..MaxMoments]
Database == [refs : SUBSET Contents, runs : [Runs -> Row \cup {None}],
             claimed : 0..MaxMoments, epoch : Epochs]
\* A directory under the destination: what its dump holds, the files beside it,
\* and whether its run ended ok.
Copy == [dump : Database, blobs : (SUBSET Contents) \cup {None}, done : BOOLEAN]
Removal == [run : Runs, gone : BOOLEAN]
Restoration == [run : Runs, by : {"boot", "cli"}, blobs : BOOLEAN]

\* Nothing is told from something.
ASSUME NoneIsApart ==
  /\ None \notin Nat /\ \A set \in SUBSET Contents : None # set
  /\ None \notin Row /\ None \notin Copy
  /\ None \notin Removal /\ None \notin Restoration

Stages == {"idle", "ask", "row", "dump", "blobs", "settle", "failed",
           "release", "undone", "check", "sweep"}
Job == [stage : Stages, run : Runs \cup {None}, moment : 0..MaxMoments]
Boot == {"down", "started", "built", "settled", "up"}

TypeOK ==
  /\ db \in Database
  /\ files \subseteq Contents /\ inflight \subseteq Contents
  /\ copies \in [Runs -> Copy \cup {None}]
  /\ taken \in 0..MaxRuns
  /\ lock \in Sources \cup {"free", "collector"}
  /\ window \in BOOLEAN
  /\ jobs \in [Sources -> Job]
  /\ removals \in [Sources -> Removal \cup {None}]
  /\ moment \in 0..MaxMoments
  /\ server \in Boot
  /\ request \in Runs \cup {None}
  /\ restoring \in Restoration \cup {None}
  /\ epochFile \in Epochs \cup {None}
  /\ halted \in BOOLEAN /\ confirmed \in BOOLEAN
  /\ history \in 0..MaxRestores
  /\ served \subseteq Epochs \X (0..MaxRestores)
  /\ faults \in 0..MaxFaults

Idle == [stage |-> "idle", run |-> None, moment |-> 0]

Init ==
  /\ db = [refs |-> {}, runs |-> [r \in Runs |-> None], claimed |-> 0, epoch |-> 1]
  /\ files = {} /\ inflight = {}
  /\ copies = [r \in Runs |-> None] /\ taken = 0
  /\ lock = "free" /\ window = FALSE
  /\ jobs = [s \in Sources |-> Idle]
  /\ removals = [s \in Sources |-> None]
  /\ moment = 0
  /\ server = "down"
  /\ request = None /\ restoring = None /\ epochFile = None
  /\ halted = FALSE /\ confirmed = FALSE
  /\ history = 0 /\ served = {}
  /\ faults = 0

-----------------------------------------------------------------------------
(* Requests and rows.                                                      *)

\* The two onRequest hooks: an ordinary request reaches its handler, and one
\* that is no GET passes the window too.
Serving == server = "up" /\ ~halted
MayWrite == Serving /\ ~window

\* The timers of the collector and the schedule run from the moment they are
\* started, halted or not.
TimersRun == server \in {"built", "settled", "up"}

RowOf(r) == db.runs[r]
IsOk(r) == RowOf(r) # None /\ RowOf(r).status = "ok"
HasCopy(r) == RowOf(r) # None /\ RowOf(r).copy

\* newestCopy: started_at orders runs as their names do.
NewestCopy == {r \in Runs : /\ IsOk(r) /\ HasCopy(r)
                            /\ \A s \in Runs : s > r => ~(IsOk(s) /\ HasCopy(s))}

\* What a change of one row leaves of the database.
WithRow(r, row) == [db EXCEPT !.runs[r] = row]

-----------------------------------------------------------------------------
(* Content, as the routes and the collector change it.                     *)

BeginUpload(c) ==
  /\ MayWrite
  /\ c \notin inflight
  /\ inflight' = inflight \cup {c}
  /\ files' = files \cup {c}
  /\ UNCHANGED <<db, disk, memory, moment, server, guard, faults>>

\* The node that names the upload commits: a window opened meanwhile stops
\* new requests only.
CommitUpload(c) ==
  /\ Serving
  /\ c \in inflight
  /\ inflight' = inflight \ {c}
  /\ db' = [db EXCEPT !.refs = @ \cup {c}]
  /\ UNCHANGED <<files, disk, memory, moment, server, guard, faults>>

\* Nothing names a content any more: a person's delete, or the collector's
\* thinning, which no window stops.
Release(c) ==
  /\ TimersRun
  /\ c \in db.refs
  /\ db' = [db EXCEPT !.refs = @ \ {c}]
  /\ UNCHANGED <<content, disk, memory, moment, server, guard, faults>>

\* Mutant: the collector does not ask whether the lock is free.
CollectAnyway ==
  /\ TimersRun
  /\ lock' = "collector"
  /\ UNCHANGED <<db, content, disk, window, jobs, removals, halted, confirmed,
                 moment, server, guard, faults>>

\* runCollector: a try, and nothing when another holds the lock.
StartCollector ==
  /\ TimersRun
  /\ lock = "free"
  /\ lock' = "collector"
  /\ UNCHANGED <<db, content, disk, window, jobs, removals, halted, confirmed,
                 moment, server, guard, faults>>

\* A file nothing names, nor any upload under way, goes (BlobLifecycle has the
\* two steps and what may fall between them).
SweepFile(c) ==
  /\ lock = "collector"
  /\ c \in files \ (db.refs \cup inflight)
  /\ files' = files \ {c}
  /\ UNCHANGED <<db, inflight, disk, memory, moment, server, guard, faults>>

EndCollector ==
  /\ lock = "collector"
  /\ lock' = "free"
  /\ UNCHANGED <<db, content, disk, window, jobs, removals, halted, confirmed,
                 moment, server, guard, faults>>

-----------------------------------------------------------------------------
(* A run, from the claim or the button to the self-check.                  *)

Now(s, stage) == [jobs EXCEPT ![s].stage = stage]
AtWork(s, stages) == jobs[s].stage \in stages

\* POST /admin/backups; a directory is still to be had within the bound.
RoomForARun == taken + Cardinality({s \in Sources : AtWork(s, {"ask", "row"})}) < MaxRuns

AskForBackup ==
  /\ MayWrite
  /\ AtWork("person", {"idle"})
  /\ RoomForARun
  /\ jobs' = Now("person", "ask")
  /\ UNCHANGED <<db, content, disk, lock, window, removals, halted, confirmed,
                 moment, server, guard, faults>>

\* A moment of the schedule comes, whether or not the server runs.
MomentComes ==
  /\ moment < MaxMoments
  /\ moment' = moment + 1
  /\ UNCHANGED <<db, content, disk, memory, server, guard, faults>>

\* PUT /admin/backups/schedule: what is switched on owes nothing of the past.
SaveSchedule ==
  /\ MayWrite
  /\ db' = [db EXCEPT !.claimed = moment]
  /\ UNCHANGED <<content, disk, memory, moment, server, guard, faults>>

\* Mutant: the moment is run and not written down.
ClaimUnwritten(late) ==
  /\ server \in {"settled", "up"}
  /\ AtWork("schedule", {"idle"}) /\ RoomForARun
  /\ db.claimed < moment
  /\ db' = db
  /\ jobs' = [jobs EXCEPT !["schedule"] = IF late THEN Idle
                ELSE [stage |-> "ask", run |-> None, moment |-> moment]]
  /\ UNCHANGED <<content, disk, lock, window, removals, halted, confirmed,
                 moment, server, guard, faults>>

\* claimDue and takeScheduledBackup: the moment is written down before
\* anything runs, and one that is long past is skipped.
ClaimDue(late) ==
  /\ server \in {"settled", "up"}
  /\ AtWork("schedule", {"idle"}) /\ RoomForARun
  /\ db.claimed < moment
  /\ db' = [db EXCEPT !.claimed = moment]
  /\ jobs' = [jobs EXCEPT !["schedule"] = IF late THEN Idle
                ELSE [stage |-> "ask", run |-> None, moment |-> moment]]
  /\ UNCHANGED <<content, disk, lock, window, removals, halted, confirmed,
                 moment, server, guard, faults>>

\* holdForBackup: the window opens with the lock.
HoldForBackup(s) ==
  /\ AtWork(s, {"ask"})
  /\ lock = "free"
  /\ lock' = s
  /\ window' = TRUE
  /\ jobs' = Now(s, "row")
  /\ UNCHANGED <<db, content, disk, removals, halted, confirmed, moment, server,
                 guard, faults>>

\* The schedule does not wait for the lock, a person's wait runs out: skipped.
SkipRun(s) ==
  /\ AtWork(s, {"ask"})
  /\ lock # "free"
  /\ jobs' = [jobs EXCEPT ![s] = Idle]
  /\ UNCHANGED <<db, content, disk, lock, window, removals, halted, confirmed,
                 moment, server, guard, faults>>

InsertRun(s) ==
  /\ AtWork(s, {"row"})
  /\ taken' = taken + 1
  /\ db' = WithRow(taken', [status |-> "running", copy |-> TRUE,
                            moment |-> jobs[s].moment])
  /\ jobs' = [jobs EXCEPT ![s].stage = "dump", ![s].run = taken']
  /\ UNCHANGED <<content, copies, lock, window, removals, halted, confirmed,
                 moment, server, guard, faults>>

\* The database leg: the dump holds its own run as one that runs.
DumpDatabase(s) ==
  /\ AtWork(s, {"dump"})
  /\ copies' = [copies EXCEPT ![jobs[s].run] =
                  [dump |-> db, blobs |-> None, done |-> FALSE]]
  /\ jobs' = Now(s, "blobs")
  /\ UNCHANGED <<db, content, taken, lock, window, removals, halted, confirmed,
                 moment, server, guard, faults>>

\* The blob leg: while the lock is held files are only added.
CopyBlobs(s) ==
  /\ AtWork(s, {"blobs"})
  /\ copies' = [copies EXCEPT ![jobs[s].run].blobs = files]
  /\ jobs' = Now(s, "settle")
  /\ UNCHANGED <<db, content, taken, lock, window, removals, halted, confirmed,
                 moment, server, guard, faults>>

\* The row ends ok.
SettleRun(s) ==
  /\ AtWork(s, {"settle"})
  /\ db' = WithRow(jobs[s].run, [RowOf(jobs[s].run) EXCEPT !.status = "ok"])
  /\ copies' = [copies EXCEPT ![jobs[s].run].done = TRUE]
  /\ jobs' = Now(s, "release")
  /\ UNCHANGED <<content, taken, lock, window, removals, halted, confirmed,
                 moment, server, guard, faults>>

\* A leg or a statement throws.
LegFails(s) ==
  /\ AtWork(s, {"dump", "blobs", "settle"})
  /\ faults < MaxFaults
  /\ faults' = faults + 1
  /\ jobs' = Now(s, "failed")
  /\ UNCHANGED <<db, content, disk, lock, window, removals, halted, confirmed,
                 moment, server, guard>>

RecordFailure(s) ==
  /\ AtWork(s, {"failed"})
  /\ db' = WithRow(jobs[s].run, [RowOf(jobs[s].run) EXCEPT !.status = "failed"])
  /\ jobs' = Now(s, "undone")
  /\ UNCHANGED <<content, disk, lock, window, removals, halted, confirmed,
                 moment, server, guard, faults>>

\* finally: the window shuts and the lock is free, however the run ended.
ReleaseLock(s) ==
  /\ AtWork(s, {"release", "undone"})
  /\ window' = FALSE /\ lock' = "free"
  /\ jobs' = IF AtWork(s, {"release"}) THEN Now(s, "check") ELSE [jobs EXCEPT ![s] = Idle]
  /\ UNCHANGED <<db, content, disk, removals, halted, confirmed, moment, server,
                 guard, faults>>

\* The self-check, outside the window: what it finds is written on the row and
\* decides nothing; a scheduled run goes on to the old copies.
SelfCheck(s) ==
  /\ AtWork(s, {"check"})
  /\ jobs' = IF s = "schedule" THEN Now(s, "sweep") ELSE [jobs EXCEPT ![s] = Idle]
  /\ UNCHANGED <<db, content, disk, lock, window, removals, halted, confirmed,
                 moment, server, guard, faults>>

-----------------------------------------------------------------------------
(* Copies go.                                                              *)

\* The scheduled copies past the last Keep.
PastKeep ==
  LET scheduled == {r \in Runs : IsOk(r) /\ HasCopy(r) /\ RowOf(r).moment > 0}
  IN {r \in scheduled : Cardinality({t \in scheduled : t > r}) >= Keep}

\* removeBackupCopy refuses a run that runs, one whose copy is gone, the newest.
Removable(r) == HasCopy(r) /\ RowOf(r).status # "running" /\ r \notin NewestCopy

BeginRemoval(s, r) ==
  /\ removals[s] = None
  /\ Removable(r)
  /\ removals' = [removals EXCEPT ![s] = [run |-> r, gone |-> FALSE]]
  /\ UNCHANGED <<db, content, disk, lock, window, jobs, halted, confirmed, moment,
                 server, guard, faults>>

\* DELETE /admin/backups/:id.
AskForRemoval(r) == MayWrite /\ BeginRemoval("person", r)

\* sweepScheduledCopies, after a scheduled run that ended ok.
SweepCopy(r) == /\ AtWork("schedule", {"sweep"})
                /\ r \in PastKeep
                /\ BeginRemoval("schedule", r)

\* The directory first, the row after it.
RemoveDirectory(s) ==
  /\ removals[s] # None /\ ~removals[s].gone
  /\ copies' = [copies EXCEPT ![removals[s].run] = None]
  /\ removals' = [removals EXCEPT ![s].gone = TRUE]
  /\ UNCHANGED <<db, content, taken, lock, window, jobs, halted, confirmed, moment,
                 server, guard, faults>>

ClearDestination(s) ==
  /\ removals[s] # None /\ removals[s].gone
  /\ db' = WithRow(removals[s].run, [RowOf(removals[s].run) EXCEPT !.copy = FALSE])
  /\ removals' = [removals EXCEPT ![s] = None]
  /\ UNCHANGED <<content, disk, lock, window, jobs, halted, confirmed, moment,
                 server, guard, faults>>

EndSweep ==
  /\ AtWork("schedule", {"sweep"})
  /\ removals["schedule"] = None
  /\ \A r \in PastKeep : ~Removable(r)
  /\ jobs' = [jobs EXCEPT !["schedule"] = Idle]
  /\ UNCHANGED <<db, content, disk, lock, window, removals, halted, confirmed,
                 moment, server, guard, faults>>

-----------------------------------------------------------------------------
(* A restore: asked for, carried out on the way up, noticed, confirmed.    *)

\* The bound: the next restore is one of this way.
ComesBy(way) == history < MaxRestores /\ Ways[history + 1] = way

\* POST /admin/backups/:id/restore: the request is written and the process
\* goes soon after.
AskForRestore(r) ==
  /\ MayWrite
  /\ IsOk(r) /\ HasCopy(r)
  /\ ComesBy("asked")
  /\ request' = r
  /\ UNCHANGED <<db, content, disk, memory, moment, server, restoring, epochFile,
                 history, served, faults>>

\* The process ends: stopped, or killed where it stands.  A file restored by
\* halves is put back by the next attempt.
Stop ==
  /\ server # "down"
  /\ request # None \/ faults < MaxFaults
  /\ faults' = IF request # None THEN faults ELSE faults + 1
  /\ server' = "down"
  /\ inflight' = {}
  /\ lock' = "free" /\ window' = FALSE
  /\ jobs' = [s \in Sources |-> Idle]
  /\ removals' = [s \in Sources |-> None]
  /\ halted' = FALSE /\ confirmed' = FALSE
  /\ restoring' = None
  /\ UNCHANGED <<db, files, disk, moment, request, epochFile, history, served>>

\* The boot reads the request and clears it before it is tried.
Start ==
  /\ server = "down" /\ restoring = None
  /\ server' = "started"
  /\ request' = None
  /\ restoring' = IF request = None THEN None
                  ELSE [run |-> request, by |-> "boot", blobs |-> FALSE]
  /\ UNCHANGED <<db, content, disk, memory, moment, epochFile, history, served, faults>>

\* The operator's command, with the server stopped, on a copy that was good.
RestoreByHand(r) ==
  /\ server = "down" /\ restoring = None
  /\ ComesBy("hand")
  /\ copies[r] # None /\ copies[r].done
  /\ restoring' = [run |-> r, by |-> "cli", blobs |-> FALSE]
  /\ UNCHANGED <<db, content, disk, memory, moment, server, request, epochFile,
                 history, served, faults>>

\* restoreFrom: refused without both halves; the blobs go into the store first.
RestoreBlobs ==
  /\ restoring # None /\ ~restoring.blobs
  /\ IF copies[restoring.run] = None
     THEN restoring' = None /\ UNCHANGED files
     ELSE /\ restoring' = [restoring EXCEPT !.blobs = TRUE]
          /\ files' = files \cup copies[restoring.run].blobs
  /\ UNCHANGED <<db, inflight, disk, memory, moment, server, request, epochFile,
                 history, served, faults>>

\* pg_restore: what the dump holds, the epoch and the claim included.
LoadDatabase ==
  /\ restoring # None /\ restoring.blobs
  /\ db' = copies[restoring.run].dump
  /\ history' = history + 1
  /\ restoring' = None
  /\ UNCHANGED <<content, disk, memory, moment, server, request, epochFile, served, faults>>

\* pg_restore fails before it changes anything: reported, and the boot goes on.
LoadFails ==
  /\ restoring # None /\ restoring.blobs
  /\ restoring' = None
  /\ UNCHANGED <<db, content, disk, memory, moment, server, request, epochFile,
                 history, served, faults>>

\* Mutant: one more than the restored database has.
EpochAfterDatabase == db.epoch + 1

\* Mutant: both numbers are counted.
EpochOfBoth == db.epoch + (IF epochFile = None THEN 0 ELSE epochFile) + 1

\* Above every epoch the database or the file remembers.
NextEpoch ==
  LET known == IF epochFile = None THEN 0 ELSE epochFile
  IN (IF known > db.epoch THEN known ELSE db.epoch) + 1

\* The third step of docs/08, which the operator takes or forgets.
RaiseByHand ==
  /\ server = "down" /\ restoring = None
  /\ db.epoch <= history /\ NextEpoch \in Epochs
  /\ db' = [db EXCEPT !.epoch = NextEpoch]
  /\ UNCHANGED <<content, disk, memory, moment, server, guard, faults>>

\* restoreStatus: the database is behind the file.
Pending == epochFile # None /\ db.epoch < epochFile

\* ensureSchema, then buildApp with its one look at the epochs.
BuildApp ==
  /\ server = "started" /\ restoring = None
  /\ server' = "built"
  /\ halted' = Pending
  /\ UNCHANGED <<db, content, disk, lock, window, jobs, removals, confirmed, moment,
                 guard, faults>>

\* A row that runs belongs to a process that is gone.
SettleInterruptedRuns ==
  /\ server = "built"
  /\ server' = "settled"
  /\ db' = [db EXCEPT !.runs = [r \in Runs |->
              IF RowOf(r) # None /\ RowOf(r).status = "running"
              THEN [RowOf(r) EXCEPT !.status = "failed"] ELSE RowOf(r)]]
  /\ UNCHANGED <<content, disk, memory, moment, guard, faults>>

\* The file is brought up to the database unless a restore waits, then listen.
Listen ==
  /\ server = "settled"
  /\ server' = "up"
  /\ epochFile' = IF Pending THEN epochFile ELSE db.epoch
  /\ served' = IF halted THEN served ELSE served \cup {<<db.epoch, history>>}
  /\ UNCHANGED <<db, content, disk, memory, moment, request, restoring, history, faults>>

\* POST /admin/restore/confirm, which the halt leaves open: the transaction...
ConfirmRestore ==
  /\ server = "up" /\ ~window /\ ~confirmed
  /\ Pending
  /\ db' = [db EXCEPT !.epoch = NextEpoch]
  /\ confirmed' = TRUE
  /\ UNCHANGED <<content, disk, lock, window, jobs, removals, halted, moment, server,
                 guard, faults>>

\* ...and the file and the flag after it.
FinishConfirm ==
  /\ confirmed
  /\ confirmed' = FALSE
  /\ epochFile' = db.epoch
  /\ halted' = FALSE
  /\ served' = served \cup {<<db.epoch, history>>}
  /\ UNCHANGED <<db, content, disk, lock, window, jobs, removals, moment, server,
                 request, restoring, history, faults>>

-----------------------------------------------------------------------------
JobStep(s) ==
  \/ HoldForBackup(s) \/ SkipRun(s) \/ InsertRun(s) \/ DumpDatabase(s)
  \/ CopyBlobs(s) \/ SettleRun(s) \/ RecordFailure(s) \/ ReleaseLock(s)
  \/ SelfCheck(s)

Next ==
  \/ \E c \in Contents :
       BeginUpload(c) \/ CommitUpload(c) \/ Release(c) \/ SweepFile(c)
  \/ StartCollector \/ EndCollector
  \/ AskForBackup \/ MomentComes \/ SaveSchedule
  \/ \E late \in BOOLEAN : ClaimDue(late)
  \/ \E s \in Sources :
       JobStep(s) \/ LegFails(s) \/ RemoveDirectory(s)
       \/ ClearDestination(s)
  \/ \E r \in Runs :
       AskForRemoval(r) \/ SweepCopy(r) \/ AskForRestore(r)
       \/ RestoreByHand(r)
  \/ EndSweep \/ Stop \/ Start \/ RestoreBlobs \/ LoadDatabase \/ LoadFails
  \/ RaiseByHand \/ BuildApp \/ SettleInterruptedRuns \/ Listen
  \/ ConfirmRestore \/ FinishConfirm

Spec == Init /\ [][Next]_vars

-----------------------------------------------------------------------------
(* Properties.                                                             *)

\* The promise of DurableStore, whatever meets whatever: the good copies are
\* the directories whose run ended ok.  Dumping first, holding the collector
\* off, settling last and restoring the files first (runBackup, restoreFrom)
\* are what it takes.
Good(r) == copies[r] # None /\ copies[r].done
Kept == [r \in Runs |-> IF Good(r)
           THEN {[refs |-> copies[r].dump.refs, blobs |-> copies[r].blobs]} ELSE {}]
Durable == INSTANCE DurableStore WITH refs <- db.refs, kept <- Kept
ImplementsDurable == Durable!Spec

\* A moment of the schedule is answered by one run at most, through crashes
\* in the middle of one and restores that bring an older claim back (claimDue).
OneRunAMoment ==
  \A r, s \in Runs :
    /\ RowOf(r) # None /\ RowOf(s) # None
    /\ RowOf(r).moment = RowOf(s).moment /\ RowOf(r).moment > 0
    => r = s

\* A confirmed restore goes on under an epoch no device was ever answered
\* under, after any restores, by hand or asked for, and a crash between the
\* confirmation and its file (confirmRestore).
ConfirmedEpochIsNew ==
  [][confirmed' /\ ~confirmed => \A e \in served : e[1] < db'.epoch]_vars
=============================================================================
