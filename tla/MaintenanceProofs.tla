-------------------------- MODULE MaintenanceProofs --------------------------
(***************************************************************************)
(* Proofs about module Maintenance, for any number of runs, moments,       *)
(* restores, crashes and contents: every copy called good can be restored  *)
(* from, the schedule answers a moment once, and a confirmed restore goes  *)
(* on under an epoch nobody was answered under.                            *)
(*                                                                         *)
(* The database is not one history: a restore brings an old one back.      *)
(* What the invariant says of it, it therefore says of every dump as well. *)
(***************************************************************************)
EXTENDS Maintenance, FiniteSetTheorems, SequenceTheorems, TLAPS

Holding == {"row", "dump", "blobs", "settle", "failed", "release", "undone"}
WithRun == {"dump", "blobs", "settle", "failed", "release", "undone"}

\* What a process that is down, or on its way up, has under way: nothing.
QuietBeforeUp ==
  /\ server \in {"down", "started"} =>
       /\ inflight = {} /\ lock = "free" /\ ~window /\ ~halted
       /\ \A s \in Sources : jobs[s] = Idle /\ removals[s] = None
  /\ server = "built" =>
       \A s \in Sources : jobs[s] = Idle /\ removals[s] = None
  /\ server \in {"built", "settled"} => halted = Pending
  /\ server # "up" => ~confirmed
  /\ restoring # None => server \in {"down", "started"} /\ request = None

\* The sources that may still ask for a directory.
Asking == {s \in Sources : AtWork(s, {"ask", "row"})}

\* A run between its row and its release holds the lock, and there is a
\* directory for every run that may still ask for one.
OneRunHolds ==
  /\ \A s \in Sources : jobs[s].stage \in Holding => lock = s
  /\ taken + Cardinality(Asking) <= MaxRuns

\* What is under way between a row and its directory, at each stage of a run...
RunNamed(s) ==
  jobs[s].stage \in WithRun =>
     /\ jobs[s].run \in 1..taken
     /\ RowOf(jobs[s].run) \in Row
     /\ copies[jobs[s].run] # None => ~copies[jobs[s].run].done \/ jobs[s].stage = "release"
RunRuns(s) ==
  jobs[s].stage \in {"dump", "blobs", "settle"} =>
     /\ RowOf(jobs[s].run).status = "running"
     /\ request # jobs[s].run
RunIsNew(s) ==
  jobs[s].stage = "dump" =>
     /\ copies[jobs[s].run] = None
     /\ \A r \in Runs : copies[r] # None => copies[r].dump.runs[jobs[s].run] = None
RunHasDump(s) ==
  jobs[s].stage = "blobs" =>
     /\ copies[jobs[s].run] # None
     /\ copies[jobs[s].run].dump.refs \subseteq files
RunHasFiles(s) ==
  jobs[s].stage = "settle" =>
     /\ copies[jobs[s].run] # None
     /\ copies[jobs[s].run].blobs # None
     /\ copies[jobs[s].run].dump.refs \subseteq copies[jobs[s].run].blobs
\* ...and while a copy goes.
RemovalIsOfEnded(s) ==
  removals[s] # None =>
     /\ removals[s].run \in 1..taken
     /\ RowOf(removals[s].run) \in Row
     /\ RowOf(removals[s].run).status # "running"
RunsUnderWay ==
  \A s \in Sources : /\ RunNamed(s) /\ RunRuns(s) /\ RunIsNew(s) /\ RunHasDump(s)
                     /\ RunHasFiles(s) /\ RemovalIsOfEnded(s)

\* The files: what is named is there, what is uploading is there, a copy that
\* is done holds what its dump names, and a restore puts files back first.
FilesAreThere ==
  /\ db.refs \subseteq files /\ inflight \subseteq files
  /\ \A r \in Runs : Good(r) => /\ copies[r].blobs # None
                                /\ copies[r].dump.refs \subseteq copies[r].blobs
  /\ \A r \in Runs : r > taken => copies[r] = None
  /\ request # None => /\ request <= taken
                       /\ copies[request] # None => Good(request)
  /\ restoring # None =>
       /\ copies[restoring.run] # None => Good(restoring.run)
       /\ restoring.blobs => /\ copies[restoring.run] # None
                             /\ copies[restoring.run].blobs \subseteq files

\* Nothing is restored beyond the bound, whoever asks.
RestoresAreBounded ==
  /\ request # None => ComesBy("asked")
  /\ restoring # None => history < MaxRestores

\* What holds of every database, the one in use and the ones in the copies:
\* its runs have names that were taken, moments that came, one run a moment,
\* and those that ended ok have a good copy or none.
SoundWith(d, dirs, names, now) ==
  /\ \A r \in Runs : d.runs[r] # None =>
       /\ r <= names /\ d.runs[r].moment <= d.claimed
       /\ d.runs[r].status = "ok" => (dirs[r] # None => dirs[r].done)
       /\ \A s \in Runs : d.runs[s] # None /\ d.runs[s].moment = d.runs[r].moment
                           /\ d.runs[r].moment > 0 => r = s
  /\ d.claimed <= now
Sound(d) == SoundWith(d, copies, taken, moment)

Databases == /\ Sound(db)
             /\ \A r \in Runs : copies[r] # None => Sound(copies[r].dump)

\* A moment that is claimed and has no row yet is later than every row.
ClaimIsNew ==
  /\ jobs["person"].moment = 0
  /\ jobs["schedule"].stage \in {"ask", "row"} =>
       /\ 0 < jobs["schedule"].moment /\ jobs["schedule"].moment <= db.claimed
       /\ \A r \in Runs : RowOf(r) # None => RowOf(r).moment < jobs["schedule"].moment

\* An epoch anybody remembers is at most one more than the restores there were,
\* and no more than these while the database is behind it.
Counted(e) == e <= history + 1 /\ (db.epoch < e => e <= history)

EpochsAreCounted ==
  /\ Counted(db.epoch)
  /\ epochFile # None => Counted(epochFile)
  /\ \A r \in Runs : copies[r] # None => Counted(copies[r].dump.epoch)
  /\ epochFile = None => served = {}
  /\ epochFile # None => \A e \in served : e[1] <= epochFile
  /\ confirmed => epochFile # None /\ epochFile < db.epoch

IInv ==
  /\ TypeOK /\ QuietBeforeUp /\ OneRunHolds /\ RunsUnderWay /\ FilesAreThere
  /\ RestoresAreBounded /\ Databases /\ ClaimIsNew /\ EpochsAreCounted

-----------------------------------------------------------------------------
(* The types.                                                              *)

LEMMA BoundsType ==
    /\ MaxRuns \in Nat /\ MaxMoments \in Nat /\ MaxFaults \in Nat
    /\ MaxRestores \in Nat /\ 1 \in Epochs /\ Epochs \subseteq Nat /\ Runs \subseteq Nat
BY BoundsAreNaturals, WaysAreKnown, LenProperties DEF MaxRestores, Epochs, Runs

LEMMA InitType == Init => TypeOK
<1> SUFFICES ASSUME Init PROVE TypeOK
  OBVIOUS
<1>1. db \in Database
  <2>1. [r \in Runs |-> None] \in [Runs -> Row \cup {None}]
    OBVIOUS
  <2> QED  BY <2>1, BoundsType DEF Init, Database
<1>2. Idle \in Job
  BY BoundsType DEF Idle, Job, Stages
<1>3. copies \in [Runs -> Copy \cup {None}] /\ jobs \in [Sources -> Job]
  BY <1>2 DEF Init
<1>4. /\ removals \in [Sources -> Removal \cup {None}]
      /\ served \subseteq Epochs \X (0..MaxRestores)
  BY DEF Init
<1>5. lock \in Sources \cup {"free", "collector"} /\ server \in Boot
  BY DEF Init, Boot
<1>6. /\ taken \in 0..MaxRuns /\ moment \in 0..MaxMoments /\ history \in 0..MaxRestores
      /\ faults \in 0..MaxFaults
  BY BoundsType DEF Init
<1> QED  BY <1>1, <1>3, <1>4, <1>5, <1>6 DEF Init, TypeOK

\* What other rows leave of the database: all but the rows.
LEMMA RowsReplaced ==
    ASSUME NEW d \in Database, NEW rows \in [Runs -> Row \cup {None}]
    PROVE  /\ [d EXCEPT !.runs = rows] \in Database
           /\ [d EXCEPT !.runs = rows].refs = d.refs
           /\ [d EXCEPT !.runs = rows].claimed = d.claimed
           /\ [d EXCEPT !.runs = rows].epoch = d.epoch
           /\ [d EXCEPT !.runs = rows].runs = rows
<1>1. d = [refs |-> d.refs, runs |-> d.runs, claimed |-> d.claimed, epoch |-> d.epoch]
  BY DEF Database
<1>2. [d EXCEPT !.runs = rows] =
        [refs |-> d.refs, runs |-> rows, claimed |-> d.claimed, epoch |-> d.epoch]
  BY <1>1
<1>3. d.refs \in SUBSET Contents /\ d.claimed \in 0..MaxMoments /\ d.epoch \in Epochs
  BY DEF Database
<1>4. [d EXCEPT !.runs = rows] \in Database
  BY <1>2, <1>3 DEF Database
<1> QED  BY <1>2, <1>4

\* The rows of a database, and a change of one of them.
LEMMA RowWritten ==
    ASSUME db \in Database, NEW r \in Runs, NEW row \in Row
    PROVE  /\ db.runs \in [Runs -> Row \cup {None}]
           /\ WithRow(r, row) \in Database
           /\ WithRow(r, row).refs = db.refs
           /\ WithRow(r, row).claimed = db.claimed
           /\ WithRow(r, row).epoch = db.epoch
           /\ WithRow(r, row).runs = [db.runs EXCEPT ![r] = row]
<1> DEFINE rows == [db.runs EXCEPT ![r] = row]
<1>1. db.runs \in [Runs -> Row \cup {None}]
  BY DEF Database
<1>2. rows \in [Runs -> Row \cup {None}]
  BY <1>1
<1>3. WithRow(r, row) = [db EXCEPT !.runs = rows]
  BY DEF WithRow
<1> HIDE DEF rows
<1>4. /\ WithRow(r, row) \in Database
      /\ WithRow(r, row).refs = db.refs
      /\ WithRow(r, row).claimed = db.claimed
      /\ WithRow(r, row).epoch = db.epoch
      /\ WithRow(r, row).runs = rows
  BY <1>2, <1>3, RowsReplaced
<1> QED  BY <1>1, <1>4 DEF rows

\* The row a job or a removal goes back to, with another status or no copy.
LEMMA RowChanged ==
    ASSUME NEW row \in Row, NEW status \in {"running", "ok", "failed"}
    PROVE  /\ [row EXCEPT !.status = status] \in Row
           /\ [row EXCEPT !.status = status].moment = row.moment
           /\ [row EXCEPT !.status = status].status = status
           /\ [row EXCEPT !.copy = FALSE] \in Row
           /\ [row EXCEPT !.copy = FALSE].moment = row.moment
           /\ [row EXCEPT !.copy = FALSE].status = row.status
BY DEF Row

\* A run is where its source has it, and has its row.
LEMMA RunOfJob ==
    ASSUME TypeOK, RunsUnderWay, NEW s \in Sources
    PROVE  /\ jobs[s].stage \in WithRun =>
                jobs[s].run \in Runs /\ RowOf(jobs[s].run) \in Row
           /\ removals[s] # None =>
                removals[s].run \in Runs /\ RowOf(removals[s].run) \in Row
BY BoundsType DEF TypeOK, RunsUnderWay, RunNamed, RemovalIsOfEnded, Runs

\* What a start makes of the rows.
Settled == [r \in Runs |-> IF RowOf(r) # None /\ RowOf(r).status = "running"
                           THEN [RowOf(r) EXCEPT !.status = "failed"] ELSE RowOf(r)]

LEMMA RowsSettled ==
    ASSUME db \in Database
    PROVE  /\ Settled \in [Runs -> Row \cup {None}]
           /\ [db EXCEPT !.runs = Settled] \in Database
           /\ [db EXCEPT !.runs = Settled].refs = db.refs
           /\ [db EXCEPT !.runs = Settled].claimed = db.claimed
           /\ [db EXCEPT !.runs = Settled].epoch = db.epoch
           /\ [db EXCEPT !.runs = Settled].runs = Settled
           /\ \A r \in Runs : (Settled[r] = None <=> RowOf(r) = None)
           /\ \A r \in Runs : Settled[r] # None =>
                /\ Settled[r].moment = RowOf(r).moment
                /\ Settled[r].status # "running"
                /\ Settled[r].status = "ok" => RowOf(r).status = "ok"
<1>1. ASSUME NEW r \in Runs
      PROVE  /\ Settled[r] \in Row \cup {None}
             /\ Settled[r] = None <=> RowOf(r) = None
             /\ Settled[r] # None =>
                /\ Settled[r].moment = RowOf(r).moment
                /\ Settled[r].status # "running"
                /\ Settled[r].status = "ok" => RowOf(r).status = "ok"
  <2>1. RowOf(r) \in Row \cup {None}
    BY DEF RowOf, Database
  <2>2. CASE RowOf(r) # None /\ RowOf(r).status = "running"
    <3> DEFINE row == [RowOf(r) EXCEPT !.status = "failed"]
    <3>1. RowOf(r) \in Row /\ Settled[r] = row
      BY <2>1, <2>2 DEF Settled
    <3>2. row \in Row /\ row.moment = RowOf(r).moment /\ row.status = "failed"
      BY <3>1, RowChanged
    <3> HIDE DEF row
    <3> QED  BY <2>2, <3>1, <3>2, NoneIsApart
  <2>3. CASE ~(RowOf(r) # None /\ RowOf(r).status = "running")
    BY <2>1, <2>3 DEF Settled
  <2> QED  BY <2>2, <2>3
<1>2. Settled \in [Runs -> Row \cup {None}]
  BY <1>1 DEF Settled
<1> DEFINE new == [db EXCEPT !.runs = Settled]
<1>3. /\ new \in Database /\ new.refs = db.refs /\ new.claimed = db.claimed
      /\ new.epoch = db.epoch /\ new.runs = Settled
  BY ONLY <1>2, RowsReplaced, db \in Database
<1> QED  BY <1>1, <1>2, <1>3

\* What a source does to the count of those that may still ask.
LEMMA AskingCounts ==
    /\ Cardinality(Asking) \in Nat
    /\ \A s \in Asking : Cardinality(Asking) >= 1
                        /\ Cardinality(Asking \ {s}) = Cardinality(Asking) - 1
    /\ \A s \in Sources \ Asking : Cardinality(Asking \cup {s}) = Cardinality(Asking) + 1
    /\ \A few \in SUBSET Asking : Cardinality(few) \in Nat
                                      /\ Cardinality(few) <= Cardinality(Asking)
<1>1. IsFiniteSet(Sources)
  <2>1. IsFiniteSet({"person"}) /\ Sources = {"person"} \cup {"schedule"}
    BY FS_Singleton DEF Sources
  <2> QED  BY <2>1, FS_AddElement
<1>2. IsFiniteSet(Asking)
  BY <1>1, FS_Subset DEF Asking
<1> QED  BY <1>2, FS_CardinalityType, FS_RemoveElement, FS_AddElement, FS_Subset,
            FS_EmptySet

\* The name an insert takes is one the bound allows.
LEMMA TakenIsARun ==
    ASSUME TypeOK, OneRunHolds, NEW s \in Sources, InsertRun(s)
    PROVE  taken' = taken + 1 /\ taken' \in Runs
<1>1. s \in Asking
  BY DEF InsertRun, Asking, AtWork
<1>2. Cardinality(Asking) \in Nat /\ Cardinality(Asking) >= 1
  BY <1>1, AskingCounts
<1>3. taken \in Nat /\ taken + 1 <= MaxRuns
  BY <1>2, BoundsType DEF OneRunHolds, TypeOK
<1> QED  BY <1>3, BoundsType DEF InsertRun, Runs

\* Every step leaves a database where one is kept.
LEMMA DatabaseStep ==
    ASSUME IInv, Next
    PROVE  db' \in Database
<1> USE DEF IInv, TypeOK
<1>1. ASSUME NEW s \in Sources, InsertRun(s) PROVE db' \in Database
  <2>1. taken' \in Runs
    BY <1>1, TakenIsARun
  <2>2. [status |-> "running", copy |-> TRUE, moment |-> jobs[s].moment] \in Row
    BY DEF Row, Job
  <2> QED  BY <1>1, <2>1, <2>2, RowWritten DEF InsertRun
<1>2. ASSUME NEW s \in Sources, SettleRun(s) \/ RecordFailure(s) PROVE db' \in Database
  <2>1. jobs[s].run \in Runs /\ RowOf(jobs[s].run) \in Row
    BY <1>2, RunOfJob DEF SettleRun, RecordFailure, AtWork, WithRun
  <2>2. /\ [RowOf(jobs[s].run) EXCEPT !.status = "ok"] \in Row
        /\ [RowOf(jobs[s].run) EXCEPT !.status = "failed"] \in Row
    BY <2>1, RowChanged
  <2>3. CASE SettleRun(s)
    BY <2>1, <2>2, <2>3, RowWritten DEF SettleRun
  <2>4. CASE RecordFailure(s)
    BY <2>1, <2>2, <2>4, RowWritten DEF RecordFailure
  <2> QED  BY <1>2, <2>3, <2>4
<1>3. ASSUME NEW s \in Sources, ClearDestination(s) PROVE db' \in Database
  <2>1. removals[s].run \in Runs /\ RowOf(removals[s].run) \in Row
    BY <1>3, RunOfJob DEF ClearDestination
  <2>2. [RowOf(removals[s].run) EXCEPT !.copy = FALSE] \in Row
    BY <2>1, RowChanged
  <2> QED  BY <1>3, <2>1, <2>2, RowWritten DEF ClearDestination
<1>4. ASSUME NEW c \in Contents, CommitUpload(c) \/ Release(c) PROVE db' \in Database
  BY <1>4 DEF CommitUpload, Release, Database
<1>5. ASSUME SaveSchedule \/ \E late \in BOOLEAN : ClaimDue(late) PROVE db' \in Database
  BY <1>5 DEF SaveSchedule, ClaimDue, Database
<1>6. ASSUME LoadDatabase PROVE db' \in Database
  BY <1>6, NoneIsApart DEF LoadDatabase, Copy, Restoration, FilesAreThere
<1>7. ASSUME RaiseByHand \/ ConfirmRestore PROVE db' \in Database
  <2>1. ASSUME ConfirmRestore PROVE NextEpoch \in Epochs
    <3>1. epochFile # None /\ epochFile \in Epochs /\ db.epoch \in Epochs /\ db.epoch < epochFile
      BY <2>1 DEF ConfirmRestore, Pending, Database
    <3>2. epochFile <= history /\ history \in 0..MaxRestores
      BY <3>1 DEF EpochsAreCounted, Counted
    <3> QED  BY <3>1, <3>2, BoundsType DEF NextEpoch, Epochs
  <2> QED  BY <1>7, <2>1 DEF RaiseByHand, ConfirmRestore, Database
<1>8. ASSUME SettleInterruptedRuns PROVE db' \in Database
  BY <1>8, RowsSettled DEF SettleInterruptedRuns, Settled
<1> HIDE DEF IInv, TypeOK
<1>9. CASE UNCHANGED db
  BY <1>9 DEF IInv, TypeOK
<1> QED
  BY <1>1, <1>2, <1>3, <1>4, <1>5, <1>6, <1>7, <1>8, <1>9
     DEF Next, JobStep, BeginUpload, SweepFile, StartCollector, EndCollector,
         AskForBackup,
         MomentComes, HoldForBackup, SkipRun, DumpDatabase, CopyBlobs, ReleaseLock,
         SelfCheck,
         LegFails, RemoveDirectory, AskForRemoval, SweepCopy, BeginRemoval,
         AskForRestore,
         RestoreByHand, EndSweep, Stop, Start, RestoreBlobs, LoadFails, BuildApp,
         Listen,
         FinishConfirm

\* A copy as its dump leaves it, as its files do, and as its run's end does.
LEMMA CopyOfDatabase ==
    ASSUME NEW d \in Database
    PROVE  [dump |-> d, blobs |-> None, done |-> FALSE] \in Copy
<1>1. None \in (SUBSET Contents) \cup {None}
  OBVIOUS
<1> QED  BY <1>1 DEF Copy

LEMMA CopyChanged ==
    ASSUME NEW c \in Copy, NEW blobs \in SUBSET Contents
    PROVE  /\ [c EXCEPT !.blobs = blobs] \in Copy
           /\ [c EXCEPT !.blobs = blobs].dump = c.dump
           /\ [c EXCEPT !.blobs = blobs].blobs = blobs
           /\ [c EXCEPT !.blobs = blobs].done = c.done
           /\ [c EXCEPT !.done = TRUE] \in Copy
           /\ [c EXCEPT !.done = TRUE].dump = c.dump
           /\ [c EXCEPT !.done = TRUE].blobs = c.blobs
           /\ [c EXCEPT !.done = TRUE].done
BY DEF Copy

\* Every step leaves directories where they are kept.
LEMMA CopiesStep ==
    ASSUME IInv, Next
    PROVE  copies' \in [Runs -> Copy \cup {None}]
<1> USE DEF IInv, TypeOK
<1>1. ASSUME NEW s \in Sources, DumpDatabase(s)
      PROVE  copies' \in [Runs -> Copy \cup {None}]
  <2>1. [dump |-> db, blobs |-> None, done |-> FALSE] \in Copy
    BY CopyOfDatabase
  <2> QED  BY <1>1, <2>1 DEF DumpDatabase
<1>2. ASSUME NEW s \in Sources, CopyBlobs(s) \/ SettleRun(s)
      PROVE  copies' \in [Runs -> Copy \cup {None}]
  <2> DEFINE r == jobs[s].run
  <2>1. r \in Runs /\ copies[r] \in Copy
    BY <1>2, RunOfJob
    DEF CopyBlobs, SettleRun, AtWork, WithRun, RunsUnderWay, RunHasDump, RunHasFiles
  <2>2. [copies[r] EXCEPT !.blobs = files] \in Copy /\ [copies[r] EXCEPT !.done = TRUE] \in Copy
    BY <2>1, CopyChanged
  <2>3. CASE CopyBlobs(s)
    <3>1. copies' = [copies EXCEPT ![r] = [copies[r] EXCEPT !.blobs = files]]
      BY <2>1, <2>3 DEF CopyBlobs
    <3> QED  BY <2>1, <2>2, <3>1
  <2>4. CASE SettleRun(s)
    <3>1. copies' = [copies EXCEPT ![r] = [copies[r] EXCEPT !.done = TRUE]]
      BY <2>1, <2>4 DEF SettleRun
    <3> QED  BY <2>1, <2>2, <3>1
  <2> QED  BY <1>2, <2>3, <2>4
<1>3. ASSUME NEW s \in Sources, RemoveDirectory(s)
      PROVE  copies' \in [Runs -> Copy \cup {None}]
  BY <1>3 DEF RemoveDirectory
<1> HIDE DEF IInv, TypeOK
<1>4. CASE UNCHANGED copies
  BY <1>4 DEF IInv, TypeOK
<1> QED
  BY <1>1, <1>2, <1>3, <1>4
     DEF Next, JobStep, BeginUpload, CommitUpload, Release, SweepFile, StartCollector,
         EndCollector, AskForBackup, MomentComes, SaveSchedule, ClaimDue, HoldForBackup,
         SkipRun, InsertRun, RecordFailure, ReleaseLock, SelfCheck, LegFails,
         ClearDestination, AskForRemoval, SweepCopy, BeginRemoval, AskForRestore,
         RestoreByHand, EndSweep, Stop, Start, RestoreBlobs, LoadDatabase, LoadFails,
         RaiseByHand, BuildApp, SettleInterruptedRuns, Listen, ConfirmRestore,
         FinishConfirm, disk

\* Every step leaves each source where a run or a removal may be.
LEMMA JobsStep ==
    ASSUME IInv, Next
    PROVE  jobs' \in [Sources -> Job] /\ removals' \in [Sources -> Removal \cup {None}]
<1> USE DEF IInv, TypeOK
<1>1. Idle \in Job
  BY BoundsType DEF Idle, Job, Stages
<1>2. ASSUME NEW s \in Sources, NEW stage \in Stages
      PROVE  Now(s, stage) \in [Sources -> Job]
  BY DEF Now, Job
<1>3. ASSUME NEW s \in Sources, InsertRun(s) PROVE jobs' \in [Sources -> Job]
  BY <1>3, TakenIsARun, ZenonT(60) DEF InsertRun, Job, Stages
<1>4. ASSUME NEW late \in BOOLEAN, ClaimDue(late) PROVE jobs' \in [Sources -> Job]
  <2>1. [stage |-> "ask", run |-> None, moment |-> moment] \in Job
    BY DEF Job, Stages
  <2> QED  BY <1>1, <1>4, <2>1 DEF ClaimDue
<1>5. ASSUME Stop
      PROVE  jobs' \in [Sources -> Job] /\ removals' \in [Sources -> Removal \cup {None}]
  BY <1>1, <1>5 DEF Stop
<1>6. ASSUME NEW s \in Sources, NEW r \in Runs, BeginRemoval(s, r)
      PROVE  removals' \in [Sources -> Removal \cup {None}]
  BY <1>6 DEF BeginRemoval, Removal
<1>7. ASSUME NEW s \in Sources, RemoveDirectory(s) \/ ClearDestination(s)
      PROVE  removals' \in [Sources -> Removal \cup {None}]
  BY <1>7, ZenonT(60) DEF RemoveDirectory, ClearDestination, Removal
<1>8. CASE UNCHANGED removals
  <2>1. removals' \in [Sources -> Removal \cup {None}]
    BY <1>8
  <2>2. CASE UNCHANGED jobs
    BY <2>1, <2>2
  <2>3. "person" \in Sources /\ "schedule" \in Sources
    BY DEF Sources
  <2> HIDE DEF IInv, TypeOK
  <2>4. ASSUME NEW s \in Sources, JobStep(s) \/ LegFails(s)
        PROVE  jobs' \in [Sources -> Job]
    <3>1. CASE InsertRun(s)
      BY <1>3, <3>1
    <3>2. CASE SkipRun(s)
      BY <1>1, <3>2 DEF SkipRun, IInv, TypeOK
    <3>3. CASE ReleaseLock(s) \/ SelfCheck(s)
      BY <1>1, <1>2, <3>3 DEF ReleaseLock, SelfCheck, Stages, IInv, TypeOK
    <3> QED
      BY <1>2, <2>4, <3>1, <3>2, <3>3
         DEF JobStep, HoldForBackup, DumpDatabase, CopyBlobs, SettleRun, RecordFailure,
             LegFails, Stages
  <2>5. CASE AskForBackup \/ EndSweep
    BY <1>1, <1>2, <2>3, <2>5, ZenonT(60) DEF AskForBackup, EndSweep, Stages, IInv, TypeOK
  <2> QED
    BY <1>4, <1>5, <2>1, <2>2, <2>4, <2>5
       DEF Next, BeginUpload, CommitUpload, Release, SweepFile, StartCollector,
           EndCollector, MomentComes, SaveSchedule, RemoveDirectory,
           ClearDestination, AskForRemoval, SweepCopy, BeginRemoval, AskForRestore,
           RestoreByHand, Start, RestoreBlobs, LoadDatabase, LoadFails, RaiseByHand,
           BuildApp, SettleInterruptedRuns, Listen, ConfirmRestore, FinishConfirm,
           memory
<1> HIDE DEF IInv, TypeOK
<1>9. CASE UNCHANGED jobs
  <2>1. jobs' \in [Sources -> Job]
    BY <1>9 DEF IInv, TypeOK
  <2>2. CASE \E r \in Runs : AskForRemoval(r) \/ SweepCopy(r)
    BY <1>6, <2>1, <2>2 DEF AskForRemoval, SweepCopy, Sources
  <2> QED
    BY <1>7, <1>8, <2>1, <2>2
       DEF Next, JobStep, BeginUpload, CommitUpload, Release, SweepFile, StartCollector,
           EndCollector, AskForBackup, MomentComes, SaveSchedule, ClaimDue,
           HoldForBackup,
           SkipRun, InsertRun, DumpDatabase, CopyBlobs, SettleRun, RecordFailure,
           ReleaseLock, SelfCheck, LegFails, AskForRestore,
           RestoreByHand, EndSweep, Stop, Start, RestoreBlobs, LoadDatabase, LoadFails,
           RaiseByHand, BuildApp, SettleInterruptedRuns, Listen, ConfirmRestore,
           FinishConfirm, memory
<1> QED
  BY <1>5, <1>8, <1>9
     DEF Next, JobStep, BeginUpload, CommitUpload, Release, SweepFile, StartCollector,
         EndCollector, AskForBackup, MomentComes, SaveSchedule, ClaimDue, HoldForBackup,
         SkipRun, InsertRun, DumpDatabase, CopyBlobs, SettleRun, RecordFailure,
         ReleaseLock, SelfCheck, LegFails, RemoveDirectory,
         ClearDestination, AskForRemoval, SweepCopy, BeginRemoval, AskForRestore,
         RestoreByHand, EndSweep, Start, RestoreBlobs, LoadDatabase, LoadFails,
         RaiseByHand, BuildApp, SettleInterruptedRuns, Listen, ConfirmRestore,
         FinishConfirm, memory

\* The other variables: one step for each that an action sets to more than
\* what it was or a constant of its type.
LEMMA TypeStep ==
    ASSUME IInv, Next
    PROVE  TypeOK'
<1>1. files' \subseteq Contents /\ inflight' \subseteq Contents
  <2> USE DEF IInv, TypeOK
  <2>1. ASSUME RestoreBlobs PROVE files' \subseteq Contents
    <3>1. CASE copies[restoring.run] # None
      <4>1. restoring.run \in Runs /\ copies[restoring.run] \in Copy /\ Good(restoring.run)
        BY <2>1, <3>1 DEF RestoreBlobs, FilesAreThere, Restoration
      <4>2. copies[restoring.run].blobs \subseteq Contents
        BY <4>1 DEF FilesAreThere, Copy
      <4> QED  BY <2>1, <3>1, <4>2 DEF RestoreBlobs
    <3> QED  BY <2>1, <3>1 DEF RestoreBlobs
  <2>2. CASE RestoreBlobs
    BY <2>1, <2>2 DEF RestoreBlobs
  <2> HIDE DEF IInv, TypeOK
  <2>3. CASE \E c \in Contents : BeginUpload(c) \/ CommitUpload(c) \/ SweepFile(c)
    BY <2>3 DEF BeginUpload, CommitUpload, SweepFile, IInv, TypeOK
  <2>4. CASE Stop
    BY <2>4 DEF Stop, IInv, TypeOK
  <2>5. CASE UNCHANGED content
    BY <2>5 DEF content, IInv, TypeOK
  <2> QED
    BY <2>2, <2>3, <2>4, <2>5
       DEF Next, JobStep, Release, StartCollector, EndCollector, AskForBackup,
           MomentComes,
           SaveSchedule, ClaimDue, HoldForBackup, SkipRun, InsertRun, DumpDatabase,
           CopyBlobs, SettleRun, RecordFailure, ReleaseLock, SelfCheck, LegFails,
           RemoveDirectory, ClearDestination, AskForRemoval, SweepCopy, BeginRemoval,
           AskForRestore, RestoreByHand, EndSweep, Start, LoadDatabase, LoadFails,
           RaiseByHand, BuildApp, SettleInterruptedRuns, Listen, ConfirmRestore,
           FinishConfirm
<1>2. taken' \in 0..MaxRuns
  <2>1. ASSUME NEW s \in Sources, InsertRun(s) PROVE taken' \in 0..MaxRuns
    BY <2>1, TakenIsARun, BoundsType DEF Runs, IInv, OneRunHolds
  <2>2. CASE UNCHANGED taken
    BY <2>2 DEF IInv, TypeOK
  <2> QED
    BY <2>1, <2>2
       DEF Next, JobStep, BeginUpload, CommitUpload, Release, SweepFile, StartCollector,
           EndCollector, AskForBackup, MomentComes, SaveSchedule, ClaimDue,
           HoldForBackup,
           SkipRun, DumpDatabase, CopyBlobs, SettleRun, RecordFailure, ReleaseLock,
           SelfCheck, LegFails, RemoveDirectory, ClearDestination, AskForRemoval,
           SweepCopy, BeginRemoval, AskForRestore, RestoreByHand, EndSweep, Stop, Start,
           RestoreBlobs, LoadDatabase, LoadFails, RaiseByHand, BuildApp,
           SettleInterruptedRuns, Listen, ConfirmRestore, FinishConfirm, disk
<1>3. /\ lock' \in Sources \cup {"free", "collector"} /\ window' \in BOOLEAN
      /\ halted' \in BOOLEAN /\ confirmed' \in BOOLEAN /\ server' \in Boot
  <2>1. CASE \E s \in Sources : HoldForBackup(s) \/ ReleaseLock(s)
    BY <2>1 DEF HoldForBackup, ReleaseLock, IInv, TypeOK
  <2>2. CASE StartCollector \/ EndCollector
    BY <2>2 DEF StartCollector, EndCollector, IInv, TypeOK
  <2>3. CASE Stop \/ Start \/ BuildApp
    BY <2>3 DEF Stop, Start, BuildApp, Pending, Boot, memory, IInv, TypeOK
  <2>4. CASE SettleInterruptedRuns \/ Listen
    BY <2>4 DEF SettleInterruptedRuns, Listen, Boot, memory, IInv, TypeOK
  <2>5. CASE ConfirmRestore \/ FinishConfirm
    BY <2>5 DEF ConfirmRestore, FinishConfirm, IInv, TypeOK
  <2>6. CASE UNCHANGED <<lock, window, halted, confirmed, server>>
    BY <2>6 DEF IInv, TypeOK
  <2> QED
    BY <2>1, <2>2, <2>3, <2>4, <2>5, <2>6
       DEF Next, JobStep, BeginUpload, CommitUpload, Release, SweepFile, AskForBackup,
           MomentComes, SaveSchedule, ClaimDue, SkipRun, InsertRun, DumpDatabase,
           CopyBlobs, SettleRun, RecordFailure, SelfCheck, LegFails, RemoveDirectory,
           ClearDestination, AskForRemoval, SweepCopy, BeginRemoval, AskForRestore,
           RestoreByHand, EndSweep, RestoreBlobs, LoadDatabase, LoadFails, RaiseByHand,
           memory
<1>4. moment' \in 0..MaxMoments /\ faults' \in 0..MaxFaults /\ history' \in 0..MaxRestores
  <2>1. CASE MomentComes
    BY <2>1, BoundsType DEF MomentComes, guard, IInv, TypeOK
  <2>2. CASE Stop \/ \E s \in Sources : LegFails(s)
    BY <2>2, BoundsType DEF Stop, LegFails, guard, IInv, TypeOK
  <2>3. CASE LoadDatabase
    BY <2>3, BoundsType DEF LoadDatabase, IInv, TypeOK, RestoresAreBounded
  <2>4. CASE UNCHANGED <<moment, faults, history>>
    BY <2>4 DEF IInv, TypeOK
  <2> QED
    BY <2>1, <2>2, <2>3, <2>4
       DEF Next, JobStep, BeginUpload, CommitUpload, Release, SweepFile, StartCollector,
           EndCollector, AskForBackup, SaveSchedule, ClaimDue, HoldForBackup, SkipRun,
           InsertRun, DumpDatabase, CopyBlobs, SettleRun, RecordFailure, ReleaseLock,
           SelfCheck, RemoveDirectory, ClearDestination, AskForRemoval, SweepCopy,
           BeginRemoval, AskForRestore, RestoreByHand, EndSweep, Start, RestoreBlobs,
           LoadFails, RaiseByHand, BuildApp, SettleInterruptedRuns, Listen,
           ConfirmRestore, FinishConfirm, guard
<1>5. request' \in Runs \cup {None} /\ restoring' \in Restoration \cup {None}
  <2>1. request \in Runs \cup {None} /\ restoring \in Restoration \cup {None}
    BY DEF IInv, TypeOK
  <2>2. CASE \E r \in Runs : AskForRestore(r) \/ RestoreByHand(r)
    <3>1. \A r \in Runs : [run |-> r, by |-> "cli", blobs |-> FALSE] \in Restoration
      BY DEF Restoration
    <3> QED  BY <2>1, <2>2, <3>1 DEF AskForRestore, RestoreByHand
  <2>3. CASE Start \/ RestoreBlobs
    <3>1. \A r \in Runs : [run |-> r, by |-> "boot", blobs |-> FALSE] \in Restoration
      BY DEF Restoration
    <3>2. \A x \in Restoration : [x EXCEPT !.blobs = TRUE] \in Restoration
      BY DEF Restoration
    <3>3. CASE Start
      BY <2>1, <3>1, <3>3 DEF Start
    <3>4. CASE RestoreBlobs
      BY <2>1, <3>2, <3>4 DEF RestoreBlobs
    <3> QED  BY <2>3, <3>3, <3>4
  <2>4. CASE Stop \/ LoadDatabase \/ LoadFails
    BY <2>1, <2>4 DEF Stop, LoadDatabase, LoadFails
  <2>5. CASE UNCHANGED <<request, restoring>>
    BY <2>1, <2>5
  <2> QED
    BY <2>2, <2>3, <2>4, <2>5
       DEF Next, JobStep, BeginUpload, CommitUpload, Release, SweepFile, StartCollector,
           EndCollector, AskForBackup, MomentComes, SaveSchedule, ClaimDue,
           HoldForBackup,
           SkipRun, InsertRun, DumpDatabase, CopyBlobs, SettleRun, RecordFailure,
           ReleaseLock, SelfCheck, LegFails, RemoveDirectory, ClearDestination,
           AskForRemoval, SweepCopy, BeginRemoval, EndSweep, RaiseByHand, BuildApp,
           SettleInterruptedRuns, Listen, ConfirmRestore, FinishConfirm, guard
<1>6. epochFile' \in Epochs \cup {None} /\ served' \subseteq Epochs \X (0..MaxRestores)
  <2>1. db.epoch \in Epochs
    BY DEF IInv, TypeOK, Database
  <2>2. CASE Listen \/ FinishConfirm
    BY <2>1, <2>2 DEF Listen, FinishConfirm, IInv, TypeOK
  <2>3. CASE UNCHANGED <<epochFile, served>>
    BY <2>3 DEF IInv, TypeOK
  <2> QED
    BY <2>2, <2>3
       DEF Next, JobStep, BeginUpload, CommitUpload, Release, SweepFile, StartCollector,
           EndCollector, AskForBackup, MomentComes, SaveSchedule, ClaimDue,
           HoldForBackup,
           SkipRun, InsertRun, DumpDatabase, CopyBlobs, SettleRun, RecordFailure,
           ReleaseLock, SelfCheck, LegFails, RemoveDirectory, ClearDestination,
           AskForRemoval, SweepCopy, BeginRemoval, AskForRestore, RestoreByHand,
           EndSweep,
           Stop, Start, RestoreBlobs, LoadDatabase, LoadFails, RaiseByHand, BuildApp,
           SettleInterruptedRuns, ConfirmRestore, guard
<1> QED
  BY <1>1, <1>2, <1>3, <1>4, <1>5, <1>6, DatabaseStep, CopiesStep, JobsStep DEF TypeOK

-----------------------------------------------------------------------------
(* What a step does to the database.                                       *)

\* A row written leaves the rest of the database, and a run's row has the
\* moment of its job, or keeps its own.
LEMMA RowSteps ==
    ASSUME IInv, NEW s \in Sources,
           InsertRun(s) \/ SettleRun(s) \/ RecordFailure(s) \/ ClearDestination(s)
    PROVE  /\ db'.refs = db.refs /\ db'.claimed = db.claimed /\ db'.epoch = db.epoch
           /\ db.runs \in [Runs -> Row \cup {None}]
           /\ \E r \in Runs, row \in Row :
                /\ db'.runs = [db.runs EXCEPT ![r] = row]
                /\ InsertRun(s) => /\ r = taken' /\ taken' = taken + 1
                                   /\ row.status = "running" /\ row.moment = jobs[s].moment
                /\ ~InsertRun(s) => RowOf(r) \in Row /\ row.moment = RowOf(r).moment
                /\ SettleRun(s) => r = jobs[s].run /\ row.status = "ok"
                /\ RecordFailure(s) => r = jobs[s].run /\ row.status = "failed"
                /\ ClearDestination(s) => r = removals[s].run /\ row.status = RowOf(r).status
<1> DEFINE inserted == [status |-> "running", copy |-> TRUE, moment |-> jobs[s].moment]
           settled == [RowOf(jobs[s].run) EXCEPT !.status = "ok"]
           lost == [RowOf(jobs[s].run) EXCEPT !.status = "failed"]
           cleared == [RowOf(removals[s].run) EXCEPT !.copy = FALSE]
<1>0. db \in Database /\ TypeOK /\ RunsUnderWay /\ OneRunHolds
  BY DEF IInv, TypeOK
<1>1. CASE InsertRun(s)
  <2>1. inserted \in Row /\ inserted.status = "running" /\ inserted.moment = jobs[s].moment
    BY <1>0 DEF TypeOK, Row, Job
  <2>2. taken' = taken + 1 /\ taken' \in Runs
    BY <1>0, <1>1, TakenIsARun
  <2>3. db' = WithRow(taken', inserted)
    BY <1>1 DEF InsertRun
  <2>4. ~SettleRun(s) /\ ~RecordFailure(s)
    BY <1>1 DEF InsertRun, SettleRun, RecordFailure, AtWork
  <2>5. ~ClearDestination(s)
    BY <1>0, <1>1, <2>2 DEF InsertRun, ClearDestination, disk, TypeOK
  <2> HIDE DEF inserted
  <2> QED  BY <1>0, <1>1, <2>1, <2>2, <2>3, <2>4, <2>5, RowWritten
<1>2. CASE SettleRun(s)
  <2>1. jobs[s].run \in Runs /\ RowOf(jobs[s].run) \in Row
    BY <1>0, <1>2, RunOfJob DEF SettleRun, AtWork, WithRun
  <2>2. settled \in Row /\ settled.status = "ok" /\ settled.moment = RowOf(jobs[s].run).moment
    BY <2>1, RowChanged
  <2>3. db' = WithRow(jobs[s].run, settled)
    BY <1>2 DEF SettleRun
  <2>4. ~InsertRun(s) /\ ~RecordFailure(s) /\ ~ClearDestination(s)
    BY <1>0, <1>2
    DEF InsertRun, SettleRun, RecordFailure, ClearDestination, AtWork, TypeOK
  <2> HIDE DEF settled
  <2> QED  BY <1>0, <1>2, <2>1, <2>2, <2>3, <2>4, RowWritten
<1>3. CASE RecordFailure(s)
  <2>1. jobs[s].run \in Runs /\ RowOf(jobs[s].run) \in Row
    BY <1>0, <1>3, RunOfJob DEF RecordFailure, AtWork, WithRun
  <2>2. lost \in Row /\ lost.status = "failed" /\ lost.moment = RowOf(jobs[s].run).moment
    BY <2>1, RowChanged
  <2>3. db' = WithRow(jobs[s].run, lost)
    BY <1>3 DEF RecordFailure
  <2>4. ~InsertRun(s) /\ ~SettleRun(s) /\ ~ClearDestination(s)
    BY <1>0, <1>3
    DEF InsertRun, SettleRun, RecordFailure, ClearDestination, AtWork, TypeOK
  <2> HIDE DEF lost
  <2> QED  BY <1>0, <1>3, <2>1, <2>2, <2>3, <2>4, RowWritten
<1>4. CASE ClearDestination(s)
  <2>1. removals[s].run \in Runs /\ RowOf(removals[s].run) \in Row
    BY <1>0, <1>4, RunOfJob DEF ClearDestination
  <2>2. /\ cleared \in Row /\ cleared.status = RowOf(removals[s].run).status
        /\ cleared.moment = RowOf(removals[s].run).moment
    BY <2>1, RowChanged
  <2>3. db' = WithRow(removals[s].run, cleared)
    BY <1>4 DEF ClearDestination
  <2>4. ~InsertRun(s) /\ ~SettleRun(s) /\ ~RecordFailure(s)
    BY <1>0, <1>1, <1>2, <1>3, <1>4
       DEF InsertRun, SettleRun, RecordFailure, ClearDestination, AtWork, TypeOK
  <2> HIDE DEF cleared
  <2> QED  BY <1>0, <1>4, <2>1, <2>2, <2>3, <2>4, RowWritten
<1> QED  BY <1>1, <1>2, <1>3, <1>4

\* Who changes which of the other fields.
LEMMA FieldsStep ==
    ASSUME IInv, Next
    PROVE  /\ db'.epoch = db.epoch \/ LoadDatabase \/ RaiseByHand \/ ConfirmRestore
           /\ \/ db'.claimed = db.claimed \/ LoadDatabase \/ SaveSchedule
              \/ \E late \in BOOLEAN : ClaimDue(late)
           /\ \/ db'.refs = db.refs \/ LoadDatabase
              \/ \E c \in Contents : CommitUpload(c) \/ Release(c)
<1>0. db \in Database
  BY DEF IInv, TypeOK
<1>1. ASSUME NEW s \in Sources,
             InsertRun(s) \/ SettleRun(s) \/ RecordFailure(s) \/ ClearDestination(s)
      PROVE  db'.refs = db.refs /\ db'.claimed = db.claimed /\ db'.epoch = db.epoch
  BY <1>1, RowSteps
<1>2. ASSUME SettleInterruptedRuns
      PROVE  db'.refs = db.refs /\ db'.claimed = db.claimed /\ db'.epoch = db.epoch
  BY <1>0, <1>2, RowsSettled DEF SettleInterruptedRuns, Settled
<1>3. ASSUME NEW c \in Contents, CommitUpload(c) \/ Release(c)
      PROVE  db'.claimed = db.claimed /\ db'.epoch = db.epoch
  BY <1>0, <1>3 DEF CommitUpload, Release, Database
<1>4. ASSUME SaveSchedule \/ \E late \in BOOLEAN : ClaimDue(late)
      PROVE  db'.refs = db.refs /\ db'.epoch = db.epoch
  BY <1>0, <1>4 DEF SaveSchedule, ClaimDue, Database
<1>5. ASSUME RaiseByHand \/ ConfirmRestore
      PROVE  db'.refs = db.refs /\ db'.claimed = db.claimed
  BY <1>0, <1>5 DEF RaiseByHand, ConfirmRestore, Database
<1>6. CASE UNCHANGED db
  BY <1>6
<1> QED
  BY <1>1, <1>2, <1>3, <1>4, <1>5, <1>6
     DEF Next, JobStep, BeginUpload, SweepFile, StartCollector, EndCollector,
         AskForBackup, MomentComes, HoldForBackup, SkipRun, DumpDatabase, CopyBlobs,
         ReleaseLock, SelfCheck, LegFails, RemoveDirectory, AskForRemoval, SweepCopy,
         BeginRemoval, AskForRestore, RestoreByHand, EndSweep, Stop, Start,
         RestoreBlobs,
         LoadFails, BuildApp, Listen, FinishConfirm

-----------------------------------------------------------------------------
(* The parts of the invariant.                                             *)

LEMMA InitParts == Init => IInv
<1> SUFFICES ASSUME Init PROVE IInv
  OBVIOUS
<1>1. TypeOK
  BY InitType
<1>2. /\ \A s \in Sources : jobs[s] = Idle /\ removals[s] = None
      /\ \A r \in Runs : copies[r] = None /\ RowOf(r) = None
      /\ "person" \in Sources /\ "schedule" \in Sources
  BY DEF Init, RowOf, Sources
<1>3. QuietBeforeUp
  BY <1>2 DEF Init, QuietBeforeUp
<1>4. OneRunHolds
  <2>1. Asking = {}
    BY <1>2 DEF Asking, AtWork, Idle
  <2> QED  BY <1>2, <2>1, FS_EmptySet, BoundsType DEF Init, OneRunHolds, Idle, Holding
<1>5. RunsUnderWay
  BY <1>2
  DEF RunsUnderWay, RunNamed, RunRuns, RunIsNew, RunHasDump, RunHasFiles,
      RemovalIsOfEnded, Idle, WithRun
<1>6. FilesAreThere /\ RestoresAreBounded
  BY <1>2 DEF Init, FilesAreThere, RestoresAreBounded, Good
<1>7. Databases
  BY <1>2, BoundsType DEF Init, Databases, Sound, SoundWith, RowOf
<1>8. ClaimIsNew
  BY <1>2 DEF Idle, ClaimIsNew
<1>9. EpochsAreCounted
  BY <1>2 DEF Init, EpochsAreCounted, Counted
<1> QED  BY <1>1, <1>3, <1>4, <1>5, <1>6, <1>7, <1>8, <1>9 DEF IInv

\* Only a process that is up has requests, and only one that has started its
\* timers has runs: what goes on when it ends goes with it.
LEMMA QuietStep ==
    ASSUME IInv, Next
    PROVE  QuietBeforeUp'
<1> USE DEF QuietBeforeUp
<1>0. TypeOK /\ QuietBeforeUp
  BY DEF IInv
<1>1. server \in {"built", "settled"} => db'.epoch = db.epoch
  BY <1>0, FieldsStep DEF LoadDatabase, RaiseByHand, ConfirmRestore
<1>2. CASE \E c \in Contents : BeginUpload(c) \/ CommitUpload(c)
  BY <1>0, <1>2 DEF BeginUpload, CommitUpload, MayWrite, Serving, memory, guard
<1>3. CASE StartCollector \/ EndCollector
  BY <1>0, <1>3 DEF StartCollector, EndCollector, TimersRun, guard, content, Pending
<1>4. CASE AskForBackup \/ \E r \in Runs : AskForRemoval(r) \/ AskForRestore(r)
  BY <1>0, <1>4
     DEF AskForBackup, AskForRemoval, BeginRemoval, AskForRestore, MayWrite, Serving,
         memory, guard
<1>5. CASE \E late \in BOOLEAN : ClaimDue(late)
  BY <1>0, <1>1, <1>5 DEF ClaimDue, guard, content, Pending
<1>6. CASE \E s \in Sources : JobStep(s) \/ LegFails(s)
  <2>1. PICK s \in Sources : JobStep(s) \/ LegFails(s)
    BY <1>6
  <2>2. server \in {"settled", "up"}
    <3>1. jobs[s] # Idle
      BY <2>1
         DEF JobStep, HoldForBackup, SkipRun, InsertRun, DumpDatabase, CopyBlobs,
             SettleRun, RecordFailure, ReleaseLock, SelfCheck, LegFails, AtWork, Idle
    <3> QED  BY <1>0, <3>1 DEF TypeOK, Boot
  <2>3. UNCHANGED <<server, halted, confirmed, epochFile, restoring, request>>
    BY <2>1
       DEF JobStep, HoldForBackup, SkipRun, InsertRun, DumpDatabase, CopyBlobs,
           SettleRun, RecordFailure, ReleaseLock, SelfCheck, LegFails, memory, guard
  <2> QED  BY <1>0, <1>1, <2>2, <2>3 DEF Pending
<1>7. CASE \/ \E s \in Sources : RemoveDirectory(s) \/ ClearDestination(s)
           \/ \E r \in Runs : SweepCopy(r)
           \/ EndSweep
  <2>1. server \in {"settled", "up"}
    <3>1. \E s \in Sources : jobs[s] # Idle \/ removals[s] # None
      BY <1>7
      DEF RemoveDirectory, ClearDestination, SweepCopy, EndSweep, AtWork, Idle, Sources
    <3> QED  BY <1>0, <3>1 DEF TypeOK, Boot
  <2>2. UNCHANGED <<server, halted, confirmed, epochFile, restoring, request>>
    BY <1>7
    DEF RemoveDirectory, ClearDestination, SweepCopy, BeginRemoval, EndSweep, guard
  <2> QED  BY <1>0, <1>1, <2>1, <2>2 DEF Pending
<1>8. CASE Stop
  BY <1>8 DEF Stop
<1>9. CASE Start
  BY <1>0, <1>9, NoneIsApart DEF Start, memory, content, Restoration
<1>10. CASE \E r \in Runs : RestoreByHand(r)
  <2>1. request = None
    BY <1>10 DEF RestoreByHand, ComesBy, IInv, RestoresAreBounded
  <2> QED  BY <1>0, <1>10, <2>1 DEF RestoreByHand, memory, content
<1>11. CASE RestoreBlobs \/ LoadDatabase \/ LoadFails
  BY <1>0, <1>11 DEF RestoreBlobs, LoadDatabase, LoadFails, memory, content
<1>12. CASE RaiseByHand
  BY <1>0, <1>12 DEF RaiseByHand, memory, content, guard
<1>13. CASE BuildApp
  BY <1>0, <1>13 DEF BuildApp, Pending, guard
<1>14. CASE SettleInterruptedRuns
  BY <1>0, <1>1, <1>14 DEF SettleInterruptedRuns, memory, guard, Pending
<1>15. CASE Listen \/ ConfirmRestore \/ FinishConfirm
  BY <1>0, <1>15 DEF Listen, ConfirmRestore, FinishConfirm, memory, guard
<1>16. CASE UNCHANGED <<inflight, memory, server, guard>>
  BY <1>0, <1>1, <1>16 DEF memory, guard, Pending
<1> HIDE DEF QuietBeforeUp
<1> QED
  BY <1>2, <1>3, <1>4, <1>5, <1>6, <1>7, <1>8, <1>9, <1>10, <1>11, <1>12, <1>13, <1>14,
     <1>15, <1>16
     DEF Next, Release, SweepFile, MomentComes, SaveSchedule, content

\* Whoever holds a row holds the lock, and no more runs are asked for than
\* there are names left.
LEMMA OneRunStep ==
    ASSUME IInv, Next
    PROVE  OneRunHolds'
<1>0. TypeOK /\ QuietBeforeUp /\ OneRunHolds
  BY DEF IInv
<1>1. \A s \in Sources : jobs'[s].stage \in Holding => lock' = s
  <2> USE DEF OneRunHolds, Holding
  <2>1. CASE \E s \in Sources : HoldForBackup(s) \/ ReleaseLock(s)
    BY <1>0, <2>1
    DEF HoldForBackup, ReleaseLock, Now, AtWork, Idle, TypeOK, Job, Sources
  <2>2. CASE \E s \in Sources : \/ InsertRun(s) \/ DumpDatabase(s) \/ CopyBlobs(s)
                                \/ SettleRun(s) \/ RecordFailure(s) \/ LegFails(s)
    BY <1>0, <2>2
       DEF InsertRun, DumpDatabase, CopyBlobs, SettleRun, RecordFailure, LegFails, Now,
           AtWork, TypeOK, Job, memory
  <2>3. CASE \E s \in Sources : SkipRun(s) \/ SelfCheck(s)
    BY <1>0, <2>3 DEF SkipRun, SelfCheck, Now, AtWork, Idle, TypeOK, Job
  <2>4. CASE AskForBackup \/ EndSweep \/ \E late \in BOOLEAN : ClaimDue(late)
    BY <1>0, <2>4
    DEF AskForBackup, EndSweep, ClaimDue, Now, AtWork, Idle, TypeOK, Job, Sources
  <2>5. CASE StartCollector \/ EndCollector
    BY <1>0, <2>5 DEF StartCollector, EndCollector, Sources
  <2>6. CASE Stop
    BY <2>6 DEF Stop, Idle
  <2>7. CASE UNCHANGED <<jobs, lock>>
    BY <1>0, <2>7
  <2> HIDE DEF OneRunHolds, Holding
  <2> QED
    BY <2>1, <2>2, <2>3, <2>4, <2>5, <2>6, <2>7
       DEF Next, JobStep, BeginUpload, CommitUpload, Release, SweepFile, MomentComes,
           SaveSchedule, RemoveDirectory, ClearDestination, AskForRemoval, SweepCopy,
           BeginRemoval, AskForRestore, RestoreByHand, Start, RestoreBlobs,
           LoadDatabase,
           LoadFails, RaiseByHand, BuildApp, SettleInterruptedRuns, Listen,
           ConfirmRestore, FinishConfirm, memory
<1>2. taken' + Cardinality(Asking') <= MaxRuns
  <2>0. taken \in Nat /\ Cardinality(Asking) \in Nat /\ taken + Cardinality(Asking) <= MaxRuns
        /\ MaxRuns \in Nat
    BY <1>0, AskingCounts, BoundsType DEF OneRunHolds, TypeOK
  <2>1. ASSUME NEW s \in Sources, InsertRun(s)
        PROVE  taken' + Cardinality(Asking') <= MaxRuns
    <3>1. s \in Asking /\ Asking' = Asking \ {s}
      BY <1>0, <2>1 DEF InsertRun, Asking, AtWork, TypeOK, Job
    <3>2. Cardinality(Asking \ {s}) = Cardinality(Asking) - 1
      BY <3>1, AskingCounts
    <3>3. taken' = taken + 1
      BY <2>1 DEF InsertRun
    <3> QED  BY <2>0, <3>1, <3>2, <3>3
  <2>2. ASSUME AskForBackup \/ \E late \in BOOLEAN : ClaimDue(late)
        PROVE  taken' + Cardinality(Asking') <= MaxRuns
    <3>1. \E s \in Sources \ Asking : Asking' = Asking \cup {s} \/ Asking' = Asking
      BY <1>0, <2>2
      DEF AskForBackup, ClaimDue, Asking, AtWork, Now, Idle, TypeOK, Job, Sources
    <3>2. Cardinality(Asking') \in {Cardinality(Asking), Cardinality(Asking) + 1}
      BY <3>1, AskingCounts
    <3>3. taken' = taken /\ taken + Cardinality(Asking) < MaxRuns
      BY <2>2 DEF AskForBackup, ClaimDue, RoomForARun, Asking, disk
    <3> QED  BY <2>0, <3>2, <3>3
  <2>3. ASSUME Asking' \subseteq Asking, taken' = taken
        PROVE  taken' + Cardinality(Asking') <= MaxRuns
    <3>1. Cardinality(Asking') \in Nat /\ Cardinality(Asking') <= Cardinality(Asking)
      BY <2>3, AskingCounts
    <3> QED  BY <2>0, <2>3, <3>1
  <2>4. CASE \E s \in Sources : \/ HoldForBackup(s) \/ SkipRun(s) \/ DumpDatabase(s)
                                \/ CopyBlobs(s) \/ SettleRun(s) \/ RecordFailure(s)
                                \/ ReleaseLock(s) \/ SelfCheck(s) \/ LegFails(s)
    <3>1. Asking' \subseteq Asking
      BY <1>0, <2>4
         DEF HoldForBackup, SkipRun, DumpDatabase, CopyBlobs, SettleRun, RecordFailure,
             ReleaseLock, SelfCheck, LegFails, Asking, AtWork, Now, Idle, TypeOK, Job
    <3>2. taken' = taken
      BY <2>4
         DEF HoldForBackup, SkipRun, DumpDatabase, CopyBlobs, SettleRun, RecordFailure,
             ReleaseLock, SelfCheck, LegFails, disk
    <3> QED  BY <2>3, <3>1, <3>2
  <2>5. CASE EndSweep \/ Stop
    <3>1. Asking' \subseteq Asking /\ taken' = taken
      BY <1>0, <2>5 DEF EndSweep, Stop, Asking, AtWork, Idle, TypeOK, Job, disk
    <3> QED  BY <2>3, <3>1
  <2>6. CASE UNCHANGED <<jobs, taken>>
    BY <2>3, <2>6 DEF Asking, AtWork
  <2> QED
    BY <2>1, <2>2, <2>4, <2>5, <2>6
       DEF Next, JobStep, BeginUpload, CommitUpload, Release, SweepFile, StartCollector,
           EndCollector, MomentComes, SaveSchedule, RemoveDirectory, ClearDestination,
           AskForRemoval, SweepCopy, BeginRemoval, AskForRestore, RestoreByHand, Start,
           RestoreBlobs, LoadDatabase, LoadFails, RaiseByHand, BuildApp,
           SettleInterruptedRuns, Listen, ConfirmRestore, FinishConfirm, memory, disk
<1> QED  BY <1>1, <1>2 DEF OneRunHolds

\* A restore is under way or asked for only while the bound has one left.
LEMMA RestoresStep ==
    ASSUME IInv, Next
    PROVE  RestoresAreBounded'
<1> USE DEF RestoresAreBounded, ComesBy
<1>0. TypeOK /\ QuietBeforeUp /\ RestoresAreBounded
  BY DEF IInv
<1>1. CASE \E r \in Runs : AskForRestore(r) \/ RestoreByHand(r)
  BY <1>0, <1>1 DEF AskForRestore, RestoreByHand, QuietBeforeUp, MayWrite, Serving
<1>2. CASE Start \/ RestoreBlobs
  BY <1>0, <1>2 DEF Start, RestoreBlobs
<1>3. CASE LoadDatabase \/ LoadFails \/ Stop
  BY <1>0, <1>3 DEF LoadDatabase, LoadFails, Stop, QuietBeforeUp
<1>4. CASE UNCHANGED <<request, restoring, history>>
  BY <1>0, <1>4
<1> HIDE DEF RestoresAreBounded, ComesBy
<1> QED
  BY <1>1, <1>2, <1>3, <1>4
     DEF Next, JobStep, BeginUpload, CommitUpload, Release, SweepFile, StartCollector,
         EndCollector, AskForBackup, MomentComes, SaveSchedule, ClaimDue, HoldForBackup,
         SkipRun, InsertRun, DumpDatabase, CopyBlobs, SettleRun, RecordFailure,
         ReleaseLock, SelfCheck, LegFails, RemoveDirectory, ClearDestination,
         AskForRemoval, SweepCopy, BeginRemoval, EndSweep, RaiseByHand, BuildApp,
         SettleInterruptedRuns, Listen, ConfirmRestore, FinishConfirm, guard

\* What a step does to the copies: a dump is taken, files are put beside it,
\* the run ends well, the directory goes.
LEMMA CopiesKept ==
    ASSUME IInv, Next, NEW r \in Runs, copies'[r] # None
    PROVE  \/ /\ copies[r] # None /\ copies'[r].dump = copies[r].dump
              /\ copies'[r].done = copies[r].done
              /\ \/ copies'[r].blobs = copies[r].blobs
                 \/ \E s \in Sources : CopyBlobs(s) /\ jobs[s].run = r
           \/ /\ \E s \in Sources : DumpDatabase(s) /\ jobs[s].run = r
              /\ copies'[r].dump = db /\ db' = db /\ ~copies'[r].done
           \/ /\ \E s \in Sources : SettleRun(s) /\ jobs[s].run = r
              /\ copies[r] # None /\ copies'[r].dump = copies[r].dump
              /\ copies'[r].blobs = copies[r].blobs /\ copies'[r].done
<1>0. TypeOK /\ RunsUnderWay
  BY DEF IInv
<1>1. CASE \E s \in Sources : DumpDatabase(s)
  <2>1. PICK s \in Sources : DumpDatabase(s)
    BY <1>1
  <2> DEFINE new == [dump |-> db, blobs |-> None, done |-> FALSE]
  <2>2. new.dump = db /\ ~new.done
    OBVIOUS
  <2>3. copies' = [copies EXCEPT ![jobs[s].run] = new] /\ db' = db
    BY <2>1 DEF DumpDatabase
  <2> HIDE DEF new
  <2> QED  BY <1>0, <2>1, <2>2, <2>3 DEF TypeOK
<1>2. CASE \E s \in Sources : CopyBlobs(s) \/ SettleRun(s)
  <2>1. PICK s \in Sources : CopyBlobs(s) \/ SettleRun(s)
    BY <1>2
  <2> DEFINE c == jobs[s].run
             filled == [copies[c] EXCEPT !.blobs = files]
             ended == [copies[c] EXCEPT !.done = TRUE]
  <2>2. c \in Runs /\ copies[c] \in Copy /\ copies[c] # None
    BY <1>0, <2>1, RunOfJob
       DEF CopyBlobs, SettleRun, AtWork, WithRun, RunsUnderWay, RunHasDump,
           RunHasFiles, TypeOK
  <2>3. filled.dump = copies[c].dump /\ filled.done = copies[c].done
    BY <1>0, <2>2, CopyChanged DEF TypeOK
  <2>4. ended.dump = copies[c].dump /\ ended.blobs = copies[c].blobs /\ ended.done
    BY <2>2, CopyChanged DEF TypeOK
  <2>5. \/ CopyBlobs(s) /\ copies' = [copies EXCEPT ![c] = filled]
        \/ SettleRun(s) /\ copies' = [copies EXCEPT ![c] = ended]
    BY <2>1 DEF CopyBlobs, SettleRun
  <2> HIDE DEF filled, ended
  <2> QED  BY <1>0, <2>1, <2>2, <2>3, <2>4, <2>5 DEF TypeOK
<1>3. CASE \E s \in Sources : RemoveDirectory(s)
  BY <1>0, <1>3 DEF RemoveDirectory, TypeOK
<1>4. CASE UNCHANGED copies
  BY <1>4
<1> QED
  BY <1>1, <1>2, <1>3, <1>4
     DEF Next, JobStep, BeginUpload, CommitUpload, Release, SweepFile, StartCollector,
         EndCollector, AskForBackup, MomentComes, SaveSchedule, ClaimDue, HoldForBackup,
         SkipRun, InsertRun, RecordFailure, ReleaseLock, SelfCheck, LegFails,
         ClearDestination, AskForRemoval, SweepCopy, BeginRemoval, AskForRestore,
         RestoreByHand, EndSweep, Stop, Start, RestoreBlobs, LoadDatabase, LoadFails,
         RaiseByHand, BuildApp, SettleInterruptedRuns, Listen, ConfirmRestore,
         FinishConfirm, disk

\* Every epoch anybody remembers is one of the restores there were.
LEMMA EpochsStep ==
    ASSUME IInv, Next
    PROVE  EpochsAreCounted'
<1> USE DEF EpochsAreCounted, Counted
<1>0. TypeOK /\ EpochsAreCounted /\ QuietBeforeUp /\ history \in Nat /\ db.epoch \in Nat
      /\ (epochFile # None => epochFile \in Nat)
      /\ \A r \in Runs : copies[r] # None => copies[r].dump.epoch \in Nat
  <2>1. TypeOK /\ EpochsAreCounted /\ QuietBeforeUp /\ history \in Nat /\ db.epoch \in Nat
        /\ (epochFile # None => epochFile \in Nat)
    <3>1. TypeOK /\ EpochsAreCounted /\ QuietBeforeUp
      BY DEF IInv
    <3>2. history \in Nat /\ (epochFile # None => epochFile \in Nat)
      BY <3>1, BoundsType DEF TypeOK
    <3>3. db.epoch \in Nat
      BY <3>1, BoundsType DEF TypeOK, Database
    <3> QED  BY <3>1, <3>2, <3>3
  <2>2. \A r \in Runs : copies[r] # None => copies[r] \in Copy
    BY <2>1 DEF TypeOK
  <2>3. \A c \in Copy : c.dump.epoch \in Nat
    BY BoundsType DEF Copy, Database
  <2> QED  BY <2>1, <2>2, <2>3
<1>1. ASSUME NEW r \in Runs, copies'[r] # None
      PROVE  \/ copies[r] # None /\ copies'[r].dump.epoch = copies[r].dump.epoch
             \/ copies'[r].dump.epoch = db.epoch
  BY <1>1, CopiesKept
<1>2. CASE LoadDatabase
  <2>1. restoring.run \in Runs /\ copies[restoring.run] # None
    BY <1>0, <1>2 DEF LoadDatabase, IInv, FilesAreThere, TypeOK, Restoration
  <2>2. /\ db'.epoch = copies[restoring.run].dump.epoch /\ history' = history + 1
        /\ UNCHANGED <<copies, epochFile, served, confirmed>> /\ ~confirmed
    BY <1>0, <1>2 DEF LoadDatabase, disk, memory, QuietBeforeUp
  <2> QED  BY <1>0, <2>1, <2>2
<1>3. CASE RaiseByHand
  <2>1. /\ db'.epoch = NextEpoch /\ db.epoch <= history /\ ~confirmed
        /\ UNCHANGED <<copies, epochFile, served, confirmed, history>>
    BY <1>0, <1>3 DEF RaiseByHand, disk, memory, guard, QuietBeforeUp, TypeOK, Database
  <2>2. NextEpoch \in Nat /\ NextEpoch <= history + 1 /\ db.epoch < NextEpoch
    BY <1>0, <2>1 DEF NextEpoch
  <2> QED  BY <1>0, <2>1, <2>2
<1>4. CASE ConfirmRestore
  <2>1. /\ db'.epoch = NextEpoch /\ epochFile # None /\ db.epoch < epochFile
        /\ UNCHANGED <<copies, epochFile, served, history>>
    BY <1>0, <1>4 DEF ConfirmRestore, Pending, disk, guard, TypeOK, Database
  <2>2. NextEpoch = epochFile + 1 /\ epochFile <= history
    BY <1>0, <2>1 DEF NextEpoch
  <2> QED  BY <1>0, <2>1, <2>2
<1>5. CASE FinishConfirm \/ Listen
  <2>1. /\ epochFile' = db.epoch \/ (epochFile' = epochFile /\ epochFile # None /\ served' = served)
        /\ served' \subseteq served \cup {<<db.epoch, history>>}
        /\ UNCHANGED <<db, copies, history>>
        /\ ~confirmed'
    <3>1. CASE FinishConfirm
      BY <3>1 DEF FinishConfirm, disk
    <3>2. CASE Listen
      BY <1>0, <3>2 DEF Listen, Pending, disk, memory, QuietBeforeUp
    <3> QED  BY <1>5, <3>1, <3>2
  <2>2. epochFile # None => epochFile <= epochFile'
    BY <1>0, <1>5 DEF FinishConfirm, Listen, Pending
  <2>3. epochFile' # None => \A e \in served' : e[1] <= epochFile'
    <3> SUFFICES ASSUME epochFile' # None, NEW e \in served' PROVE e[1] <= epochFile'
      OBVIOUS
    <3>1. CASE e \in served
      <4>1. e[1] \in Nat /\ epochFile # None /\ e[1] <= epochFile /\ epochFile' \in Nat
        BY <1>0, <2>1, <3>1, BoundsType DEF TypeOK
      <4> QED  BY <1>0, <2>2, <4>1
    <3>2. CASE e \notin served
      BY <1>0, <2>1, <3>2
    <3> QED  BY <3>1, <3>2
  <2>4. epochFile' # None
    BY <1>0, <2>1, NoneIsApart
  <2> QED  BY <1>0, <1>1, <2>1, <2>3, <2>4
<1>6. CASE Stop
  <2>1. UNCHANGED <<db, copies, epochFile, served, history>> /\ ~confirmed'
    BY <1>6 DEF Stop, disk
  <2> QED  BY <1>0, <2>1
<1>7. CASE UNCHANGED <<epochFile, served, history, confirmed, db.epoch>>
  BY <1>0, <1>1, <1>7
<1> HIDE DEF EpochsAreCounted, Counted
<1>8. db'.epoch = db.epoch \/ LoadDatabase \/ RaiseByHand \/ ConfirmRestore
  BY FieldsStep
<1> QED
  BY <1>2, <1>3, <1>4, <1>5, <1>6, <1>7, <1>8
     DEF Next, JobStep, BeginUpload, CommitUpload, Release, SweepFile, StartCollector,
         EndCollector, AskForBackup, MomentComes, SaveSchedule, ClaimDue, HoldForBackup,
         SkipRun, InsertRun, DumpDatabase, CopyBlobs, SettleRun, RecordFailure,
         ReleaseLock, SelfCheck, LegFails, RemoveDirectory, ClearDestination,
         AskForRemoval, SweepCopy, BeginRemoval, AskForRestore, RestoreByHand, EndSweep,
         Start, RestoreBlobs, LoadFails, BuildApp, SettleInterruptedRuns, guard, memory

\* A claimed moment that has no row yet is the latest of them all.
LEMMA ClaimStep ==
    ASSUME IInv, Next
    PROVE  ClaimIsNew'
<1>0. TypeOK /\ QuietBeforeUp /\ ClaimIsNew /\ Sound(db) /\ moment \in Nat /\ db.claimed \in Nat
      /\ \A r \in Runs : RowOf(r) # None => RowOf(r).moment \in Nat
  <2>1. TypeOK /\ QuietBeforeUp /\ ClaimIsNew /\ Sound(db)
    BY DEF IInv, Databases
  <2>2. moment \in Nat /\ db \in Database
    BY <2>1, BoundsType DEF TypeOK
  <2>3. db.claimed \in Nat /\ \A r \in Runs : RowOf(r) # None => RowOf(r).moment \in Nat
    BY <2>2, BoundsType DEF Database, Row, RowOf
  <2> QED  BY <2>1, <2>2, <2>3
<1>1. ASSUME NEW late \in BOOLEAN, ClaimDue(late) PROVE ClaimIsNew'
  <2>1. db'.claimed = moment /\ db'.runs = db.runs
    BY <1>0, <1>1 DEF ClaimDue, TypeOK, Database
  <2>2. \A r \in Runs : RowOf(r) # None => RowOf(r).moment < moment
    BY <1>0, <1>1 DEF ClaimDue, Sound, SoundWith, RowOf
  <2>3. 0 < moment
    BY <1>0, <1>1 DEF ClaimDue
  <2>4. /\ jobs'["person"] = jobs["person"]
        /\ jobs'["schedule"] \in {Idle, [stage |-> "ask", run |-> None, moment |-> moment]}
    BY <1>0, <1>1 DEF ClaimDue, TypeOK, Sources
  <2>5. jobs'["schedule"].stage = "ask" => jobs'["schedule"].moment = moment
    BY <2>4 DEF Idle
  <2>6. jobs'["schedule"].stage \in {"ask", "row"} => jobs'["schedule"].stage = "ask"
    BY <2>4 DEF Idle
  <2> QED  BY <1>0, <2>1, <2>2, <2>3, <2>4, <2>5, <2>6 DEF ClaimIsNew, RowOf
<1>2. ASSUME NEW s \in Sources, InsertRun(s) PROVE ClaimIsNew'
  <2>1. PICK r \in Runs, row \in Row : db'.runs = [db.runs EXCEPT ![r] = row]
                                       /\ row.moment = jobs[s].moment
    BY <1>2, RowSteps
  <2>2. db'.claimed = db.claimed /\ db.runs \in [Runs -> Row \cup {None}]
    BY <1>2, RowSteps
  <2>3. /\ jobs'["person"].moment = 0
        /\ jobs'["schedule"].stage \in {"ask", "row"} =>
             s = "person" /\ jobs'["schedule"] = jobs["schedule"]
    BY <1>0, <1>2 DEF InsertRun, ClaimIsNew, TypeOK, Job, Sources
  <2> QED  BY <1>0, <2>1, <2>2, <2>3 DEF ClaimIsNew, RowOf
<1>3. ASSUME NEW s \in Sources, SettleRun(s) \/ RecordFailure(s) \/ ClearDestination(s)
      PROVE  ClaimIsNew'
  <2>0. ~InsertRun(s)
    BY <1>0, <1>3
       DEF InsertRun, SettleRun, RecordFailure, ClearDestination, AtWork, disk, TypeOK
  <2>1. PICK r \in Runs, row \in Row : db'.runs = [db.runs EXCEPT ![r] = row]
                                       /\ RowOf(r) \in Row /\ row.moment = RowOf(r).moment
    BY <1>3, <2>0, RowSteps
  <2>2. db'.claimed = db.claimed /\ db.runs \in [Runs -> Row \cup {None}]
    BY <1>3, RowSteps
  <2>3. /\ jobs'["person"].moment = 0
        /\ jobs'["schedule"].stage \in {"ask", "row"} => jobs'["schedule"] = jobs["schedule"]
    BY <1>0, <1>3
       DEF SettleRun, RecordFailure, ClearDestination, Now, ClaimIsNew, TypeOK, Job,
           Sources
  <2> QED  BY <1>0, <2>1, <2>2, <2>3, NoneIsApart DEF ClaimIsNew, RowOf
<1>4. CASE SettleInterruptedRuns \/ LoadDatabase
  <2>1. \A s \in Sources : jobs'[s] = Idle
    BY <1>0, <1>4 DEF SettleInterruptedRuns, LoadDatabase, QuietBeforeUp, memory
  <2> QED  BY <2>1 DEF ClaimIsNew, Idle, Sources
<1>5. CASE Stop
  BY <1>5 DEF Stop, ClaimIsNew, Idle, Sources
<1>6. CASE SaveSchedule
  <2>1. db'.claimed = moment /\ db'.runs = db.runs /\ jobs' = jobs /\ db.claimed <= moment
    BY <1>0, <1>6 DEF SaveSchedule, TypeOK, Database, memory, Sound, SoundWith
  <2>2. jobs["schedule"].moment \in Nat
    BY <1>0, BoundsType DEF TypeOK, Job, Sources
  <2> QED  BY <1>0, <2>1, <2>2 DEF ClaimIsNew, RowOf
<1>7. CASE /\ db'.claimed = db.claimed /\ db'.runs = db.runs
           /\ jobs'["person"].moment = jobs["person"].moment
           /\ jobs'["schedule"].stage \in {"ask", "row"} =>
                /\ jobs["schedule"].stage \in {"ask", "row"}
                /\ jobs'["schedule"].moment = jobs["schedule"].moment
  BY <1>0, <1>7 DEF ClaimIsNew, RowOf
<1>8. CASE \/ \E c \in Contents : CommitUpload(c) \/ Release(c)
           \/ RaiseByHand \/ ConfirmRestore
  <2>1. db'.claimed = db.claimed /\ db'.runs = db.runs /\ jobs' = jobs
    BY <1>0, <1>8
       DEF CommitUpload, Release, RaiseByHand, ConfirmRestore, TypeOK, Database, memory
  <2> QED  BY <1>7, <2>1
<1>9. CASE \E s \in Sources : \/ HoldForBackup(s) \/ SkipRun(s) \/ DumpDatabase(s)
                              \/ CopyBlobs(s) \/ ReleaseLock(s) \/ SelfCheck(s)
                              \/ LegFails(s)
  <2>1. db' = db
    BY <1>9
       DEF HoldForBackup, SkipRun, DumpDatabase, CopyBlobs, ReleaseLock, SelfCheck,
           LegFails
  <2>2. /\ jobs'["person"].moment = 0
        /\ jobs'["schedule"].stage \in {"ask", "row"} =>
                /\ jobs["schedule"].stage \in {"ask", "row"}
                /\ jobs'["schedule"].moment = jobs["schedule"].moment
    BY <1>0, <1>9
       DEF HoldForBackup, SkipRun, DumpDatabase, CopyBlobs, ReleaseLock, SelfCheck,
           LegFails,
           Now, AtWork, Idle, TypeOK, Job, Sources, ClaimIsNew
  <2> QED  BY <1>0, <1>7, <2>1, <2>2 DEF ClaimIsNew
<1>10. CASE AskForBackup \/ EndSweep
  <2>1. db' = db
    BY <1>10 DEF AskForBackup, EndSweep
  <2>2. /\ jobs'["person"].moment = 0
        /\ jobs'["schedule"].stage \in {"ask", "row"} => jobs'["schedule"] = jobs["schedule"]
    BY <1>0, <1>10
    DEF AskForBackup, EndSweep, Now, Idle, TypeOK, Job, Sources, ClaimIsNew
  <2> QED  BY <1>0, <1>7, <2>1, <2>2 DEF ClaimIsNew
<1>11. CASE UNCHANGED <<db, jobs>>
  BY <1>7, <1>11
<1> QED
  BY <1>1, <1>2, <1>3, <1>4, <1>5, <1>6, <1>8, <1>9, <1>10, <1>11
     DEF Next, JobStep, BeginUpload, SweepFile, StartCollector, EndCollector,
         MomentComes,
         RemoveDirectory, AskForRemoval, SweepCopy, BeginRemoval, AskForRestore,
         RestoreByHand, Start, RestoreBlobs, LoadFails, BuildApp, Listen, FinishConfirm,
         memory

\* Time and other runs do a database no harm: a directory that is started
\* anew has a name none of them has as good.
LEMMA StillSound ==
    ASSUME IInv, Next, NEW d, d = db \/ \E r \in Runs : copies[r] # None /\ d = copies[r].dump
    PROVE  SoundWith(d, copies', taken', moment')
<1>0. TypeOK /\ RunsUnderWay /\ Databases /\ taken \in Nat /\ moment \in Nat
  BY BoundsType DEF IInv, TypeOK
<1>1. d \in Database /\ Sound(d)
  <2>1. \A r \in Runs : copies[r] # None => copies[r].dump \in Database
    BY <1>0 DEF TypeOK, Copy
  <2> QED  BY <1>0, <2>1 DEF TypeOK, Databases
<1>2. taken' \in Nat /\ taken <= taken' /\ moment' \in Nat /\ moment <= moment'
  <2>1. taken' = taken \/ taken' = taken + 1
    BY DEF Next, JobStep, BeginUpload, CommitUpload, Release, SweepFile, StartCollector,
           EndCollector, AskForBackup, MomentComes, SaveSchedule, ClaimDue,
           HoldForBackup,
           SkipRun, InsertRun, DumpDatabase, CopyBlobs, SettleRun, RecordFailure,
           ReleaseLock, SelfCheck, LegFails, RemoveDirectory, ClearDestination,
           AskForRemoval, SweepCopy, BeginRemoval, AskForRestore, RestoreByHand,
           EndSweep,
           Stop, Start, RestoreBlobs, LoadDatabase, LoadFails, RaiseByHand, BuildApp,
           SettleInterruptedRuns, Listen, ConfirmRestore, FinishConfirm, disk
  <2>2. moment' = moment \/ moment' = moment + 1
    BY DEF Next, JobStep, BeginUpload, CommitUpload, Release, SweepFile, StartCollector,
           EndCollector, AskForBackup, MomentComes, SaveSchedule, ClaimDue,
           HoldForBackup,
           SkipRun, InsertRun, DumpDatabase, CopyBlobs, SettleRun, RecordFailure,
           ReleaseLock, SelfCheck, LegFails, RemoveDirectory, ClearDestination,
           AskForRemoval, SweepCopy, BeginRemoval, AskForRestore, RestoreByHand,
           EndSweep,
           Stop, Start, RestoreBlobs, LoadDatabase, LoadFails, RaiseByHand, BuildApp,
           SettleInterruptedRuns, Listen, ConfirmRestore, FinishConfirm
  <2> QED  BY <1>0, <2>1, <2>2
<1>3. ASSUME NEW r \in Runs, d.runs[r] # None, d.runs[r].status = "ok", copies'[r] # None
      PROVE  copies'[r].done
  <2>1. ASSUME NEW s \in Sources, DumpDatabase(s), jobs[s].run = r PROVE FALSE
    <3>1. RowOf(r).status = "running"
          /\ \A t \in Runs : copies[t] # None => copies[t].dump.runs[r] = None
      BY <1>0, <2>1 DEF DumpDatabase, AtWork, RunsUnderWay, RunRuns, RunIsNew
    <3> QED  BY <1>3, <3>1 DEF RowOf
  <2>2. copies[r] # None => copies[r].done
    BY <1>1, <1>3 DEF Sound, SoundWith
  <2> QED  BY <1>3, <2>1, <2>2, CopiesKept
<1>4. ASSUME NEW r \in Runs, d.runs[r] # None PROVE r <= taken'
  BY <1>0, <1>1, <1>2, <1>4, BoundsType DEF Sound, SoundWith
<1>5. d.claimed <= moment'
  BY <1>0, <1>1, <1>2, BoundsType DEF Sound, SoundWith, Database
<1> QED  BY <1>1, <1>3, <1>4, <1>5 DEF Sound, SoundWith

\* So does every step to the database in use, and to the dumps.
LEMMA DatabasesStep ==
    ASSUME IInv, Next
    PROVE  Databases'
<1>0. TypeOK /\ QuietBeforeUp /\ RunsUnderWay /\ ClaimIsNew /\ Databases
      /\ moment \in Nat /\ taken \in Nat /\ db.claimed \in Nat
      /\ db.runs \in [Runs -> Row \cup {None}] /\ db \in Database
  <2>1. TypeOK /\ QuietBeforeUp /\ RunsUnderWay /\ ClaimIsNew /\ Databases
    BY DEF IInv
  <2>2. moment \in Nat /\ taken \in Nat /\ db \in Database
    BY <2>1, BoundsType DEF TypeOK
  <2>3. db.claimed \in Nat /\ db.runs \in [Runs -> Row \cup {None}]
    BY <2>2, BoundsType DEF Database
  <2> QED  BY <2>1, <2>2, <2>3
<1>1. SoundWith(db, copies', taken', moment')
  BY StillSound
<1>2. \A r \in Runs : copies'[r] # None => SoundWith(copies'[r].dump, copies', taken', moment')
  <2> SUFFICES ASSUME NEW r \in Runs, copies'[r] # None
               PROVE  SoundWith(copies'[r].dump, copies', taken', moment')
    OBVIOUS
  <2>1. \/ copies[r] # None /\ copies'[r].dump = copies[r].dump
        \/ copies'[r].dump = db
    BY CopiesKept
  <2> QED  BY <2>1, StillSound
<1>3. SoundWith(db', copies', taken', moment')
  <2>1. ASSUME NEW s \in Sources, InsertRun(s)
        PROVE  SoundWith(db', copies', taken', moment')
    <3>1. PICK r \in Runs, row \in Row :
            /\ db'.runs = [db.runs EXCEPT ![r] = row] /\ r = taken'
            /\ row.status = "running" /\ row.moment = jobs[s].moment
      BY <2>1, RowSteps
    <3>2. db'.claimed = db.claimed
      BY <2>1, RowSteps
    <3>3. row.moment <= db.claimed /\ row.moment \in Nat
      BY <1>0, <2>1, <3>1, BoundsType
         DEF InsertRun, AtWork, ClaimIsNew, Sources, TypeOK, Job
    <3>4. row.moment > 0 => \A t \in Runs : db.runs[t] # None => db.runs[t].moment < row.moment
      BY <1>0, <2>1, <3>1 DEF InsertRun, AtWork, ClaimIsNew, Sources, RowOf
    <3>5. \A t \in Runs : db.runs[t] # None => db.runs[t].moment \in Nat
      BY <1>0, BoundsType DEF Row
    <3>6. taken' \in Nat
      BY <3>1, BoundsType
    <3> QED  BY <1>0, <1>1, <3>1, <3>2, <3>3, <3>4, <3>5, <3>6, NoneIsApart
             DEF SoundWith
  <2>2. ASSUME NEW s \in Sources, SettleRun(s) \/ RecordFailure(s) \/ ClearDestination(s)
        PROVE  SoundWith(db', copies', taken', moment')
    <3>0. ~InsertRun(s)
      BY <1>0, <2>2
         DEF InsertRun, SettleRun, RecordFailure, ClearDestination, AtWork, disk, TypeOK
    <3>1. PICK r \in Runs, row \in Row :
            /\ db'.runs = [db.runs EXCEPT ![r] = row]
            /\ RowOf(r) \in Row /\ row.moment = RowOf(r).moment
            /\ SettleRun(s) => r = jobs[s].run
            /\ RecordFailure(s) => row.status = "failed"
            /\ ClearDestination(s) => row.status = RowOf(r).status
      BY <2>2, <3>0, RowSteps
    <3>2. db'.claimed = db.claimed
      BY <2>2, RowSteps
    <3>3. SettleRun(s) => (copies'[r] # None => copies'[r].done)
      BY <1>0, <3>1, RunOfJob, CopyChanged
         DEF SettleRun, AtWork, RemovalIsOfEnded, WithRun, TypeOK
    <3>4. row.status = "ok" => (copies'[r] # None => copies'[r].done)
      BY <1>1, <2>2, <3>1, <3>3, NoneIsApart DEF SoundWith, RowOf
    <3> QED  BY <1>0, <1>1, <3>1, <3>2, <3>4, NoneIsApart DEF SoundWith, RowOf
  <2>3. ASSUME SettleInterruptedRuns PROVE SoundWith(db', copies', taken', moment')
    <3>1. db'.runs = Settled /\ db'.claimed = db.claimed
      BY <1>0, <2>3, RowsSettled DEF SettleInterruptedRuns, Settled
    <3>2. \A r \in Runs : (Settled[r] = None <=> db.runs[r] = None)
      BY <1>0, RowsSettled DEF RowOf
    <3>3. \A r \in Runs : Settled[r] # None =>
                /\ Settled[r].moment = db.runs[r].moment
                /\ Settled[r].status = "ok" => db.runs[r].status = "ok"
      BY <1>0, RowsSettled DEF RowOf
    <3> HIDE DEF Settled
    <3> QED  BY <1>1, <3>1, <3>2, <3>3 DEF SoundWith
  <2>4. ASSUME SaveSchedule \/ \E late \in BOOLEAN : ClaimDue(late)
        PROVE  SoundWith(db', copies', taken', moment')
    <3>1. db'.claimed = moment /\ db'.runs = db.runs /\ moment' = moment
      BY <1>0, <2>4 DEF SaveSchedule, ClaimDue, Database
    <3>2. \A r \in Runs : db.runs[r] # None => db.runs[r].moment \in Nat
      BY <1>0, BoundsType DEF Row
    <3>3. db.claimed <= moment
      BY <1>0 DEF Databases, Sound, SoundWith
    <3> QED  BY <1>0, <1>1, <3>1, <3>2, <3>3 DEF SoundWith
  <2>5. ASSUME LoadDatabase PROVE SoundWith(db', copies', taken', moment')
    <3>1. restoring.run \in Runs /\ copies[restoring.run] # None /\ db' = copies[restoring.run].dump
      BY <1>0, <2>5 DEF LoadDatabase, IInv, FilesAreThere, TypeOK, Restoration
    <3> QED  BY <3>1, StillSound
  <2>6. CASE db'.claimed = db.claimed /\ db'.runs = db.runs
    BY <1>1, <2>6 DEF SoundWith
  <2>7. CASE \/ \E c \in Contents : CommitUpload(c) \/ Release(c)
             \/ RaiseByHand \/ ConfirmRestore
    <3>1. db'.claimed = db.claimed /\ db'.runs = db.runs
      BY <1>0, <2>7 DEF CommitUpload, Release, RaiseByHand, ConfirmRestore, Database
    <3> QED  BY <2>6, <3>1
  <2>8. CASE UNCHANGED db
    BY <2>6, <2>8
  <2> QED
    BY <2>1, <2>2, <2>3, <2>4, <2>5, <2>7, <2>8
       DEF Next, JobStep, BeginUpload, SweepFile, StartCollector, EndCollector,
           AskForBackup, MomentComes, HoldForBackup, SkipRun, DumpDatabase, CopyBlobs,
           ReleaseLock, SelfCheck, LegFails, RemoveDirectory, AskForRemoval, SweepCopy,
           BeginRemoval, AskForRestore, RestoreByHand, EndSweep, Stop, Start,
           RestoreBlobs, LoadFails, BuildApp, Listen, FinishConfirm
<1> QED  BY <1>2, <1>3 DEF Databases, Sound

\* What is good stays good while its directory stays.
LEMMA GoodStays ==
    ASSUME IInv, Next, NEW r \in Runs, copies'[r] # None,
           Good(r) \/ (copies[r] = None /\ ~\E s \in Sources : jobs[s].stage = "dump"
                                             /\ jobs[s].run = r)
    PROVE  copies'[r].done /\ Good(r) /\ copies'[r].dump = copies[r].dump
           /\ copies'[r].blobs = copies[r].blobs
<1>0. TypeOK /\ RunsUnderWay
  BY DEF IInv
<1>1. ~\E s \in Sources : DumpDatabase(s) /\ jobs[s].run = r
  BY <1>0 DEF DumpDatabase, AtWork, RunsUnderWay, RunIsNew, Good
<1>2. ~\E s \in Sources : (CopyBlobs(s) \/ SettleRun(s)) /\ jobs[s].run = r
  BY <1>0
  DEF CopyBlobs, SettleRun, AtWork, RunsUnderWay, RunNamed, RunHasDump, RunHasFiles,
      Good, WithRun
<1> QED  BY <1>1, <1>2, CopiesKept DEF Good

\* Nothing a database or a good copy names goes, and a restore has its files
\* before it has its database.
LEMMA FilesStep ==
    ASSUME IInv, Next
    PROVE  FilesAreThere'
<1>0. TypeOK /\ QuietBeforeUp /\ OneRunHolds /\ RunsUnderWay /\ FilesAreThere /\ Databases
      /\ db \in Database /\ taken \in Nat
  BY BoundsType DEF IInv, TypeOK
<1>1. db'.refs \subseteq files' /\ inflight' \subseteq files'
  <2> USE DEF FilesAreThere
  <2>1. ASSUME NEW c \in Contents, BeginUpload(c) \/ CommitUpload(c) \/ SweepFile(c) \/ Release(c)
        PROVE  db'.refs \subseteq files' /\ inflight' \subseteq files'
    BY <1>0, <2>1 DEF BeginUpload, CommitUpload, SweepFile, Release, content, Database
  <2>2. CASE RestoreBlobs
    BY <1>0, <2>2 DEF RestoreBlobs
  <2>3. CASE LoadDatabase
    BY <1>0, <2>3 DEF LoadDatabase, content, TypeOK, Restoration
  <2>4. CASE Stop
    BY <1>0, <2>4 DEF Stop
  <2>5. CASE UNCHANGED <<files, inflight>> /\ db'.refs = db.refs
    BY <1>0, <2>5
  <2> HIDE DEF FilesAreThere
  <2>6. \/ db'.refs = db.refs \/ LoadDatabase
        \/ \E c \in Contents : CommitUpload(c) \/ Release(c)
    BY FieldsStep
  <2> QED
    BY <2>1, <2>2, <2>3, <2>4, <2>5, <2>6
       DEF Next, JobStep, StartCollector, EndCollector, AskForBackup, MomentComes,
           SaveSchedule, ClaimDue, HoldForBackup, SkipRun, InsertRun, DumpDatabase,
           CopyBlobs, SettleRun, RecordFailure, ReleaseLock, SelfCheck, LegFails,
           RemoveDirectory, ClearDestination, AskForRemoval, SweepCopy, BeginRemoval,
           AskForRestore, RestoreByHand, EndSweep, Start, LoadFails, RaiseByHand,
           BuildApp, SettleInterruptedRuns, Listen, ConfirmRestore, FinishConfirm,
           content
<1>2. ASSUME NEW r \in Runs, Good(r)'
      PROVE  copies'[r].blobs # None /\ copies'[r].dump.refs \subseteq copies'[r].blobs
  <2>1. CASE Good(r)
    BY <1>0, <1>2, <2>1, GoodStays DEF Good, FilesAreThere
  <2>2. CASE ~Good(r)
    <3>1. \E s \in Sources : SettleRun(s) /\ jobs[s].run = r /\ copies[r] # None
                             /\ copies'[r].dump = copies[r].dump
                             /\ copies'[r].blobs = copies[r].blobs
      BY <1>2, <2>2, CopiesKept DEF Good
    <3> QED  BY <1>0, <3>1 DEF RunsUnderWay, RunHasFiles, SettleRun, AtWork
  <2> QED  BY <2>1, <2>2
<1>3. ASSUME NEW r \in Runs, r > taken' PROVE copies'[r] = None
  <2>1. taken' = taken \/ taken' = taken + 1
    BY DEF Next, JobStep, BeginUpload, CommitUpload, Release, SweepFile, StartCollector,
           EndCollector, AskForBackup, MomentComes, SaveSchedule, ClaimDue,
           HoldForBackup,
           SkipRun, InsertRun, DumpDatabase, CopyBlobs, SettleRun, RecordFailure,
           ReleaseLock, SelfCheck, LegFails, RemoveDirectory, ClearDestination,
           AskForRemoval, SweepCopy, BeginRemoval, AskForRestore, RestoreByHand,
           EndSweep,
           Stop, Start, RestoreBlobs, LoadDatabase, LoadFails, RaiseByHand, BuildApp,
           SettleInterruptedRuns, Listen, ConfirmRestore, FinishConfirm, disk
  <2>2. r > taken
    BY <1>0, <1>3, <2>1, BoundsType
  <2>3. ASSUME NEW s \in Sources, jobs[s].run = r, jobs[s].stage \in WithRun PROVE FALSE
    BY <1>0, <2>2, <2>3, BoundsType DEF RunsUnderWay, RunNamed
  <2> QED  BY <1>0, <2>2, <2>3, CopiesKept
           DEF FilesAreThere, DumpDatabase, AtWork, WithRun
<1>4. request' # None => request' <= taken' /\ (copies'[request'] # None => copies'[request'].done)
  <2>1. ASSUME NEW r \in Runs, AskForRestore(r)
        PROVE  r <= taken /\ (copies[r] # None => Good(r))
    BY <1>0, <2>1 DEF AskForRestore, IsOk, RowOf, Databases, Sound, SoundWith, Good
  <2>2. CASE \E r \in Runs : AskForRestore(r)
    BY <2>1, <2>2 DEF AskForRestore, disk, Good
  <2>3. CASE Start
    BY <2>3 DEF Start
  <2>4. CASE UNCHANGED request
    <3> SUFFICES ASSUME request # None
                 PROVE  request <= taken' /\ (copies'[request] # None => copies'[request].done)
      BY <2>4 DEF Good
    <3>1. request \in Runs /\ request <= taken
      BY <1>0 DEF TypeOK, FilesAreThere
    <3>2. taken' \in Nat /\ taken <= taken'
      <4>1. taken' = taken \/ taken' = taken + 1
        BY
        DEF Next, JobStep, BeginUpload, CommitUpload, Release, SweepFile,
            StartCollector,
           EndCollector, AskForBackup, MomentComes, SaveSchedule, ClaimDue,
           HoldForBackup,
           SkipRun, InsertRun, DumpDatabase, CopyBlobs, SettleRun, RecordFailure,
           ReleaseLock, SelfCheck, LegFails, RemoveDirectory, ClearDestination,
           AskForRemoval, SweepCopy, BeginRemoval, AskForRestore, RestoreByHand,
           EndSweep,
           Stop, Start, RestoreBlobs, LoadDatabase, LoadFails, RaiseByHand, BuildApp,
           SettleInterruptedRuns, Listen, ConfirmRestore, FinishConfirm, disk
      <4> QED  BY <1>0, <4>1
    <3>3. ASSUME NEW s \in Sources, jobs[s].stage = "dump" PROVE jobs[s].run # request
      BY <1>0, <3>3 DEF RunsUnderWay, RunRuns
    <3>4. copies[request] = None \/ Good(request)
      BY <1>0 DEF FilesAreThere
    <3>5. copies'[request] # None => copies'[request].done
      BY <3>1, <3>3, <3>4, GoodStays
    <3> QED  BY <1>0, <3>1, <3>2, <3>5, BoundsType
  <2> QED
    BY <2>2, <2>3, <2>4
       DEF Next, JobStep, BeginUpload, CommitUpload, Release, SweepFile, StartCollector,
           EndCollector, AskForBackup, MomentComes, SaveSchedule, ClaimDue,
           HoldForBackup,
           SkipRun, InsertRun, DumpDatabase, CopyBlobs, SettleRun, RecordFailure,
           ReleaseLock, SelfCheck, LegFails, RemoveDirectory, ClearDestination,
           AskForRemoval, SweepCopy, BeginRemoval, RestoreByHand, EndSweep, Stop,
           RestoreBlobs, LoadDatabase, LoadFails, RaiseByHand, BuildApp,
           SettleInterruptedRuns, Listen, ConfirmRestore, FinishConfirm, guard
<1>5. restoring' # None =>
       /\ copies'[restoring'.run] # None => copies'[restoring'.run].done
       /\ restoring'.blobs => /\ copies'[restoring'.run] # None
                              /\ copies'[restoring'.run].blobs \subseteq files'
  <2>1. CASE \E r \in Runs : RestoreByHand(r)
    <3>1. PICK r \in Runs : RestoreByHand(r)
      BY <2>1
    <3>2. Good(r) /\ restoring' = [run |-> r, by |-> "cli", blobs |-> FALSE] /\ copies' = copies
      BY <3>1 DEF RestoreByHand, Good, disk
    <3> QED  BY <3>2 DEF Good
  <2>2. CASE Start
    <3>1. /\ restoring' # None =>
               restoring' = [run |-> request, by |-> "boot", blobs |-> FALSE] /\ request # None
          /\ copies' = copies
      BY <2>2 DEF Start, disk
    <3> QED  BY <1>0, <3>1 DEF FilesAreThere, Good
  <2>3. CASE RestoreBlobs
    <3>1. copies' = copies /\ restoring # None /\ restoring \in Restoration
      BY <1>0, <2>3 DEF RestoreBlobs, disk, TypeOK
    <3>2. CASE copies[restoring.run] = None
      BY <2>3, <3>2 DEF RestoreBlobs
    <3>3. CASE copies[restoring.run] # None
      <4>1. /\ restoring'.run = restoring.run
            /\ files' = files \cup copies[restoring.run].blobs
        BY <2>3, <3>1, <3>3 DEF RestoreBlobs, Restoration
      <4> QED  BY <1>0, <3>1, <3>3, <4>1 DEF FilesAreThere, Good
    <3> QED  BY <3>2, <3>3
  <2>4. CASE LoadDatabase \/ LoadFails \/ Stop
    BY <2>4 DEF LoadDatabase, LoadFails, Stop
  <2>5. CASE UNCHANGED restoring
    <3> SUFFICES ASSUME restoring # None PROVE
          /\ copies'[restoring.run] # None => copies'[restoring.run].done
          /\ restoring.blobs => /\ copies'[restoring.run] # None
                                /\ copies'[restoring.run].blobs \subseteq files'
      BY <2>5
    <3>1. \A s \in Sources : jobs[s] = Idle /\ removals[s] = None
      BY <1>0 DEF QuietBeforeUp
    <3>2. lock = "free" /\ server \in {"down", "started"}
      BY <1>0 DEF QuietBeforeUp
    <3>3. ~RestoreBlobs
      BY <1>0, <2>5, NoneIsApart DEF RestoreBlobs, TypeOK, Restoration
    <3>4. ~\E c \in Contents : BeginUpload(c) \/ SweepFile(c)
      BY <3>2 DEF BeginUpload, MayWrite, Serving, SweepFile
    <3>5. ~\E s \in Sources : DumpDatabase(s) \/ CopyBlobs(s) \/ SettleRun(s) \/ RemoveDirectory(s)
      <4> SUFFICES ASSUME NEW s \in Sources,
                          DumpDatabase(s) \/ CopyBlobs(s) \/ SettleRun(s) \/ RemoveDirectory(s)
                   PROVE  FALSE
        OBVIOUS
      <4>1. jobs[s].stage = "idle" /\ removals[s] = None
        BY <3>1 DEF Idle
      <4>2. AtWork(s, {"dump"}) \/ AtWork(s, {"blobs"}) \/ AtWork(s, {"settle"})
        BY <4>1 DEF DumpDatabase, CopyBlobs, SettleRun, RemoveDirectory
      <4> QED  BY <4>1, <4>2 DEF AtWork
    <3>6. UNCHANGED <<copies, files>>
      BY <3>3, <3>4, <3>5
         DEF Next, JobStep, CommitUpload, Release, StartCollector, EndCollector,
             AskForBackup, MomentComes, SaveSchedule, ClaimDue, HoldForBackup, SkipRun,
             InsertRun, RecordFailure, ReleaseLock, SelfCheck, LegFails,
             ClearDestination,
             AskForRemoval, SweepCopy, BeginRemoval, AskForRestore, RestoreByHand,
             EndSweep, Stop, Start, LoadDatabase, LoadFails, RaiseByHand, BuildApp,
             SettleInterruptedRuns, Listen, ConfirmRestore, FinishConfirm, disk, content
    <3> QED  BY <1>0, <3>6 DEF FilesAreThere, Good
  <2> QED
    BY <2>1, <2>2, <2>3, <2>4, <2>5
       DEF Next, JobStep, BeginUpload, CommitUpload, Release, SweepFile, StartCollector,
           EndCollector, AskForBackup, MomentComes, SaveSchedule, ClaimDue,
           HoldForBackup,
           SkipRun, InsertRun, DumpDatabase, CopyBlobs, SettleRun, RecordFailure,
           ReleaseLock, SelfCheck, LegFails, RemoveDirectory, ClearDestination,
           AskForRemoval, SweepCopy, BeginRemoval, AskForRestore, EndSweep, RaiseByHand,
           BuildApp, SettleInterruptedRuns, Listen, ConfirmRestore, FinishConfirm, guard
<1> QED
  BY <1>1, <1>2, <1>3, <1>4, <1>5 DEF FilesAreThere, Good

\* The names that were taken stay taken, and a row with one stays a row; only
\* the end of its run, or of the process, changes that it runs.
LEMMA RowsStay ==
    ASSUME IInv, Next, NEW r \in 1..taken, RowOf(r) \in Row, ~LoadDatabase
    PROVE  /\ r \in 1..taken'
           /\ db'.runs[r] \in Row
           /\ RowOf(r).status # "running" => db'.runs[r].status # "running"
           /\ RowOf(r).status = "running" =>
                \/ db'.runs[r].status = "running"
                \/ SettleInterruptedRuns
                \/ \E s \in Sources : (SettleRun(s) \/ RecordFailure(s)) /\ jobs[s].run = r
<1>0. TypeOK /\ taken \in Nat /\ db \in Database /\ db.runs \in [Runs -> Row \cup {None}]
      /\ r \in Runs
  <2>1. TypeOK /\ taken \in Nat /\ db \in Database
    BY BoundsType DEF IInv, TypeOK
  <2> QED  BY <2>1, BoundsType DEF Database, Runs, TypeOK
<1>1. r \in 1..taken'
  <2>1. taken' = taken \/ taken' = taken + 1
    BY DEF Next, JobStep, BeginUpload, CommitUpload, Release, SweepFile, StartCollector,
           EndCollector, AskForBackup, MomentComes, SaveSchedule, ClaimDue,
           HoldForBackup,
           SkipRun, InsertRun, DumpDatabase, CopyBlobs, SettleRun, RecordFailure,
           ReleaseLock, SelfCheck, LegFails, RemoveDirectory, ClearDestination,
           AskForRemoval, SweepCopy, BeginRemoval, AskForRestore, RestoreByHand,
           EndSweep,
           Stop, Start, RestoreBlobs, LoadDatabase, LoadFails, RaiseByHand, BuildApp,
           SettleInterruptedRuns, Listen, ConfirmRestore, FinishConfirm, disk
  <2> QED  BY <1>0, <2>1
<1>2. CASE \E s \in Sources : \/ InsertRun(s) \/ SettleRun(s) \/ RecordFailure(s)
                              \/ ClearDestination(s)
  <2>1. PICK s \in Sources : InsertRun(s) \/ SettleRun(s) \/ RecordFailure(s) \/ ClearDestination(s)
    BY <1>2
  <2>2. PICK t \in Runs, row \in Row :
          /\ db'.runs = [db.runs EXCEPT ![t] = row]
          /\ InsertRun(s) => /\ t = taken' /\ taken' = taken + 1
                             /\ row.status = "running" /\ row.moment = jobs[s].moment
          /\ ~InsertRun(s) => RowOf(t) \in Row /\ row.moment = RowOf(t).moment
          /\ SettleRun(s) => t = jobs[s].run /\ row.status = "ok"
          /\ RecordFailure(s) => t = jobs[s].run /\ row.status = "failed"
          /\ ClearDestination(s) => t = removals[s].run /\ row.status = RowOf(t).status
    BY <2>1, RowSteps
  <2> QED  BY <1>0, <1>1, <2>1, <2>2 DEF RowOf
<1>3. CASE SettleInterruptedRuns
  <2>1. db'.runs = Settled /\ Settled \in [Runs -> Row \cup {None}]
    BY <1>0, <1>3, RowsSettled DEF SettleInterruptedRuns, Settled
  <2>2. Settled[r] # None /\ Settled[r].status # "running"
    BY <1>0, RowsSettled, NoneIsApart
  <2> QED  BY <1>0, <1>1, <1>3, <2>1, <2>2 DEF RowOf
<1>4. CASE db'.runs = db.runs
  BY <1>0, <1>1, <1>4 DEF RowOf
<1>5. CASE \/ \E c \in Contents : CommitUpload(c) \/ Release(c)
           \/ SaveSchedule \/ RaiseByHand \/ ConfirmRestore
           \/ \E late \in BOOLEAN : ClaimDue(late)
  <2>1. db'.runs = db.runs
    BY <1>0, <1>5
       DEF CommitUpload, Release, SaveSchedule, RaiseByHand, ConfirmRestore, ClaimDue,
           Database
  <2> QED  BY <1>4, <2>1
<1>6. CASE UNCHANGED db
  BY <1>4, <1>6
<1> QED
  BY <1>2, <1>3, <1>5, <1>6
     DEF Next, JobStep, BeginUpload, SweepFile, StartCollector, EndCollector,
         AskForBackup, MomentComes, HoldForBackup, SkipRun, DumpDatabase, CopyBlobs,
         ReleaseLock, SelfCheck, LegFails, RemoveDirectory, AskForRemoval, SweepCopy,
         BeginRemoval, AskForRestore, RestoreByHand, EndSweep, Stop, Start,
         RestoreBlobs,
         LoadFails, BuildApp, Listen, FinishConfirm

\* A removal is of a run that has ended, however long it takes.
LEMMA RemovalsStep ==
    ASSUME IInv, Next, NEW t \in Sources
    PROVE  RemovalIsOfEnded(t)'
<1>0. TypeOK /\ RunsUnderWay /\ Databases /\ QuietBeforeUp /\ taken \in Nat /\ db \in Database
  BY BoundsType DEF IInv, TypeOK
<1> SUFFICES ASSUME removals'[t] # None PROVE RemovalIsOfEnded(t)'
  BY DEF RemovalIsOfEnded
<1>1. CASE removals[t] # None /\ removals'[t].run = removals[t].run
  <2>1. ~LoadDatabase
    BY <1>0, <1>1 DEF LoadDatabase, QuietBeforeUp
  <2>2. removals[t].run \in 1..taken /\ RowOf(removals[t].run) \in Row
        /\ RowOf(removals[t].run).status # "running"
    BY <1>0, <1>1 DEF RunsUnderWay, RemovalIsOfEnded
  <2> DEFINE r == removals[t].run
  <2>3. r \in 1..taken' /\ db'.runs[r] \in Row /\ db'.runs[r].status # "running"
    BY <2>1, <2>2, RowsStay
  <2> QED  BY <1>1, <2>3 DEF RemovalIsOfEnded, RowOf
<1>2. ASSUME NEW r \in Runs, NEW s \in Sources, BeginRemoval(s, r)
      PROVE  RemovalIsOfEnded(t)'
  <2>1. CASE s = t
    <3>1. removals'[t].run = r /\ db' = db /\ taken' = taken
      BY <1>0, <1>2, <2>1 DEF BeginRemoval, TypeOK, disk
    <3>2. RowOf(r) \in Row /\ RowOf(r).status # "running" /\ r <= taken
      BY <1>0, <1>2
         DEF BeginRemoval, Removable, HasCopy, RowOf, Databases, Sound, SoundWith,
             Database
    <3> QED  BY <1>0, <3>1, <3>2, BoundsType DEF RemovalIsOfEnded, RowOf, Runs
  <2>2. CASE s # t
    BY <1>0, <1>1, <1>2, <2>2 DEF BeginRemoval, TypeOK
  <2> QED  BY <2>1, <2>2
<1>3. CASE \E r \in Runs : AskForRemoval(r) \/ SweepCopy(r)
  BY <1>2, <1>3 DEF AskForRemoval, SweepCopy, Sources
<1>4. CASE \E s \in Sources : RemoveDirectory(s) \/ ClearDestination(s)
  BY <1>0, <1>1, <1>4 DEF RemoveDirectory, ClearDestination, TypeOK, Removal
<1>5. CASE Stop
  BY <1>5 DEF Stop
<1>6. CASE UNCHANGED removals
  BY <1>1, <1>6
<1> QED
  BY <1>3, <1>4, <1>5, <1>6
     DEF Next, JobStep, BeginUpload, CommitUpload, Release, SweepFile, StartCollector,
         EndCollector, AskForBackup, MomentComes, SaveSchedule, ClaimDue, HoldForBackup,
         SkipRun, InsertRun, DumpDatabase, CopyBlobs, SettleRun, RecordFailure,
         ReleaseLock, SelfCheck, LegFails, AskForRestore, RestoreByHand, EndSweep,
         Start,
         RestoreBlobs, LoadDatabase, LoadFails, RaiseByHand, BuildApp,
         SettleInterruptedRuns, Listen, ConfirmRestore, FinishConfirm, memory

\* A run that goes on by other hands: nobody but its source touches it.
LEMMA RunsGoOn ==
    ASSUME IInv, Next, NEW t \in Sources, jobs'[t] = jobs[t]
    PROVE  RunNamed(t)' /\ RunRuns(t)' /\ RunIsNew(t)' /\ RunHasDump(t)' /\ RunHasFiles(t)'
<1>0. TypeOK /\ RunsUnderWay /\ OneRunHolds /\ QuietBeforeUp /\ taken \in Nat
  BY BoundsType DEF IInv, TypeOK
<1> SUFFICES ASSUME jobs[t].stage \in WithRun
             PROVE  RunNamed(t)' /\ RunRuns(t)' /\ RunIsNew(t)' /\ RunHasDump(t)' /\ RunHasFiles(t)'
  BY DEF RunNamed, RunRuns, RunIsNew, RunHasDump, RunHasFiles, WithRun
<1> DEFINE r == jobs[t].run
<1>1. /\ r \in 1..taken /\ r \in Runs /\ RowOf(r) \in Row
      /\ copies[r] # None => ~copies[r].done \/ jobs[t].stage = "release"
      /\ jobs[t].stage \in {"dump", "blobs", "settle"} =>
           RowOf(r).status = "running" /\ request # r
  BY <1>0, BoundsType DEF RunsUnderWay, RunNamed, RunRuns, TypeOK, Runs
<1>2. ~LoadDatabase /\ ~SettleInterruptedRuns
  BY <1>0 DEF LoadDatabase, SettleInterruptedRuns, QuietBeforeUp, WithRun, Idle
<1>3. ASSUME NEW s \in Sources, \/ InsertRun(s) \/ DumpDatabase(s) \/ CopyBlobs(s)
                                \/ SettleRun(s) \/ RecordFailure(s)
      PROVE  FALSE
  <2>1. jobs[s].stage \in Holding /\ jobs[t].stage \in Holding
    BY <1>3
       DEF InsertRun, DumpDatabase, CopyBlobs, SettleRun, RecordFailure, AtWork,
           Holding, WithRun
  <2>2. s = t
    BY <1>0, <2>1 DEF OneRunHolds
  <2>3. jobs'[s].stage # jobs[s].stage
    BY <1>0, <1>3
       DEF InsertRun, DumpDatabase, CopyBlobs, SettleRun, RecordFailure, AtWork, Now,
           TypeOK, Job
  <2> QED  BY <2>2, <2>3
<1>4. /\ r \in 1..taken' /\ db'.runs[r] \in Row
      /\ RowOf(r).status = "running" => db'.runs[r].status = "running"
  BY <1>1, <1>2, <1>3, RowsStay
<1>5. ASSUME NEW q \in Runs, copies'[q] # None
      PROVE  /\ copies[q] # None /\ copies'[q].dump = copies[q].dump
             /\ copies'[q].done = copies[q].done /\ copies'[q].blobs = copies[q].blobs
  BY <1>3, <1>5, CopiesKept
<1>6. jobs[t].stage \in {"dump", "blobs", "settle"} => request' # r
  <2>1. CASE \E q \in Runs : AskForRestore(q)
    BY <1>1, <2>1 DEF AskForRestore, IsOk
  <2>2. CASE Start
    BY <1>1, <2>2, NoneIsApart, BoundsType DEF Start
  <2>3. CASE UNCHANGED request
    BY <1>1, <2>3
  <2> QED
    BY <2>1, <2>2, <2>3
       DEF Next, JobStep, BeginUpload, CommitUpload, Release, SweepFile, StartCollector,
           EndCollector, AskForBackup, MomentComes, SaveSchedule, ClaimDue,
           HoldForBackup,
           SkipRun, InsertRun, DumpDatabase, CopyBlobs, SettleRun, RecordFailure,
           ReleaseLock, SelfCheck, LegFails, RemoveDirectory, ClearDestination,
           AskForRemoval, SweepCopy, BeginRemoval, RestoreByHand, EndSweep, Stop,
           RestoreBlobs, LoadDatabase, LoadFails, RaiseByHand, BuildApp,
           SettleInterruptedRuns, Listen, ConfirmRestore, FinishConfirm, guard
<1>7. jobs[t].stage \in {"blobs", "settle"} /\ copies[r] # None => copies'[r] # None
  <2> SUFFICES ASSUME jobs[t].stage \in {"blobs", "settle"}, copies[r] # None
               PROVE  copies'[r] # None
    OBVIOUS
  <2>1. ASSUME NEW s \in Sources, RemoveDirectory(s) PROVE copies'[r] # None
    <3>1. removals[s].run # r
      BY <1>0, <1>1, <2>1 DEF RemoveDirectory, RunsUnderWay, RemovalIsOfEnded
    <3> QED  BY <1>0, <1>1, <2>1, <3>1 DEF RemoveDirectory, TypeOK
  <2>2. CASE UNCHANGED copies
    BY <2>2
  <2> QED
    BY <1>3, <2>1, <2>2
       DEF Next, JobStep, BeginUpload, CommitUpload, Release, SweepFile, StartCollector,
           EndCollector, AskForBackup, MomentComes, SaveSchedule, ClaimDue,
           HoldForBackup,
           SkipRun, ReleaseLock, SelfCheck, LegFails, ClearDestination, AskForRemoval,
           SweepCopy, BeginRemoval, AskForRestore, RestoreByHand, EndSweep, Stop, Start,
           RestoreBlobs, LoadDatabase, LoadFails, RaiseByHand, BuildApp,
           SettleInterruptedRuns, Listen, ConfirmRestore, FinishConfirm, disk
<1>8. files \subseteq files'
  <2>1. lock = t
    BY <1>0 DEF OneRunHolds, Holding, WithRun
  <2>2. ~\E c \in Contents : SweepFile(c)
    BY <2>1 DEF SweepFile, Sources
  <2>3. CASE RestoreBlobs \/ \E c \in Contents : BeginUpload(c)
    BY <2>3 DEF RestoreBlobs, BeginUpload
  <2>4. CASE UNCHANGED files
    BY <2>4
  <2> QED
    BY <2>2, <2>3, <2>4
       DEF Next, JobStep, CommitUpload, Release, StartCollector, EndCollector,
           AskForBackup, MomentComes, SaveSchedule, ClaimDue, HoldForBackup, SkipRun,
           InsertRun, DumpDatabase, CopyBlobs, SettleRun, RecordFailure, ReleaseLock,
           SelfCheck, LegFails, RemoveDirectory, ClearDestination, AskForRemoval,
           SweepCopy, BeginRemoval, AskForRestore, RestoreByHand, EndSweep, Stop, Start,
           LoadDatabase, LoadFails, RaiseByHand, BuildApp, SettleInterruptedRuns,
           Listen,
           ConfirmRestore, FinishConfirm, content
<1>9. RunNamed(t)' /\ RunRuns(t)'
  BY <1>1, <1>4, <1>5, <1>6 DEF RunNamed, RunRuns, RowOf
<1>10. RunIsNew(t)'
  BY <1>0, <1>1, <1>5 DEF RunIsNew, RunsUnderWay
<1>11. RunHasDump(t)' /\ RunHasFiles(t)'
  BY <1>0, <1>1, <1>5, <1>7, <1>8 DEF RunHasDump, RunHasFiles, RunsUnderWay
<1> QED  BY <1>9, <1>10, <1>11

\* A run that takes a step: what the step needs is there, and it leaves what
\* the next one needs.
LEMMA RunsMove ==
    ASSUME IInv, NEW t \in Sources,
           \/ InsertRun(t) \/ DumpDatabase(t) \/ CopyBlobs(t) \/ SettleRun(t)
           \/ LegFails(t) \/ RecordFailure(t)
    PROVE  RunNamed(t)' /\ RunRuns(t)' /\ RunIsNew(t)' /\ RunHasDump(t)' /\ RunHasFiles(t)'
<1> USE DEF RunNamed, RunRuns, RunIsNew, RunHasDump, RunHasFiles
<1>0. TypeOK /\ RunsUnderWay /\ Databases /\ FilesAreThere /\ taken \in Nat
      /\ db.runs \in [Runs -> Row \cup {None}]
  <2>1. TypeOK /\ RunsUnderWay /\ Databases /\ FilesAreThere
    BY DEF IInv
  <2> QED  BY <2>1, BoundsType DEF TypeOK, Database
<1> DEFINE r == jobs[t].run
<1>1. CASE InsertRun(t)
  <2>1. PICK q \in Runs, row \in Row :
          db'.runs = [db.runs EXCEPT ![q] = row] /\ q = taken' /\ row.status = "running"
    BY <1>1, RowSteps
  <2>2. /\ jobs'[t].stage = "dump" /\ jobs'[t].run = q /\ q = taken + 1
        /\ copies' = copies /\ request' = request
    BY <1>0, <1>1, <2>1 DEF InsertRun, TypeOK, Job, guard
  <2>3. db'.runs[q] \in Row /\ db'.runs[q].status = "running"
    BY <1>0, <2>1
  <2>4. copies[q] = None /\ request # q
    BY <1>0, <2>2, NoneIsApart, BoundsType DEF FilesAreThere, TypeOK
  <2>5. \A c \in Runs : copies[c] # None => copies[c].dump.runs[q] = None
    BY <1>0, <2>2, BoundsType DEF Databases, Sound, SoundWith
  <2>6. q \in 1..taken'
    BY <1>0, <2>1, <2>2
  <2> QED  BY <2>2, <2>3, <2>4, <2>5, <2>6 DEF WithRun, RowOf
<1>2. CASE DumpDatabase(t)
  <2> DEFINE new == [dump |-> db, blobs |-> None, done |-> FALSE]
  <2>1. new.dump = db /\ ~new.done
    OBVIOUS
  <2>2. /\ jobs'[t].stage = "blobs" /\ jobs'[t].run = r
        /\ UNCHANGED <<db, taken, request, files>>
    BY <1>0, <1>2 DEF DumpDatabase, Now, TypeOK, Job, guard, content
  <2>3. /\ r \in 1..taken /\ r \in Runs /\ RowOf(r) \in Row /\ RowOf(r).status = "running"
        /\ request # r
    BY <1>0, <1>2, RunOfJob DEF DumpDatabase, AtWork, RunsUnderWay, WithRun
  <2>4. copies' = [copies EXCEPT ![r] = new]
    BY <1>2 DEF DumpDatabase
  <2> HIDE DEF new
  <2>5. copies'[r] = new /\ new # None
    <3>1. new \in Copy
      BY <1>0, CopyOfDatabase DEF TypeOK, new
    <3> QED  BY <1>0, <2>3, <2>4, <3>1, NoneIsApart DEF TypeOK
  <2>6. db.refs \subseteq files
    BY <1>0 DEF FilesAreThere
  <2> QED  BY <2>1, <2>2, <2>3, <2>5, <2>6 DEF RowOf
<1>3. CASE CopyBlobs(t)
  <2> DEFINE new == [copies[r] EXCEPT !.blobs = files]
  <2>1. /\ r \in 1..taken /\ r \in Runs /\ RowOf(r) \in Row /\ RowOf(r).status = "running"
        /\ request # r /\ copies[r] # None /\ ~copies[r].done
        /\ copies[r].dump.refs \subseteq files
    BY <1>0, <1>3, RunOfJob DEF CopyBlobs, AtWork, RunsUnderWay, WithRun
  <2>2. copies[r] \in Copy /\ files \in SUBSET Contents
    BY <1>0, <2>1 DEF TypeOK
  <2>3. new \in Copy /\ new.dump = copies[r].dump /\ new.blobs = files /\ ~new.done
    BY <2>1, <2>2, CopyChanged
  <2>4. copies' = [copies EXCEPT ![r] = new]
    BY <1>3 DEF CopyBlobs
  <2> HIDE DEF new
  <2>5. copies'[r] = new /\ new # None /\ new.blobs # None
    BY <1>0, <2>1, <2>2, <2>3, <2>4, NoneIsApart DEF TypeOK
  <2>6. /\ jobs'[t].stage = "settle" /\ jobs'[t].run = r
        /\ UNCHANGED <<db, taken, request, files>>
    BY <1>0, <1>3 DEF CopyBlobs, Now, TypeOK, Job, guard, content
  <2> QED  BY <2>1, <2>3, <2>5, <2>6 DEF RowOf
<1>4. CASE SettleRun(t) \/ RecordFailure(t)
  <2>1. PICK q \in Runs, row \in Row :
          db'.runs = [db.runs EXCEPT ![q] = row] /\ q = jobs[t].run
    <3>1. PICK q \in Runs, row \in Row :
            /\ db'.runs = [db.runs EXCEPT ![q] = row]
            /\ InsertRun(t) => /\ q = taken' /\ taken' = taken + 1
                               /\ row.status = "running" /\ row.moment = jobs[t].moment
            /\ ~InsertRun(t) => RowOf(q) \in Row /\ row.moment = RowOf(q).moment
            /\ SettleRun(t) => q = jobs[t].run /\ row.status = "ok"
            /\ RecordFailure(t) => q = jobs[t].run /\ row.status = "failed"
            /\ ClearDestination(t) => q = removals[t].run /\ row.status = RowOf(q).status
      BY <1>4, RowSteps
    <3> QED  BY <1>4, <3>1
  <2>2. /\ jobs'[t].stage \in {"release", "undone"} /\ jobs'[t].run = q
        /\ RecordFailure(t) => copies' = copies
        /\ SettleRun(t) => jobs'[t].stage = "release"
        /\ taken' = taken
    BY <1>0, <1>4, <2>1 DEF SettleRun, RecordFailure, Now, TypeOK, Job, disk
  <2>3. q \in 1..taken /\ (RecordFailure(t) => (copies[q] # None => ~copies[q].done))
    BY <1>0, <1>4, <2>1 DEF SettleRun, RecordFailure, AtWork, RunsUnderWay, WithRun
  <2> QED  BY <1>0, <1>4, <2>1, <2>2, <2>3 DEF RowOf
<1>5. CASE LegFails(t)
  <2>1. /\ jobs'[t].stage = "failed" /\ jobs'[t].run = r
        /\ UNCHANGED <<db, taken, copies>>
    BY <1>0, <1>5 DEF LegFails, Now, TypeOK, Job, disk
  <2>2. r \in 1..taken /\ RowOf(r) \in Row /\ (copies[r] # None => ~copies[r].done)
    BY <1>0, <1>5 DEF LegFails, AtWork, RunsUnderWay, WithRun
  <2> QED  BY <2>1, <2>2 DEF RowOf
<1> QED  BY <1>1, <1>2, <1>3, <1>4, <1>5

\* What is under way is what its stage needs, after every step.
LEMMA RunsStep ==
    ASSUME IInv, Next
    PROVE  RunsUnderWay'
<1>0. TypeOK /\ QuietBeforeUp
  BY DEF IInv
<1> SUFFICES ASSUME NEW t \in Sources
             PROVE  RunNamed(t)' /\ RunRuns(t)' /\ RunIsNew(t)' /\ RunHasDump(t)' /\ RunHasFiles(t)'
  BY RemovalsStep DEF RunsUnderWay
<1>1. CASE \/ InsertRun(t) \/ DumpDatabase(t) \/ CopyBlobs(t) \/ SettleRun(t)
           \/ LegFails(t) \/ RecordFailure(t)
  BY <1>1, RunsMove
<1>2. CASE jobs'[t] = jobs[t]
  BY <1>2, RunsGoOn
<1>3. CASE jobs'[t].stage \notin WithRun
  BY <1>3 DEF RunNamed, RunRuns, RunIsNew, RunHasDump, RunHasFiles, WithRun
<1>4. ASSUME NEW s \in Sources, JobStep(s) \/ LegFails(s), s # t
      PROVE  jobs'[t] = jobs[t]
  BY <1>0, <1>4
     DEF JobStep, HoldForBackup, SkipRun, InsertRun, DumpDatabase, CopyBlobs, SettleRun,
         RecordFailure, ReleaseLock, SelfCheck, LegFails, Now, TypeOK
<1>5. ASSUME HoldForBackup(t) \/ SkipRun(t) \/ ReleaseLock(t) \/ SelfCheck(t)
      PROVE  jobs'[t].stage \notin WithRun
  BY <1>0, <1>5
     DEF HoldForBackup, SkipRun, ReleaseLock, SelfCheck, Now, Idle, WithRun, TypeOK, Job
<1>6. ASSUME AskForBackup \/ EndSweep \/ \E late \in BOOLEAN : ClaimDue(late)
      PROVE  jobs'[t] = jobs[t] \/ jobs'[t].stage \notin WithRun
  BY <1>0, <1>6
  DEF AskForBackup, EndSweep, ClaimDue, Now, Idle, WithRun, TypeOK, Job, Sources
<1>7. CASE Stop
  BY <1>3, <1>7 DEF Stop, Idle, WithRun
<1>8. CASE UNCHANGED jobs
  BY <1>2, <1>8
<1> QED
  BY <1>1, <1>2, <1>3, <1>4, <1>5, <1>6, <1>7, <1>8
     DEF Next, JobStep, BeginUpload, CommitUpload, Release, SweepFile, StartCollector,
         EndCollector, MomentComes, SaveSchedule, RemoveDirectory, ClearDestination,
         AskForRemoval, SweepCopy, BeginRemoval, AskForRestore, RestoreByHand, Start,
         RestoreBlobs, LoadDatabase, LoadFails, RaiseByHand, BuildApp,
         SettleInterruptedRuns, Listen, ConfirmRestore, FinishConfirm, memory

\* A step that changes nothing keeps the invariant, and so does every other.
LEMMA PartsStep == IInv /\ [Next]_vars => IInv'
<1> SUFFICES ASSUME IInv, [Next]_vars PROVE IInv'
  OBVIOUS
<1>1. CASE Next
  <2>1. TypeOK' /\ QuietBeforeUp' /\ OneRunHolds' /\ RunsUnderWay'
    BY <1>1, TypeStep, QuietStep, OneRunStep, RunsStep
  <2>2. FilesAreThere' /\ RestoresAreBounded' /\ Databases' /\ ClaimIsNew' /\ EpochsAreCounted'
    BY <1>1, FilesStep, RestoresStep, DatabasesStep, ClaimStep, EpochsStep
  <2> QED  BY <2>1, <2>2 DEF IInv
<1>2. CASE UNCHANGED vars
  <2> USE <1>2 DEF vars, content, disk, memory, guard, IInv
  <2>1. TypeOK' /\ QuietBeforeUp' /\ OneRunHolds'
    BY DEF TypeOK, QuietBeforeUp, Pending, OneRunHolds, Asking, AtWork
  <2>2. RunsUnderWay'
    BY DEF RunsUnderWay, RunNamed, RunRuns, RunIsNew, RunHasDump, RunHasFiles,
           RemovalIsOfEnded, RowOf
  <2>3. FilesAreThere' /\ RestoresAreBounded'
    BY DEF FilesAreThere, Good, RestoresAreBounded, ComesBy
  <2>4. Databases' /\ ClaimIsNew' /\ EpochsAreCounted'
    BY DEF Databases, Sound, ClaimIsNew, RowOf, EpochsAreCounted, Counted
  <2> QED  BY <2>1, <2>2, <2>3, <2>4
<1> QED  BY <1>1, <1>2

-----------------------------------------------------------------------------
(* What follows.                                                           *)

\* The state keeps its shape: every write of runBackup, of the removals and
\* of a restore leaves rows, directories and epochs of their kinds, whatever
\* meets whatever.
THEOREM TypeCorrect == Spec => []TypeOK
<1>1. IInv => TypeOK
  BY DEF IInv
<1> QED  BY <1>1, InitParts, PartsStep, PTL DEF Spec

\* A moment of the schedule is answered by one run at most (claimDue), through
\* any crashes and any restores of a database whose claim is older.
THEOREM OneRunForAMoment == Spec => []OneRunAMoment
<1>1. IInv => OneRunAMoment
  BY DEF IInv, Databases, Sound, SoundWith, OneRunAMoment, RowOf
<1> QED  BY <1>1, InitParts, PartsStep, PTL DEF Spec

\* A confirmed restore goes on under an epoch nobody was ever answered under
\* (confirmRestore), however many restores there were and however each came.
THEOREM ConfirmedEpochAlwaysNew == Spec => ConfirmedEpochIsNew
<1>1. IInv /\ [Next]_vars => [confirmed' /\ ~confirmed => \A e \in served : e[1] < db'.epoch]_vars
  <2> SUFFICES ASSUME IInv, Next, confirmed', ~confirmed, NEW e \in served
               PROVE  e[1] < db'.epoch
    BY DEF vars
  <2>1. ConfirmRestore
    <3>1. CASE Stop \/ FinishConfirm
      BY <3>1 DEF Stop, FinishConfirm
    <3>2. CASE UNCHANGED confirmed
      BY <3>2
    <3> QED
      BY <3>1, <3>2
         DEF Next, JobStep, BeginUpload, CommitUpload, Release, SweepFile,
             StartCollector,
             EndCollector, AskForBackup, MomentComes, SaveSchedule, ClaimDue,
             HoldForBackup, SkipRun, InsertRun, DumpDatabase, CopyBlobs, SettleRun,
             RecordFailure, ReleaseLock, SelfCheck, LegFails, RemoveDirectory,
             ClearDestination, AskForRemoval, SweepCopy, BeginRemoval, AskForRestore,
             RestoreByHand, EndSweep, Start, RestoreBlobs, LoadDatabase, LoadFails,
             RaiseByHand, BuildApp, SettleInterruptedRuns, Listen, memory
  <2>2. db.epoch \in Nat /\ epochFile \in Nat /\ epochFile # None /\ db.epoch < epochFile
    <3>1. TypeOK
      BY DEF IInv
    <3>2. epochFile # None /\ db.epoch < epochFile
      BY <2>1 DEF ConfirmRestore, Pending
    <3> QED  BY <3>1, <3>2, BoundsType DEF TypeOK, Database
  <2>3. e[1] <= epochFile /\ e[1] \in Nat
    BY <2>2, BoundsType DEF IInv, EpochsAreCounted, TypeOK
  <2>4. db'.epoch = epochFile + 1
    BY <2>1, <2>2 DEF ConfirmRestore, NextEpoch, IInv, TypeOK, Database
  <2> QED  BY <2>2, <2>3, <2>4
<1> QED  BY <1>1, InitParts, PartsStep, PTL DEF Spec, ConfirmedEpochIsNew

\* The good copies change only when a run ends ok and when a directory goes.
LEMMA KeptStays ==
    ASSUME IInv, Next, ~\E s \in Sources : SettleRun(s) \/ RemoveDirectory(s)
    PROVE  Kept' = Kept
<1>0. TypeOK
  BY DEF IInv
<1>1. ASSUME NEW r \in Runs
      PROVE  /\ Good(r)' <=> Good(r)
             /\ Good(r) => copies'[r].dump = copies[r].dump /\ copies'[r].blobs = copies[r].blobs
  <2>1. CASE Good(r)
    <3>1. copies'[r] # None
      <4>1. ASSUME NEW s \in Sources, DumpDatabase(s) \/ CopyBlobs(s)
            PROVE  copies'[r] # None
        <5>1. jobs[s].run # r
          BY <2>1, <4>1
             DEF DumpDatabase, CopyBlobs, AtWork, IInv, RunsUnderWay, RunNamed,
                 RunIsNew,
                 WithRun, Good
        <5> QED  BY <1>0, <2>1, <4>1, <5>1 DEF DumpDatabase, CopyBlobs, TypeOK, Good
      <4>2. CASE UNCHANGED copies
        BY <2>1, <4>2 DEF Good
      <4> QED
        BY <4>1, <4>2
           DEF Next, JobStep, BeginUpload, CommitUpload, Release, SweepFile,
               StartCollector, EndCollector, AskForBackup, MomentComes, SaveSchedule,
               ClaimDue, HoldForBackup, SkipRun, InsertRun, RecordFailure, ReleaseLock,
               SelfCheck, LegFails, ClearDestination, AskForRemoval, SweepCopy,
               BeginRemoval, AskForRestore, RestoreByHand, EndSweep, Stop, Start,
               RestoreBlobs, LoadDatabase, LoadFails, RaiseByHand, BuildApp,
               SettleInterruptedRuns, Listen, ConfirmRestore, FinishConfirm, disk
    <3> QED  BY <2>1, <3>1, GoodStays DEF Good
  <2>2. CASE ~Good(r)
    BY <2>2, CopiesKept DEF Good
  <2> QED  BY <2>1, <2>2
<1> QED  BY <1>1 DEF Kept

\* A run that ends ok publishes its copy, which was none before and holds
\* every file its dump names.
LEMMA SettlingPublishes ==
    ASSUME IInv, NEW s \in Sources, SettleRun(s)
    PROVE  Durable!Publish
<1> DEFINE r == jobs[s].run
           copy == [refs |-> copies[r].dump.refs, blobs |-> copies[r].blobs]
           ended == [copies[r] EXCEPT !.done = TRUE]
<1>0. TypeOK /\ RunsUnderWay /\ db \in Database
  BY DEF IInv, TypeOK
<1>1. /\ r \in Runs /\ copies[r] # None /\ ~copies[r].done /\ copies[r].blobs # None
      /\ copies[r].dump.refs \subseteq copies[r].blobs
  BY <1>0, RunOfJob DEF SettleRun, AtWork, RunsUnderWay, RunNamed, RunHasFiles, WithRun
<1>2. copies[r] \in Copy
  BY <1>0, <1>1 DEF TypeOK
<1>3. ended \in Copy /\ ended.dump = copies[r].dump /\ ended.blobs = copies[r].blobs /\ ended.done
  BY <1>2, CopyChanged
<1>4. copies' = [copies EXCEPT ![r] = ended]
  BY DEF SettleRun
<1> HIDE DEF ended
<1>5. copy \in Durable!Copy /\ copy.refs \subseteq copy.blobs
  <2>1. copies[r].dump.refs \in SUBSET Contents /\ copies[r].blobs \in SUBSET Contents
    BY <1>1, <1>2 DEF Copy, Database
  <2> QED  BY <1>1, <2>1 DEF Durable!Copy
<1>6. Kept[r] = {} /\ Kept' = [Kept EXCEPT ![r] = {copy}]
  <2>1. Kept[r] = {}
    BY <1>1 DEF Kept, Good
  <2>2. \A q \in Runs : q # r => (Good(q)' <=> Good(q)) /\ copies'[q] = copies[q]
    BY <1>0, <1>4 DEF TypeOK, Good
  <2>3. copies'[r] = ended /\ ended # None
    BY <1>0, <1>1, <1>3, <1>4, NoneIsApart DEF TypeOK
  <2>4. \A q \in Runs : Kept'[q] = IF q = r THEN {copy} ELSE Kept[q]
    BY <1>3, <2>2, <2>3 DEF Kept, Good
  <2>5. Kept' = [q \in Runs |-> Kept'[q]] /\ Kept = [q \in Runs |-> Kept[q]]
    BY DEF Kept
  <2> HIDE DEF copy
  <2> QED  BY <1>1, <2>1, <2>4, <2>5
<1>7. UNCHANGED <<db.refs, files>>
  BY RowSteps DEF SettleRun, content
<1> HIDE DEF copy
<1> QED  BY <1>1, <1>5, <1>6, <1>7 DEF Durable!Publish

\* A directory that goes was a good copy, or none that counts.
LEMMA RemovingDiscards ==
    ASSUME IInv, NEW s \in Sources, RemoveDirectory(s)
    PROVE  Durable!Discard \/ UNCHANGED Durable!vars
<1> DEFINE r == removals[s].run
<1>0. TypeOK /\ r \in Runs
  BY RunOfJob DEF IInv, RemoveDirectory
<1>1. copies' = [copies EXCEPT ![r] = None] /\ UNCHANGED <<db, files>>
  BY DEF RemoveDirectory, content
<1>2. \A q \in Runs : Kept'[q] = IF q = r THEN {} ELSE Kept[q]
  BY <1>0, <1>1 DEF TypeOK, Kept, Good
<1>3. Kept' = [q \in Runs |-> Kept'[q]] /\ Kept = [q \in Runs |-> Kept[q]]
  BY DEF Kept
<1>4. CASE Kept[r] = {}
  <2>1. Kept' = Kept
    BY <1>2, <1>3, <1>4
  <2> QED  BY <1>1, <2>1 DEF Durable!vars
<1>5. CASE Kept[r] # {}
  <2>1. Kept' = [Kept EXCEPT ![r] = {}]
    BY <1>0, <1>2, <1>3
  <2> QED  BY <1>0, <1>1, <1>5, <2>1 DEF Durable!Discard
<1> QED  BY <1>4, <1>5

\* A restore puts back the files of a good copy, then its database.
LEMMA RestoringGoesBack ==
    ASSUME IInv
    PROVE  /\ RestoreBlobs => Durable!PutBack \/ UNCHANGED Durable!vars
           /\ LoadDatabase => Durable!GoBack
<1>0. TypeOK /\ FilesAreThere
  BY DEF IInv
<1> DEFINE r == restoring.run
           copy == [refs |-> copies[r].dump.refs, blobs |-> copies[r].blobs]
<1>1. ASSUME RestoreBlobs \/ LoadDatabase, copies[r] # None
      PROVE  r \in Runs /\ Good(r) /\ copy \in Kept[r]
  <2>1. r \in Runs
    BY <1>0, <1>1 DEF RestoreBlobs, LoadDatabase, TypeOK, Restoration
  <2>2. Good(r)
    BY <1>0, <1>1 DEF RestoreBlobs, LoadDatabase, FilesAreThere
  <2> QED  BY <2>1, <2>2 DEF Kept
<1>2. ASSUME RestoreBlobs PROVE Durable!PutBack \/ UNCHANGED Durable!vars
  <2>1. UNCHANGED <<db, copies>> /\ Kept' = Kept
    BY <1>2 DEF RestoreBlobs, disk, Kept, Good
  <2>2. CASE copies[restoring.run] = None
    BY <1>2, <2>1, <2>2 DEF RestoreBlobs, Durable!vars
  <2>3. CASE copies[restoring.run] # None
    <3>1. files' = files \cup copies[restoring.run].blobs
      BY <1>2, <2>3 DEF RestoreBlobs
    <3>2. r \in Runs /\ copy \in Kept[r]
      BY <1>1, <1>2, <2>3
    <3>3. files' = files \cup copy.blobs /\ UNCHANGED <<db.refs, Kept>>
      BY <2>1, <3>1
    <3> HIDE DEF copy, r
    <3> QED  BY <3>2, <3>3 DEF Durable!PutBack
  <2> QED  BY <2>2, <2>3
<1>3. ASSUME LoadDatabase PROVE Durable!GoBack
  <2>1. UNCHANGED <<files, copies>> /\ Kept' = Kept /\ db'.refs = copies[restoring.run].dump.refs
    BY <1>3 DEF LoadDatabase, content, disk, Kept, Good
  <2>2. copies[restoring.run] # None
    BY <1>0, <1>3 DEF LoadDatabase, FilesAreThere
  <2>3. copies[restoring.run].dump.refs \subseteq files
    BY <1>0, <1>1, <1>3, <2>2 DEF LoadDatabase, FilesAreThere
  <2>4. r \in Runs /\ copy \in Kept[r]
    BY <1>1, <1>3, <2>2
  <2>5. copy.refs \subseteq files /\ db'.refs = copy.refs /\ UNCHANGED <<files, Kept>>
    BY <2>1, <2>3
  <2> HIDE DEF copy, r
  <2> QED  BY <2>4, <2>5 DEF Durable!GoBack
<1> QED  BY <1>2, <1>3

\* Every step is one of the promise's, or none.
LEMMA StepsArePromised == IInv /\ [Next]_vars => [Durable!Next]_Durable!vars
<1> SUFFICES ASSUME IInv, [Next]_vars PROVE Durable!Next \/ UNCHANGED Durable!vars
  BY DEF Durable!vars
<1>0. TypeOK /\ FilesAreThere /\ db \in Database
  BY DEF IInv, TypeOK
<1>1. CASE \E s \in Sources : SettleRun(s) \/ RemoveDirectory(s)
  BY <1>1, SettlingPublishes, RemovingDiscards DEF Durable!Next
<1>2. CASE RestoreBlobs \/ LoadDatabase
  BY <1>2, RestoringGoesBack DEF Durable!Next
<1>3. CASE Next /\ ~\E s \in Sources : SettleRun(s) \/ RemoveDirectory(s)
  <2>1. Kept' = Kept
    BY <1>3, KeptStays
  <2>2. ASSUME NEW c \in Contents, BeginUpload(c) PROVE Durable!Store
    BY <2>1, <2>2 DEF BeginUpload, Durable!Store
  <2>3. ASSUME NEW c \in Contents, CommitUpload(c) PROVE Durable!Commit
    <3>1. c \in files /\ db'.refs = db.refs \cup {c} /\ files' = files
      BY <1>0, <2>3 DEF CommitUpload, FilesAreThere, Database
    <3> QED  BY <2>1, <3>1 DEF Durable!Commit
  <2>4. ASSUME NEW c \in Contents, Release(c) PROVE Durable!Release
    <3>1. c \in db.refs /\ db'.refs = db.refs \ {c} /\ files' = files
      BY <1>0, <2>4 DEF Release, Database, content
    <3> QED  BY <2>1, <3>1 DEF Durable!Release
  <2>5. ASSUME NEW c \in Contents, SweepFile(c) PROVE Durable!Sweep
    BY <2>1, <2>5 DEF SweepFile, Durable!Sweep
  <2>6. CASE UNCHANGED files /\ db'.refs = db.refs
    BY <2>1, <2>6 DEF Durable!vars
  <2>7. \/ db'.refs = db.refs \/ LoadDatabase
        \/ \E c \in Contents : CommitUpload(c) \/ Release(c)
    BY <1>3, FieldsStep
  <2>8. \/ UNCHANGED files \/ RestoreBlobs \/ Stop
        \/ \E c \in Contents : BeginUpload(c) \/ SweepFile(c)
    BY <1>3
       DEF Next, JobStep, CommitUpload, Release, StartCollector, EndCollector,
           AskForBackup, MomentComes, SaveSchedule, ClaimDue, HoldForBackup, SkipRun,
           InsertRun, DumpDatabase, CopyBlobs, SettleRun, RecordFailure, ReleaseLock,
           SelfCheck, LegFails, RemoveDirectory, ClearDestination, AskForRemoval,
           SweepCopy, BeginRemoval, AskForRestore, RestoreByHand, EndSweep, Start,
           LoadDatabase, LoadFails, RaiseByHand, BuildApp, SettleInterruptedRuns,
           Listen,
           ConfirmRestore, FinishConfirm, content
  <2>9. Stop => UNCHANGED files
    BY DEF Stop
  <2> QED  BY <1>2, <2>2, <2>3, <2>4, <2>5, <2>6, <2>7, <2>8, <2>9 DEF Durable!Next
<1>4. CASE UNCHANGED vars
  BY <1>4 DEF vars, content, disk, Durable!vars, Kept, Good
<1> QED  BY <1>1, <1>3, <1>4

\* Backups, restores, uploads and the collector together keep what DurableStore
\* promises (runBackup, restoreFrom, runCollector): what the database names
\* has its file, what is called good can be gone back to.
THEOREM KeepsThePromise == Spec => ImplementsDurable
<1>1. Init => Durable!Init
  BY DEF Init, Durable!Init, Kept, Good
<1> QED
  BY <1>1, InitParts, PartsStep, StepsArePromised, PTL
  DEF Spec, ImplementsDurable, Durable!Spec
=============================================================================
