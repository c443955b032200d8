----------------------------- MODULE LocksProofs -----------------------------
(***************************************************************************)
(* Proofs about what is shared under a Redis lock or an asyncio one, for   *)
(* any number of processes and any lifetimes: the ownerless lock of        *)
(* backups and restores, and the files and rows it does not protect; the   *)
(* owned one of the token refresh; and the lock of an MCP session that is  *)
(* let go while the session is in use.                                     *)
(***************************************************************************)
EXTENDS Integers, Backups, Tokens, McpSessions, NatLemmas, FiniteSetTheorems, TLAPS

-----------------------------------------------------------------------------
(* Backups                                                                 *)

\* What a backup or a restore knows.
JobShape == [pc : Critical \cup {"idle", "acquire"}, of : Nat, left : Int, todo : SUBSET Nat]

\* The jobs and the lock are in their ranges.
JobsShaped ==
    /\ job \in [Dumpers \cup Restorers -> JobShape]
    /\ made \in Nat /\ bk_lock \in Nat

\* While nobody has outlived it, the lock is there for as long as someone needs it.
LockCovers ==
    bk_lapsed \/ /\ \A i, j \in Holders : i = j
                 /\ Holders # {} => bk_lock > 0

\* The inductive invariant of the jobs.
BackupsInv == JobsShaped /\ LockCovers

\* Initially everyone is idle.
LEMMA InitBackups == BackupsInit => BackupsInv
  BY DEF BackupsInit, NoJob, BackupsInv, JobsShaped, JobShape, LockCovers, Holders, Critical

\* A step that neither takes nor frees the lock lets nobody into the critical section.
LEMMA OutsideTheLock ==
  ASSUME BackupsInv, NEW i \in Dumpers \cup Restorers, NEW x \in JobShape,
         job' = [job EXCEPT ![i] = x], x.pc \in Critical => job[i].pc \in Critical,
         made' \in Nat, bk_lock' = bk_lock, bk_lapsed' = bk_lapsed
  PROVE  BackupsInv'
<1>1. JobsShaped'
  BY DEF BackupsInv, JobsShaped
<1>2. DOMAIN job = Dumpers \cup Restorers /\ DOMAIN job' = Dumpers \cup Restorers
  BY DEF BackupsInv, JobsShaped
<1>3. Holders' \subseteq Holders
  BY <1>2 DEF Holders
<1> QED
  BY <1>1, <1>3 DEF BackupsInv, LockCovers

\* The lock is taken when it is not there, that is when nobody is inside.
LEMMA LockTaken ==
  ASSUME BackupsInv, NEW j \in Dumpers \cup Restorers, NEW next \in Critical, BackupAcquire(j, next)
  PROVE  BackupsInv'
<1>1. /\ bk_lock = 0 /\ bk_lock' = LockLife /\ bk_lapsed' = bk_lapsed /\ made' = made
      /\ job' = [job EXCEPT ![j].pc = next]
  BY DEF BackupAcquire, BkGoto, storage
<1>2. LockLife \in Nat /\ LockLife > 0
  BY BackupsAssumption
<1>3. JobsShaped'
  BY <1>1, <1>2 DEF BackupsInv, JobsShaped, JobShape
<1>4. \A i \in Dumpers \cup Restorers : i # j => job'[i] = job[i]
  BY <1>1 DEF BackupsInv, JobsShaped
<1>5. DOMAIN job = Dumpers \cup Restorers /\ DOMAIN job' = Dumpers \cup Restorers
  BY <1>1 DEF BackupsInv, JobsShaped
<1>6. Holders' \subseteq Holders \cup {j}
  BY <1>4, <1>5 DEF Holders
<1>7. bk_lapsed \/ Holders = {}
  BY <1>1 DEF BackupsInv, LockCovers
<1> QED
  BY <1>1, <1>2, <1>3, <1>6, <1>7 DEF BackupsInv, LockCovers

\* The lock is freed by the one who is inside.
LEMMA LockFreed ==
  ASSUME BackupsInv, NEW j \in Dumpers \cup Restorers, BackupRelease(j)
  PROVE  BackupsInv'
<1>1. /\ job[j].pc = "release" /\ bk_lock' = 0 /\ bk_lapsed' = bk_lapsed /\ made' = made
      /\ job' = [job EXCEPT ![j] = NoJob]
  BY DEF BackupRelease, BkAt, storage
<1>2. NoJob \in JobShape /\ NoJob.pc \notin Critical
  BY DEF NoJob, JobShape, Critical
<1>3. JobsShaped'
  BY <1>1, <1>2 DEF BackupsInv, JobsShaped
<1>4. DOMAIN job = Dumpers \cup Restorers /\ DOMAIN job' = Dumpers \cup Restorers
  BY <1>1 DEF BackupsInv, JobsShaped
<1>5. j \in Holders /\ Holders' = Holders \ {j}
  <2>1. job'[j] = NoJob /\ \A i \in Dumpers \cup Restorers : i # j => job'[i] = job[i]
    BY <1>1 DEF BackupsInv, JobsShaped
  <2>2. job[j].pc \in Critical
    BY <1>1 DEF Critical
  <2> QED
    BY <1>2, <1>4, <2>1, <2>2 DEF Holders
<1>6. bk_lapsed \/ Holders' = {}
  BY <1>5 DEF BackupsInv, LockCovers
<1> QED
  BY <1>1, <1>3, <1>6 DEF BackupsInv, LockCovers

\* Either the lock outlives the tick, or whoever is inside is recorded.
LEMMA LockAges == BackupsInv /\ BackupsClock => BackupsInv'
<1> SUFFICES ASSUME BackupsInv, BackupsClock PROVE BackupsInv'
  OBVIOUS
<1>1. /\ bk_lock > 0 /\ bk_lock' = bk_lock - 1 /\ made' = made
      /\ bk_lapsed' = (bk_lapsed \/ (bk_lock = 1 /\ Holders # {}))
      /\ job' = [j \in DOMAIN job |-> IF job[j].pc \in {"dump", "restore"}
                                      THEN [job[j] EXCEPT !.left = @ - 1] ELSE job[j]]
  BY DEF BackupsClock, storage
<1>2. \A x \in JobShape : [x EXCEPT !.left = @ - 1] \in JobShape /\ [x EXCEPT !.left = @ - 1].pc = x.pc
  BY DEF JobShape
<1>3. DOMAIN job = Dumpers \cup Restorers /\ \A j \in DOMAIN job : job[j] \in JobShape
  BY DEF BackupsInv, JobsShaped
<1>4. /\ job' \in [Dumpers \cup Restorers -> JobShape]
      /\ \A j \in DOMAIN job : job'[j].pc = job[j].pc
  BY <1>1, <1>2, <1>3
<1>5. JobsShaped'
  BY <1>1, <1>4 DEF BackupsInv, JobsShaped
<1>6. Holders' = Holders
  BY <1>3, <1>4 DEF Holders
<1>7. bk_lock \in Nat
  BY DEF BackupsInv, JobsShaped
<1>8. Holders # {} => bk_lock' > 0 \/ bk_lapsed'
  <2>1. CASE bk_lock = 1
    BY <1>1, <2>1, Zenon
  <2>2. CASE bk_lock # 1
    BY <1>1, <1>7, <2>2
  <2> QED
    BY <2>1, <2>2
<1> QED
  BY <1>1, <1>5, <1>6, <1>7, <1>8 DEF BackupsInv, LockCovers

\* The steps of a dump outside the lock's own.
LEMMA DumpKeeps ==
  ASSUME BackupsInv, NEW d \in Dumpers, Dump(d)
  PROVE  BackupsInv'
<1>a. /\ d \in Dumpers \cup Restorers /\ job[d] \in JobShape /\ made \in Nat
      /\ DOMAIN job = Dumpers \cup Restorers
  BY DEF BackupsInv, JobsShaped
<1>b. \A pc \in Critical \cup {"idle", "acquire"} :
        [job[d] EXCEPT !.pc = pc] \in JobShape /\ [job[d] EXCEPT !.pc = pc].pc = pc
  BY <1>a DEF JobShape
<1>c. NoJob \in JobShape /\ NoJob.pc \notin Critical
  BY DEF NoJob, JobShape, Critical
<1>d. Backup \subseteq Nat /\ Excess \subseteq Nat
  BY DEF Backup, Excess, Scheduled
<1>1. CASE BackupStart(d)
  <2>1. job' = [job EXCEPT ![d] = [job[d] EXCEPT !.pc = "acquire"]] /\ "acquire" \notin Critical
    BY <1>1 DEF BackupStart, BkGoto, Critical
  <2> QED
    BY <1>1, <1>a, <1>b, <2>1, OutsideTheLock DEF BackupStart, storage
<1>2. CASE BackupBusy(d) \/ DumperLost(d)
  BY <1>2, <1>a, <1>c, OutsideTheLock DEF BackupBusy, DumperLost, storage
<1>3. ASSUME NEW k \in Kinds, DumpOpens(d, k) PROVE BackupsInv'
  <2> DEFINE x == [job[d] EXCEPT !.pc = "dump", !.of = made + 1, !.left = DumpLimit]
  <2>0. "dump" \in Critical /\ made + 1 \in Nat /\ DumpLimit \in Int
    BY <1>a, BackupsAssumption DEF Critical
  <2>1. x \in JobShape
    BY <1>a, <2>0 DEF JobShape
  <2>2. job' = [job EXCEPT ![d] = x] /\ job[d].pc \in Critical
    BY <1>3 DEF DumpOpens, BkAt, Critical
  <2>3. made' \in Nat /\ bk_lock' = bk_lock /\ bk_lapsed' = bk_lapsed
    BY <1>3, <1>a DEF DumpOpens
  <2> QED
    BY <1>a, <2>1, <2>2, <2>3, OutsideTheLock
<1>4. CASE DumpEnds(d) \/ DumpFails(d) \/ RecordBackup(d)
  <2>1. job[d].pc \in Critical /\ \E pc \in Critical : job' = [job EXCEPT ![d] = [job[d] EXCEPT !.pc = pc]]
    BY <1>4 DEF DumpEnds, DumpFails, RecordBackup, BkAt, BkGoto, Critical
  <2>2. made' = made /\ bk_lock' = bk_lock /\ bk_lapsed' = bk_lapsed
    BY <1>4 DEF DumpEnds, DumpFails, RecordBackup
  <2> QED
    BY <1>a, <1>b, <2>1, <2>2, OutsideTheLock
<1>5. CASE RotationLists(d) \/ RotationMarks(d) \/ \E b \in Backup : RotationUnlinks(d, b)
  <2>1. /\ job[d].pc \in Critical /\ made' = made /\ bk_lock' = bk_lock /\ bk_lapsed' = bk_lapsed
    BY <1>5 DEF RotationLists, RotationMarks, RotationUnlinks, BkAt, Critical, storage
  <2>2. PICK x \in JobShape : job' = [job EXCEPT ![d] = x]
    <3>1. CASE RotationLists(d)
      <4> DEFINE x == [job[d] EXCEPT !.pc = IF Excess = {} THEN "release" ELSE "rotate", !.todo = Excess]
      <4>1. x \in JobShape
        BY <1>a, <1>d DEF JobShape, Critical
      <4>2. job' = [job EXCEPT ![d] = x]
        BY <3>1 DEF RotationLists
      <4> QED
        BY <4>1, <4>2
    <3>2. CASE RotationMarks(d)
      <4> DEFINE left == IF rows[job[d].of] = "none" THEN {} ELSE job[d].todo \ {job[d].of}
                 x == [job[d] EXCEPT !.pc = IF left = {} THEN "release" ELSE "rotate", !.todo = left]
      <4>1. x \in JobShape
        BY <1>a DEF JobShape, Critical
      <4>2. job' = [job EXCEPT ![d] = x]
        BY <3>2 DEF RotationMarks
      <4> QED
        BY <4>1, <4>2
    <3>3. ASSUME NEW b \in Backup, RotationUnlinks(d, b)
          PROVE  \E x \in JobShape : job' = [job EXCEPT ![d] = x]
      <4> DEFINE x == [job[d] EXCEPT !.pc = "mark", !.of = b]
      <4>1. x \in JobShape
        BY <1>a, <1>d DEF JobShape, Critical
      <4>2. job' = [job EXCEPT ![d] = x]
        BY <3>3 DEF RotationUnlinks
      <4> QED
        BY <4>1, <4>2
    <3> QED
      BY <1>5, <3>1, <3>2, <3>3
  <2> QED
    BY <1>a, <2>1, <2>2, OutsideTheLock
<1>6. CASE BackupAcquire(d, "open") \/ BackupRelease(d)
  BY <1>6, <1>a, LockTaken, LockFreed DEF Critical
<1> QED
  BY <1>1, <1>2, <1>3, <1>4, <1>5, <1>6 DEF Dump

\* The steps of a restore outside the lock's own.
LEMMA RestoreKeeps ==
  ASSUME BackupsInv, NEW r \in Restorers, Restore(r)
  PROVE  BackupsInv'
<1>a. /\ r \in Dumpers \cup Restorers /\ job[r] \in JobShape /\ made \in Nat
      /\ DOMAIN job = Dumpers \cup Restorers
  BY DEF BackupsInv, JobsShaped
<1>1. ASSUME NEW b \in Backup, RestoreRequested(r, b) PROVE BackupsInv'
  <2> DEFINE x == [job[r] EXCEPT !.pc = "acquire", !.of = b]
  <2>0. "acquire" \notin Critical /\ b \in Nat
    BY DEF Critical, Backup
  <2>1. x \in JobShape /\ x.pc \notin Critical
    BY <1>a, <2>0 DEF JobShape
  <2>2. job' = [job EXCEPT ![r] = x] /\ made' = made /\ bk_lock' = bk_lock /\ bk_lapsed' = bk_lapsed
    BY <1>1 DEF RestoreRequested, storage
  <2> QED
    BY <1>a, <2>1, <2>2, OutsideTheLock
<1>2. CASE BackupBusy(r)
  <2>1. NoJob \in JobShape /\ NoJob.pc \notin Critical
    BY DEF NoJob, JobShape, Critical
  <2> QED
    BY <1>2, <1>a, <2>1, OutsideTheLock DEF BackupBusy, storage
<1>3. CASE RestoreStarts(r) \/ RestoreEnds(r)
  <2>1. job[r].pc \in Critical /\ made' = made /\ bk_lock' = bk_lock /\ bk_lapsed' = bk_lapsed
    BY <1>3 DEF RestoreStarts, RestoreEnds, BkAt, Critical, storage
  <2>2. PICK x \in JobShape : job' = [job EXCEPT ![r] = x]
    <3>1. /\ [job[r] EXCEPT !.pc = "restore", !.left = DumpLimit] \in JobShape
          /\ [job[r] EXCEPT !.pc = "release"] \in JobShape
      <4>1. "restore" \in Critical /\ "release" \in Critical /\ DumpLimit \in Int
        BY BackupsAssumption DEF Critical
      <4> QED
        BY <1>a, <4>1 DEF JobShape
    <3>2. \/ job' = [job EXCEPT ![r] = [job[r] EXCEPT !.pc = "restore", !.left = DumpLimit]]
          \/ job' = [job EXCEPT ![r] = [job[r] EXCEPT !.pc = "release"]]
      BY <1>3 DEF RestoreStarts, RestoreEnds, BkGoto
    <3> QED
      BY <3>1, <3>2
  <2> QED
    BY <1>a, <2>1, <2>2, OutsideTheLock
<1>4. CASE BackupAcquire(r, "check") \/ BackupRelease(r)
  BY <1>4, <1>a, LockTaken, LockFreed DEF Critical
<1> QED
  BY <1>1, <1>2, <1>3, <1>4 DEF Restore

\* For any number of workers, restores and backups, and any lifetime of the lock: dumps
\* and restores are one at a time until one of them outlives the lock.
THEOREM BackupsOneAtATime == BackupsSpec => []BackupExclusive
<1>1. BackupsInv /\ [BackupsNext]_backupsVars => BackupsInv'
  <2> SUFFICES ASSUME BackupsInv, [BackupsNext]_backupsVars PROVE BackupsInv'
    OBVIOUS
  <2>1. CASE UNCHANGED backupsVars \/ \E b \in Backup : DeleteUnlinks(b) \/ DeleteMarks(b)
    <3>1. UNCHANGED <<made, job, bk_lock, bk_lapsed>>
      BY <2>1 DEF backupsVars, storage, requests, DeleteUnlinks, DeleteMarks
    <3> QED
      BY <3>1 DEF BackupsInv, JobsShaped, LockCovers, Holders
  <2>2. CASE BackupsNext
    BY <2>1, <2>2, DumpKeeps, RestoreKeeps, LockAges DEF BackupsNext
  <2> QED
    BY <2>1, <2>2
<1>2. BackupsInv => BackupExclusive
  BY DEF BackupsInv, LockCovers, BackupExclusive
<1> QED
  BY <1>1, <1>2, InitBackups, PTL DEF BackupsSpec

(* What the lock does not protect: the files and the rows, which rotation, *)
(* restores and deletions change side by side. The invariant's core is     *)
(* that the newest backup on any list, marked or archived as rotated still *)
(* has Keep newer ones, so that no mark, however late, goes too far.       *)

\* Workers and requests.
Procs == Dumpers \cup Restorers

\* What is to be rotated, or may come back as rotated: by a row, by one an archive
\* holds, or by the list of a rotation under way.
Marked ==
    {b \in Backup : \/ rows[b] = "rotated"
                    \/ \E a \in Backup : archive[a][b] = "rotated"
                    \/ \E j \in DOMAIN job : b \in job[j].todo}

\* The scheduled backups newer than any of those.
Spared == {c \in Backup : kind[c] = "scheduled" /\ \A b \in Marked : created[c] > created[b]}

\* However many lists are worked through, there are Keep newer than all of them.
KeepSpared == Marked # {} => Cardinality(Spared) >= Keep

\* A backup is listed, archived or to be rotated only once it is recorded.
RecordedFirst ==
    \A b \in Backup :
        /\ created[b] > 0 => b <= made
        /\ created[b] = 0 => /\ rows[b] = "none" /\ b \notin deleting
                             /\ \A a \in Backup : archive[a][b] = "none"
                             /\ \A j \in DOMAIN job : b \notin job[j].todo

\* A dump under way has a file of its own, which is not recorded.
Dumping(j) == job[j].pc \in {"dump", "record"}
DumpsApart ==
    /\ \A j \in DOMAIN job :
        Dumping(j) => /\ job[j].of \in 1 .. made /\ created[job[j].of] = 0 /\ job[j].of \in files
                      /\ job[j].of \in whole <=> job[j].pc = "record"
    /\ \A i, j \in DOMAIN job : Dumping(i) /\ Dumping(j) /\ job[i].of = job[j].of => i = j

\* A recorded backup is whole while its file is there.
FilesWhole == \A b \in Backup : created[b] > 0 /\ b \in files => b \in whole

\* What a rotation marks is on its list, and a restore is of some backup.
JobsKnown ==
    /\ \A j \in DOMAIN job : job[j].pc = "mark" => job[j].of \in job[j].todo
    /\ \A r \in Restorers : job[r].pc # "idle" => job[r].of \in Backup

\* A row that is trusted has its dump, but for the ghosts.
TrustedRows == \A b \in Backup : rows[b] = "ok" => b \in whole \cup ghosts

\* The inductive invariant of the files and the rows.
FilesInv ==
    /\ BackupsTypeOK /\ RecordedFirst /\ DumpsApart /\ FilesWhole /\ JobsKnown
    /\ TrustedRows /\ KeepSpared


\* What a job knows, and what its record becomes.
LEMMA JobFields ==
  ASSUME NEW x \in Jobs
  PROVE  /\ x.pc \in Critical \cup {"idle", "acquire"} /\ x.of \in 0 .. MaxBackups
         /\ x.left \in 0 .. DumpLimit /\ x.todo \in SUBSET Backup
         /\ \A pc \in Critical \cup {"idle", "acquire"} : [x EXCEPT !.pc = pc] \in Jobs
         /\ NoJob \in Jobs
<1>1. 0 \in 0 .. MaxBackups /\ 0 \in 0 .. DumpLimit
  BY BackupsAssumption
<1>2. NoJob \in Jobs
  BY <1>1 DEF Jobs, NoJob
<1>3. /\ x.pc \in Critical \cup {"idle", "acquire"} /\ x.of \in 0 .. MaxBackups
      /\ x.left \in 0 .. DumpLimit /\ x.todo \in SUBSET Backup
  BY DEF Jobs
<1>4. ASSUME NEW pc \in Critical \cup {"idle", "acquire"} PROVE [x EXCEPT !.pc = pc] \in Jobs
  BY DEF Jobs
<1> QED
  BY <1>2, <1>3, <1>4

\* A step of one worker or request leaves the others where they are.
LEMMA OneJob ==
  ASSUME BackupsTypeOK, NEW i \in Procs, NEW x \in Jobs, job' = [job EXCEPT ![i] = x]
  PROVE  /\ job' \in [Procs -> Jobs] /\ DOMAIN job = Procs /\ DOMAIN job' = Procs
         /\ job'[i] = x /\ \A j \in Procs : j # i => job'[j] = job[j]
  BY DEF BackupsTypeOK, Procs

\* A step that marks and lists nothing new, and leaves what is recorded as it is, spares
\* what was spared.
LEMMA SparedStay ==
  ASSUME FilesInv, Marked' \subseteq Marked, created' \in [Backup -> Nat],
         \A b \in Backup : created[b] > 0 => created'[b] = created[b] /\ kind'[b] = kind[b]
  PROVE  KeepSpared'
<1>a. created \in [Backup -> Nat] /\ IsFiniteSet(Backup) /\ Keep \in Nat
  <2>1. MaxBackups \in Nat /\ Keep \in Nat /\ 0 .. MaxBackups \subseteq Nat
    BY BackupsAssumption
  <2>2. IsFiniteSet(Backup)
    BY <2>1, FS_Interval DEF Backup
  <2>3. created \in [Backup -> 0 .. MaxBackups]
    BY DEF FilesInv, BackupsTypeOK
  <2> QED
    BY <2>1, <2>2, <2>3
<1>b. \A b \in Marked : b \in Backup /\ created[b] > 0
  <2>1. ASSUME NEW b \in Marked, created[b] = 0 PROVE FALSE
    BY <2>1 DEF Marked, FilesInv, RecordedFirst
  <2> QED
    BY <1>a, <2>1 DEF Marked
<1> SUFFICES ASSUME Marked' # {} PROVE Cardinality(Spared') >= Keep
  BY DEF KeepSpared
<1>1. Marked # {} /\ Cardinality(Spared) >= Keep
  BY DEF FilesInv, KeepSpared
<1>2. Spared \subseteq Spared'
  <2> SUFFICES ASSUME NEW c \in Spared PROVE c \in Spared'
    OBVIOUS
  <2>1. c \in Backup /\ kind[c] = "scheduled" /\ \A b \in Marked : created[c] > created[b]
    BY DEF Spared
  <2>2. created[c] > 0
    BY <1>a, <1>b, <1>1, <2>1
  <2>3. created'[c] = created[c] /\ kind'[c] = "scheduled"
    BY <2>1, <2>2
  <2>4. \A b \in Marked' : created'[c] > created'[b]
    BY <1>b, <2>1, <2>3
  <2> QED
    BY <2>1, <2>3, <2>4 DEF Spared, Backup
<1>3. Spared' \subseteq Backup
  BY DEF Spared, Backup
<1>4. /\ IsFiniteSet(Spared') /\ Cardinality(Spared) <= Cardinality(Spared')
      /\ Cardinality(Spared) \in Nat /\ Cardinality(Spared') \in Nat
  <2>1. IsFiniteSet(Spared')
    BY <1>a, <1>3, FS_Subset
  <2> QED
    BY <1>2, <2>1, FS_Subset, FS_CardinalityType
<1> QED
  BY <1>a, <1>1, <1>4

\* A step of a job that touches no file and no row: it may end, wait, or shorten its
\* list, but neither opens a dump nor comes to mark one.
LEMMA JobsMove ==
  ASSUME FilesInv, UNCHANGED <<storage, rows, deleting, ghosts>>, BackupsTypeOK',
         \A j \in Procs : /\ job'[j].todo \subseteq job[j].todo
                          /\ \/ job'[j].pc \notin {"dump", "record", "mark"}
                             \/ job'[j].pc = job[j].pc /\ job'[j].of = job[j].of
                                /\ job'[j].todo = job[j].todo,
         \A r \in Restorers : job'[r].pc # "idle" => job'[r].of \in Backup
  PROVE  FilesInv'
<1>a. DOMAIN job = Procs /\ DOMAIN job' = Procs /\ Restorers \subseteq Procs
  BY DEF FilesInv, BackupsTypeOK, Procs
<1>b. UNCHANGED <<made, created, kind, files, whole, archive, rows, deleting, ghosts>>
  BY DEF storage
<1>c. Marked' \subseteq Marked
  BY <1>a, <1>b DEF Marked, Backup
<1>1. RecordedFirst'
  BY <1>a, <1>b DEF FilesInv, RecordedFirst, Backup
<1>2. DumpsApart'
  BY <1>a, <1>b DEF FilesInv, DumpsApart, Dumping
<1>3. FilesWhole' /\ TrustedRows'
  BY <1>b DEF FilesInv, FilesWhole, TrustedRows, Backup
<1>4. JobsKnown'
  BY <1>a DEF FilesInv, JobsKnown, Backup
<1>5. KeepSpared'
  <2>1. created' \in [Backup -> Nat]
    BY <1>b DEF FilesInv, BackupsTypeOK
  <2> QED
    BY <1>b, <1>c, <2>1, SparedStay
<1> QED
  BY <1>1, <1>2, <1>3, <1>4, <1>5 DEF FilesInv

\* The types, but for the jobs', of a step that touches no file and no row.
LEMMA JobTypes ==
  ASSUME BackupsTypeOK, UNCHANGED <<storage, rows, ghosts>>, job' \in [Procs -> Jobs],
         bk_lock' \in 0 .. LockLife, deleting' = deleting, upsets' \in 0 .. MaxUpsets,
         bk_lapsed' \in BOOLEAN
  PROVE  BackupsTypeOK'
  BY DEF BackupsTypeOK, storage, Procs, Backup

\* The steps of the lock, and those that only begin or end a job.
LEMMA LockSteps ==
  ASSUME FilesInv, NEW j \in Procs,
         \/ j \in Dumpers /\ BackupAcquire(j, "open")
         \/ j \in Restorers /\ BackupAcquire(j, "check")
         \/ BackupBusy(j) \/ BackupRelease(j)
         \/ j \in Dumpers /\ DumperLost(j)
         \/ j \in Restorers /\ RestoreStarts(j)
         \/ j \in Restorers /\ \E b \in Backup : RestoreRequested(j, b)
  PROVE  FilesInv'
<1>a. /\ BackupsTypeOK /\ job[j] \in Jobs /\ DOMAIN job = Procs
      /\ bk_lock \in 0 .. LockLife /\ upsets \in 0 .. MaxUpsets /\ bk_lapsed \in BOOLEAN
      /\ LockLife \in Nat /\ MaxUpsets \in Nat /\ DumpLimit \in Nat
  BY BackupsAssumption DEF FilesInv, BackupsTypeOK, Procs
<1>b. UNCHANGED <<storage, rows, deleting, ghosts, bk_lapsed>>
  BY DEF BackupAcquire, BackupBusy, BackupRelease, DumperLost, RestoreStarts, RestoreRequested, requests
<1>c. bk_lock' \in 0 .. LockLife
  BY <1>a DEF BackupAcquire, BackupBusy, BackupRelease, DumperLost, RestoreStarts, RestoreRequested
<1>d. upsets' \in 0 .. MaxUpsets
  BY <1>a DEF BackupAcquire, BackupBusy, BackupRelease, DumperLost, RestoreStarts, RestoreRequested,
              requests, Upset
<1>e. NoJob.pc = "idle" /\ NoJob.todo = {}
  BY DEF NoJob
<1>1. PICK x \in Jobs :
        /\ job' = [job EXCEPT ![j] = x] /\ x.todo \subseteq job[j].todo
        /\ x.pc \notin {"dump", "record", "mark"}
        /\ j \in Restorers /\ x.pc # "idle" => x.of \in Backup
  <2>1. CASE BackupBusy(j) \/ BackupRelease(j) \/ DumperLost(j)
    <3>1. job' = [job EXCEPT ![j] = NoJob] /\ NoJob \in Jobs
      BY <1>a, <2>1, JobFields DEF BackupBusy, BackupRelease, DumperLost
    <3> QED
      BY <3>1, <1>e
  <2>2. CASE j \in Dumpers /\ BackupAcquire(j, "open")
    <3> DEFINE x == [job[j] EXCEPT !.pc = "open"]
    <3>1. job' = [job EXCEPT ![j] = x] /\ x \in Jobs
      BY <1>a, <2>2, JobFields DEF BackupAcquire, BkGoto, Critical
    <3>2. x.pc = "open" /\ x.todo = job[j].todo
      BY <1>a DEF Jobs
    <3> QED
      BY <3>1, <3>2, <2>2, BackupsAssumption
  <2>3. CASE j \in Restorers /\ BackupAcquire(j, "check")
    <3> DEFINE x == [job[j] EXCEPT !.pc = "check"]
    <3>1. job' = [job EXCEPT ![j] = x] /\ x \in Jobs
      BY <1>a, <2>3, JobFields DEF BackupAcquire, BkGoto, Critical
    <3>2. x.pc = "check" /\ x.todo = job[j].todo /\ x.of = job[j].of
      BY <1>a DEF Jobs
    <3>3. job[j].of \in Backup
      BY <2>3 DEF BackupAcquire, BkAt, FilesInv, JobsKnown
    <3> QED
      BY <3>1, <3>2, <3>3
  <2>4. CASE j \in Restorers /\ RestoreStarts(j)
    <3> DEFINE y == [job[j] EXCEPT !.pc = "restore", !.left = DumpLimit]
               z == [job[j] EXCEPT !.pc = "release"]
    <3>1. z \in Jobs
      BY <1>a, JobFields DEF Critical
    <3>2. y \in Jobs
      <4>1. DumpLimit \in 0 .. DumpLimit /\ "restore" \in Critical
        BY <1>a DEF Critical
      <4> QED
        BY <1>a, <4>1 DEF Jobs
    <3>3. job' = [job EXCEPT ![j] = y] \/ job' = [job EXCEPT ![j] = z]
      BY <2>4 DEF RestoreStarts
    <3>4. /\ y.pc = "restore" /\ y.todo = job[j].todo /\ y.of = job[j].of
          /\ z.pc = "release" /\ z.todo = job[j].todo /\ z.of = job[j].of
      BY <1>a DEF Jobs
    <3>5. job[j].of \in Backup
      BY <2>4 DEF RestoreStarts, BkAt, FilesInv, JobsKnown
    <3> HIDE DEF y, z
    <3> QED
      BY <3>1, <3>2, <3>3, <3>4, <3>5
  <2>5. ASSUME NEW b \in Backup, j \in Restorers, RestoreRequested(j, b)
        PROVE  \E x \in Jobs :
                 /\ job' = [job EXCEPT ![j] = x] /\ x.todo \subseteq job[j].todo
                 /\ x.pc \notin {"dump", "record", "mark"}
                 /\ j \in Restorers /\ x.pc # "idle" => x.of \in Backup
    <3> DEFINE x == [job[j] EXCEPT !.pc = "acquire", !.of = b]
    <3>0. b \in 0 .. MaxBackups
      BY BackupsAssumption DEF Backup
    <3>1. x \in Jobs
      BY <1>a, <3>0 DEF Jobs
    <3>2. job' = [job EXCEPT ![j] = x]
      BY <2>5 DEF RestoreRequested
    <3>3. x.pc = "acquire" /\ x.todo = job[j].todo /\ x.of = b
      BY <1>a DEF Jobs
    <3> HIDE DEF x
    <3> QED
      BY <3>1, <3>2, <3>3
  <2> QED
    BY <2>1, <2>2, <2>3, <2>4, <2>5
<1>2. /\ job' \in [Procs -> Jobs] /\ DOMAIN job' = Procs
      /\ job'[j] = x /\ \A i \in Procs : i # j => job'[i] = job[i]
  BY <1>a, <1>1, OneJob
<1>3. BackupsTypeOK'
  BY <1>a, <1>b, <1>c, <1>d, <1>2, JobTypes
<1>4. \A i \in Procs : /\ job'[i].todo \subseteq job[i].todo
                       /\ \/ job'[i].pc \notin {"dump", "record", "mark"}
                          \/ job'[i].pc = job[i].pc /\ job'[i].of = job[i].of
                             /\ job'[i].todo = job[i].todo
  BY <1>1, <1>2
<1>5. \A r \in Restorers : job'[r].pc # "idle" => job'[r].of \in Backup
  BY <1>1, <1>2 DEF FilesInv, JobsKnown, Procs
<1> QED
  BY <1>b, <1>3, <1>4, <1>5, JobsMove

\* The lock and the subprocesses age.
LEMMA FilesAge == FilesInv /\ BackupsClock => FilesInv'
<1> SUFFICES ASSUME FilesInv, BackupsClock PROVE FilesInv'
  OBVIOUS
<1>a. /\ BackupsTypeOK /\ DOMAIN job = Procs /\ \A j \in Procs : job[j] \in Jobs
      /\ bk_lock \in 0 .. LockLife /\ upsets \in 0 .. MaxUpsets /\ bk_lapsed \in BOOLEAN
      /\ LockLife \in Nat /\ DumpLimit \in Nat
  BY BackupsAssumption DEF FilesInv, BackupsTypeOK, Procs
<1>b. UNCHANGED <<storage, rows, deleting, ghosts, upsets>>
  BY DEF BackupsClock, requests
<1>c. bk_lock' \in 0 .. LockLife
  BY <1>a DEF BackupsClock
<1>d. bk_lapsed' \in BOOLEAN
  BY <1>a, Zenon DEF BackupsClock
<1>1. ASSUME NEW x \in Jobs, x.left > 0
      PROVE  /\ [x EXCEPT !.left = @ - 1] \in Jobs /\ [x EXCEPT !.left = @ - 1].pc = x.pc
             /\ [x EXCEPT !.left = @ - 1].of = x.of /\ [x EXCEPT !.left = @ - 1].todo = x.todo
  <2>1. x.left - 1 \in 0 .. DumpLimit
    BY <1>a, <1>1 DEF Jobs
  <2> QED
    BY <2>1 DEF Jobs
<1>2. \A j \in Procs : job[j].pc \in {"dump", "restore"} => job[j].left > 0
  BY <1>a DEF BackupsClock
<1>3. job' = [j \in Procs |-> IF job[j].pc \in {"dump", "restore"}
                              THEN [job[j] EXCEPT !.left = @ - 1] ELSE job[j]]
  BY <1>a DEF BackupsClock
<1>4. ASSUME NEW j \in Procs
      PROVE  /\ job'[j] \in Jobs /\ job'[j].pc = job[j].pc /\ job'[j].of = job[j].of
             /\ job'[j].todo = job[j].todo
  BY <1>a, <1>1, <1>2, <1>3, <1>4
<1>5. job' \in [Procs -> Jobs]
  BY <1>3, <1>4
<1>6. BackupsTypeOK'
  BY <1>a, <1>b, <1>c, <1>d, <1>5, JobTypes
<1>7. \A r \in Restorers : job'[r].pc # "idle" => job'[r].of \in Backup
  BY <1>4 DEF FilesInv, JobsKnown, Procs
<1> QED
  BY <1>b, <1>4, <1>6, <1>7, JobsMove

\* A dump begins by setting the rows whose file is gone to missing.
LEMMA StartReconciles ==
  ASSUME FilesInv, NEW d \in Dumpers, BackupStart(d)
  PROVE  FilesInv'
<1> DEFINE x == [job[d] EXCEPT !.pc = "acquire"]
<1>a. BackupsTypeOK /\ d \in Procs /\ job[d] \in Jobs /\ DOMAIN job = Procs
  BY DEF FilesInv, BackupsTypeOK, Procs
<1>b. /\ UNCHANGED <<made, created, kind, files, whole, archive, bk_lock, deleting, upsets, bk_lapsed>>
      /\ rows' = [b \in Backup |-> IF rows[b] = "ok" /\ b \notin files THEN "missing" ELSE rows[b]]
      /\ ghosts' = {b \in ghosts : rows'[b] = "ok"}
  BY DEF BackupStart, storage, requests
<1>c. \A b \in Backup : rows'[b] = IF rows[b] = "ok" /\ b \notin files THEN "missing" ELSE rows[b]
  BY <1>b
<1>1. x \in Jobs /\ x.pc = "acquire" /\ x.todo = job[d].todo /\ job' = [job EXCEPT ![d] = x]
  BY <1>a, JobFields DEF BackupStart, BkGoto, Jobs
<1>2. /\ job' \in [Procs -> Jobs] /\ DOMAIN job' = Procs
      /\ job'[d] = x /\ \A i \in Procs : i # d => job'[i] = job[i]
  BY <1>a, <1>1, OneJob
<1> HIDE DEF x
<1>3. \A j \in Procs : job'[j].todo = job[j].todo /\ (job'[j] = job[j] \/ job'[j].pc = "acquire")
  BY <1>1, <1>2
<1>4. BackupsTypeOK'
  <2>1. rows' \in [Backup -> Statuses]
    BY <1>a, <1>b DEF BackupsTypeOK, Statuses
  <2>2. ghosts' \subseteq Backup
    BY <1>a, <1>b DEF BackupsTypeOK
  <2> QED
    BY <1>a, <1>b, <1>2, <2>1, <2>2 DEF BackupsTypeOK, Procs, Backup
<1>5. RecordedFirst'
  BY <1>a, <1>b, <1>c, <1>2, <1>3 DEF FilesInv, RecordedFirst, Backup
<1>6. DumpsApart'
  BY <1>a, <1>b, <1>2, <1>3 DEF FilesInv, DumpsApart, Dumping
<1>7. FilesWhole' /\ JobsKnown'
  <2>1. FilesWhole'
    BY <1>b DEF FilesInv, FilesWhole, Backup
  <2>2. \A r \in Restorers : r \in Procs /\ r # d
    BY BackupsAssumption DEF Procs
  <2> QED
    BY <1>a, <1>2, <1>3, <2>1, <2>2 DEF FilesInv, JobsKnown, Backup
<1>8. TrustedRows'
  BY <1>b, <1>c DEF FilesInv, TrustedRows, FilesWhole, Backup
<1>9. KeepSpared'
  <2>1. Marked' \subseteq Marked
    BY <1>a, <1>b, <1>c, <1>2, <1>3 DEF Marked, Backup
  <2>2. created' \in [Backup -> Nat]
    BY <1>a, <1>b, BackupsAssumption DEF BackupsTypeOK
  <2> QED
    BY <1>b, <2>1, <2>2, SparedStay
<1> QED
  BY <1>4, <1>5, <1>6, <1>7, <1>8, <1>9 DEF FilesInv

\* A dump opens a file with a number nobody has.
LEMMA OpeningKeeps ==
  ASSUME FilesInv, NEW d \in Dumpers, NEW k \in Kinds, DumpOpens(d, k)
  PROVE  FilesInv'
<1> DEFINE x == [job[d] EXCEPT !.pc = "dump", !.of = made + 1, !.left = DumpLimit]
<1>a. /\ BackupsTypeOK /\ d \in Procs /\ job[d] \in Jobs /\ DOMAIN job = Procs
      /\ made \in 0 .. MaxBackups /\ files \subseteq 1 .. made /\ whole \subseteq files
      /\ MaxBackups \in Nat /\ DumpLimit \in Nat
  BY BackupsAssumption DEF FilesInv, BackupsTypeOK, Procs
<1>b. /\ UNCHANGED <<created, rows, whole, bk_lock, deleting, upsets, bk_lapsed, ghosts>>
      /\ made < MaxBackups /\ made' = made + 1
      /\ kind' = [kind EXCEPT ![made + 1] = k] /\ files' = files \cup {made + 1}
      /\ archive' = [archive EXCEPT ![made + 1] = rows]
  BY DEF DumpOpens, requests
<1>c. /\ made + 1 \in Backup /\ made + 1 \in 1 .. made + 1 /\ 1 .. made \subseteq 1 .. made + 1
      /\ made + 1 \notin files /\ made + 1 \notin whole
      /\ \A b \in 1 .. made : b # made + 1
  BY <1>a, <1>b DEF Backup
<1>d. created[made + 1] = 0
  <2>1. created[made + 1] \in Nat /\ ~(created[made + 1] > 0)
    BY <1>a, <1>c DEF FilesInv, RecordedFirst, BackupsTypeOK
  <2> QED
    BY <2>1
<1>e. \A a \in Backup : archive'[a] = archive[a] \/ archive'[a] = rows
  BY <1>a, <1>b DEF BackupsTypeOK
<1>1. /\ x \in Jobs /\ x.pc = "dump" /\ x.of = made + 1 /\ x.todo = job[d].todo
      /\ job' = [job EXCEPT ![d] = x]
  <2>1. "dump" \in Critical /\ made + 1 \in 0 .. MaxBackups /\ DumpLimit \in 0 .. DumpLimit
    BY <1>a, <1>b DEF Critical
  <2>2. x \in Jobs
    BY <1>a, <2>1 DEF Jobs
  <2>3. x.pc = "dump" /\ x.of = made + 1 /\ x.todo = job[d].todo
    BY <1>a DEF Jobs
  <2> QED
    BY <2>2, <2>3 DEF DumpOpens
<1>2. /\ job' \in [Procs -> Jobs] /\ DOMAIN job' = Procs
      /\ job'[d] = x /\ \A i \in Procs : i # d => job'[i] = job[i]
  BY <1>a, <1>1, OneJob
<1> HIDE DEF x
<1>3. \A j \in Procs : job'[j].todo = job[j].todo
  BY <1>1, <1>2
<1>4. BackupsTypeOK'
  <2>1. kind' \in [Backup -> Kinds]
    BY <1>a, <1>b DEF BackupsTypeOK
  <2>2. archive' \in [Backup -> [Backup -> Statuses]]
    BY <1>a, <1>b DEF BackupsTypeOK
  <2>3. made' \in 0 .. MaxBackups /\ files' \subseteq 1 .. made' /\ whole' \subseteq files'
    BY <1>a, <1>b, <1>c
  <2> QED
    BY <1>a, <1>b, <1>2, <2>1, <2>2, <2>3 DEF BackupsTypeOK, Procs, Backup
<1>5. RecordedFirst'
  <2> SUFFICES ASSUME NEW b \in Backup
               PROVE  /\ created[b] > 0 => b <= made + 1
                      /\ created[b] = 0 => /\ rows[b] = "none" /\ b \notin deleting
                                           /\ \A a \in Backup : archive'[a][b] = "none"
                                           /\ \A j \in Procs : b \notin job'[j].todo
    BY <1>a, <1>b, <1>2 DEF RecordedFirst, Backup
  <2>1. created[b] > 0 => b <= made + 1
    <3>1. created[b] > 0 => b <= made
      BY DEF FilesInv, RecordedFirst
    <3> QED
      BY <3>1, <1>a DEF Backup
  <2>2. created[b] = 0 => /\ rows[b] = "none" /\ b \notin deleting
                          /\ \A a \in Backup : archive[a][b] = "none"
                          /\ \A j \in Procs : b \notin job[j].todo
    BY <1>a DEF FilesInv, RecordedFirst
  <2> QED
    BY <1>e, <1>3, <2>1, <2>2
<1>6. DumpsApart'
  <2>1. ASSUME NEW j \in Procs, job'[j].pc \in {"dump", "record"}
        PROVE  /\ job'[j].of \in 1 .. made + 1 /\ created[job'[j].of] = 0 /\ job'[j].of \in files'
               /\ job'[j].of \in whole <=> job'[j].pc = "record"
               /\ j # d => job'[j] = job[j] /\ Dumping(j) /\ job'[j].of # made + 1
    <3>1. CASE j = d
      BY <3>1, <1>1, <1>2, <1>b, <1>c, <1>d
    <3>2. CASE j # d
      <4>1. job'[j] = job[j] /\ Dumping(j)
        BY <1>2, <2>1, <3>2 DEF Dumping
      <4>2. /\ job[j].of \in 1 .. made /\ created[job[j].of] = 0 /\ job[j].of \in files
            /\ job[j].of \in whole <=> job[j].pc = "record"
        BY <1>a, <4>1 DEF FilesInv, DumpsApart
      <4> QED
        BY <1>b, <1>c, <4>1, <4>2
    <3> QED
      BY <3>1, <3>2
  <2>2. ASSUME NEW i \in Procs, NEW j \in Procs, job'[i].pc \in {"dump", "record"},
               job'[j].pc \in {"dump", "record"}, job'[i].of = job'[j].of
        PROVE  i = j
    <3>1. CASE i # d /\ j # d
      <4>1. job'[i] = job[i] /\ Dumping(i) /\ job'[j] = job[j] /\ Dumping(j)
        BY <2>1, <2>2, <3>1
      <4> QED
        BY <1>a, <2>2, <4>1 DEF FilesInv, DumpsApart
    <3>2. CASE i = d \/ j = d
      BY <1>1, <1>2, <2>1, <2>2, <3>2
    <3> QED
      BY <3>1, <3>2
  <2> QED
    BY <1>b, <1>2, <2>1, <2>2 DEF DumpsApart, Dumping
<1>7. FilesWhole'
  BY <1>b, <1>d DEF FilesInv, FilesWhole, Backup
<1>8. JobsKnown'
  <2>1. \A r \in Restorers : r \in Procs /\ r # d
    BY BackupsAssumption DEF Procs
  <2> QED
    BY <1>a, <1>1, <1>2, <1>3, <2>1 DEF FilesInv, JobsKnown, Backup
<1>9. TrustedRows'
  BY <1>b DEF FilesInv, TrustedRows, Backup
<1>10. KeepSpared'
  <2>1. Marked' \subseteq Marked
    BY <1>a, <1>b, <1>e, <1>2, <1>3 DEF Marked, Backup
  <2>2. created' \in [Backup -> Nat]
    BY <1>a, <1>b DEF BackupsTypeOK
  <2>3. \A b \in Backup : created[b] > 0 => kind'[b] = kind[b]
    BY <1>a, <1>b, <1>d DEF BackupsTypeOK
  <2> QED
    BY <1>b, <2>1, <2>2, <2>3, SparedStay
<1> QED
  BY <1>4, <1>5, <1>6, <1>7, <1>8, <1>9, <1>10 DEF FilesInv

\* A dump that ends has made its file whole, which no row names yet.
LEMMA EndingKeeps ==
  ASSUME FilesInv, NEW d \in Dumpers, DumpEnds(d)
  PROVE  FilesInv'
<1> DEFINE x == [job[d] EXCEPT !.pc = "record"]
<1>a. /\ BackupsTypeOK /\ d \in Procs /\ job[d] \in Jobs /\ DOMAIN job = Procs
      /\ whole \subseteq files
  BY DEF FilesInv, BackupsTypeOK, Procs
<1>b. /\ UNCHANGED <<made, created, kind, files, archive, rows, bk_lock, deleting, upsets, bk_lapsed, ghosts>>
      /\ whole' = whole \cup {job[d].of} /\ job[d].pc = "dump"
  BY DEF DumpEnds, requests, BkAt
<1>c. /\ Dumping(d) /\ job[d].of \in 1 .. made /\ created[job[d].of] = 0
      /\ job[d].of \in files /\ job[d].of \notin whole
  BY <1>a, <1>b DEF FilesInv, DumpsApart, Dumping
<1>1. /\ x \in Jobs /\ x.pc = "record" /\ x.of = job[d].of /\ x.todo = job[d].todo
      /\ job' = [job EXCEPT ![d] = x]
  BY <1>a, JobFields DEF DumpEnds, BkGoto, Jobs, Critical
<1>2. /\ job' \in [Procs -> Jobs] /\ DOMAIN job' = Procs
      /\ job'[d] = x /\ \A i \in Procs : i # d => job'[i] = job[i]
  BY <1>a, <1>1, OneJob
<1> HIDE DEF x
<1>3. \A j \in Procs : job'[j].todo = job[j].todo /\ job'[j].of = job[j].of
  BY <1>1, <1>2
<1>4. BackupsTypeOK'
  <2>1. whole' \subseteq files'
    BY <1>a, <1>b, <1>c
  <2> QED
    BY <1>a, <1>b, <1>2, <2>1 DEF BackupsTypeOK, Procs, Backup
<1>5. RecordedFirst'
  BY <1>a, <1>b, <1>2, <1>3 DEF FilesInv, RecordedFirst, Backup
<1>6. DumpsApart'
  <2>1. ASSUME NEW j \in Procs, job'[j].pc \in {"dump", "record"}
        PROVE  Dumping(j) /\ (j # d => job'[j] = job[j])
    BY <1>b, <1>c, <1>2, <2>1 DEF Dumping
  <2>2. ASSUME NEW i \in Procs, NEW j \in Procs, Dumping(i), Dumping(j), job[i].of = job[j].of
        PROVE  i = j
    BY <1>a, <2>2 DEF FilesInv, DumpsApart
  <2>3. ASSUME NEW j \in Procs, job'[j].pc \in {"dump", "record"}
        PROVE  /\ job'[j].of \in 1 .. made /\ created[job'[j].of] = 0 /\ job'[j].of \in files
               /\ job'[j].of \in whole' <=> job'[j].pc = "record"
    <3>1. CASE j = d
      BY <3>1, <1>1, <1>2, <1>b, <1>c
    <3>2. CASE j # d
      <4>1. job'[j] = job[j] /\ Dumping(j) /\ job[j].of # job[d].of
        BY <1>a, <1>c, <2>1, <2>2, <2>3, <3>2
      <4>2. /\ job[j].of \in 1 .. made /\ created[job[j].of] = 0 /\ job[j].of \in files
            /\ job[j].of \in whole <=> job[j].pc = "record"
        BY <1>a, <4>1 DEF FilesInv, DumpsApart
      <4> QED
        BY <1>b, <4>1, <4>2
    <3> QED
      BY <3>1, <3>2
  <2> QED
    BY <1>b, <1>2, <1>3, <2>1, <2>2, <2>3 DEF DumpsApart, Dumping
<1>7. FilesWhole' /\ TrustedRows'
  BY <1>b DEF FilesInv, FilesWhole, TrustedRows, Backup
<1>8. JobsKnown'
  <2>1. \A r \in Restorers : r \in Procs /\ r # d
    BY BackupsAssumption DEF Procs
  <2> QED
    BY <1>a, <1>1, <1>2, <1>3, <2>1 DEF FilesInv, JobsKnown, Backup
<1>9. KeepSpared'
  <2>1. Marked' \subseteq Marked
    BY <1>a, <1>b, <1>2, <1>3 DEF Marked, Backup
  <2>2. created' \in [Backup -> Nat]
    BY <1>a, <1>b DEF BackupsTypeOK
  <2> QED
    BY <1>b, <2>1, <2>2, SparedStay
<1> QED
  BY <1>4, <1>5, <1>6, <1>7, <1>8, <1>9 DEF FilesInv

\* A dump that fails takes away its own file, which was not whole.
LEMMA FailingKeeps ==
  ASSUME FilesInv, NEW d \in Dumpers, DumpFails(d)
  PROVE  FilesInv'
<1> DEFINE x == [job[d] EXCEPT !.pc = "release"]
<1>a. /\ BackupsTypeOK /\ d \in Procs /\ job[d] \in Jobs /\ DOMAIN job = Procs
      /\ whole \subseteq files /\ upsets \in 0 .. MaxUpsets /\ MaxUpsets \in Nat
  BY BackupsAssumption DEF FilesInv, BackupsTypeOK, Procs
<1>b. /\ UNCHANGED <<made, created, kind, whole, archive, rows, bk_lock, deleting, bk_lapsed, ghosts>>
      /\ files' = files \ {job[d].of} /\ job[d].pc = "dump" /\ upsets' \in 0 .. MaxUpsets
  BY <1>a DEF DumpFails, BkAt, Upset
<1>c. Dumping(d) /\ job[d].of \notin whole
  BY <1>a, <1>b DEF FilesInv, DumpsApart, Dumping
<1>1. x \in Jobs /\ x.pc = "release" /\ x.todo = job[d].todo /\ job' = [job EXCEPT ![d] = x]
  BY <1>a, JobFields DEF DumpFails, BkGoto, Jobs, Critical
<1>2. /\ job' \in [Procs -> Jobs] /\ DOMAIN job' = Procs
      /\ job'[d] = x /\ \A i \in Procs : i # d => job'[i] = job[i]
  BY <1>a, <1>1, OneJob
<1> HIDE DEF x
<1>3. \A j \in Procs : job'[j].todo = job[j].todo
  BY <1>1, <1>2
<1>4. BackupsTypeOK'
  <2>1. whole' \subseteq files' /\ files' \subseteq files
    BY <1>a, <1>b, <1>c
  <2> QED
    BY <1>a, <1>b, <1>2, <2>1 DEF BackupsTypeOK, Procs, Backup
<1>5. RecordedFirst'
  BY <1>a, <1>b, <1>2, <1>3 DEF FilesInv, RecordedFirst, Backup
<1>6. DumpsApart'
  <2>1. ASSUME NEW j \in Procs, job'[j].pc \in {"dump", "record"}
        PROVE  /\ job'[j] = job[j] /\ Dumping(j) /\ job[j].of # job[d].of
    <3>1. j # d /\ job'[j] = job[j] /\ Dumping(j)
      BY <1>1, <1>2, <2>1 DEF Dumping
    <3> QED
      BY <1>a, <1>c, <3>1 DEF FilesInv, DumpsApart
  <2>2. ASSUME NEW j \in Procs, Dumping(j)
        PROVE  /\ job[j].of \in 1 .. made /\ created[job[j].of] = 0 /\ job[j].of \in files
               /\ job[j].of \in whole <=> job[j].pc = "record"
    BY <1>a, <2>2 DEF FilesInv, DumpsApart
  <2>3. ASSUME NEW i \in Procs, NEW j \in Procs, Dumping(i), Dumping(j), job[i].of = job[j].of
        PROVE  i = j
    BY <1>a, <2>3 DEF FilesInv, DumpsApart
  <2> QED
    BY <1>b, <1>2, <2>1, <2>2, <2>3 DEF DumpsApart, Dumping
<1>7. FilesWhole' /\ TrustedRows'
  BY <1>b DEF FilesInv, FilesWhole, TrustedRows, Backup
<1>8. JobsKnown'
  <2>1. \A r \in Restorers : r \in Procs /\ r # d
    BY BackupsAssumption DEF Procs
  <2> QED
    BY <1>a, <1>1, <1>2, <1>3, <2>1 DEF FilesInv, JobsKnown, Backup
<1>9. KeepSpared'
  <2>1. Marked' \subseteq Marked
    BY <1>a, <1>b, <1>2, <1>3 DEF Marked, Backup
  <2>2. created' \in [Backup -> Nat]
    BY <1>a, <1>b DEF BackupsTypeOK
  <2> QED
    BY <1>b, <2>1, <2>2, SparedStay
<1> QED
  BY <1>4, <1>5, <1>6, <1>7, <1>8, <1>9 DEF FilesInv

\* A dump is recorded whole, as the newest.
LEMMA RecordingKeeps ==
  ASSUME FilesInv, NEW d \in Dumpers, RecordBackup(d)
  PROVE  FilesInv'
<1> DEFINE x == [job[d] EXCEPT !.pc = "list"]
           b0 == job[d].of
           before == {b \in Backup : created[b] > 0}
<1>a. /\ BackupsTypeOK /\ d \in Procs /\ job[d] \in Jobs /\ DOMAIN job = Procs
      /\ created \in [Backup -> Nat] /\ MaxBackups \in Nat /\ made \in 0 .. MaxBackups
  BY BackupsAssumption DEF FilesInv, BackupsTypeOK, Procs
<1>b. /\ UNCHANGED <<made, kind, files, whole, archive, bk_lock, deleting, upsets, bk_lapsed, ghosts>>
      /\ rows' = [rows EXCEPT ![b0] = "ok"] /\ job[d].pc = "record"
      /\ created' = [created EXCEPT ![b0] = 1 + Cardinality(before)]
  BY DEF RecordBackup, requests, BkAt
<1>c. Dumping(d) /\ b0 \in 1 .. made /\ b0 \in Backup /\ created[b0] = 0 /\ b0 \in whole
  BY <1>a, <1>b DEF FilesInv, DumpsApart, Dumping, Backup
<1>d. 1 + Cardinality(before) \in 0 .. MaxBackups /\ 1 + Cardinality(before) > 0
  <2>1. IsFiniteSet(Backup) /\ Cardinality(Backup) = MaxBackups
    BY <1>a, FS_Interval DEF Backup
  <2>2. b0 \notin before /\ before \cup {b0} \subseteq Backup
    BY <1>c
  <2>3. IsFiniteSet(before) /\ Cardinality(before) \in Nat
    BY <2>1, FS_Subset, FS_CardinalityType
  <2> HIDE DEF before
  <2>4. Cardinality(before \cup {b0}) = Cardinality(before) + 1
    BY <2>2, <2>3, FS_AddElement
  <2>5. Cardinality(before \cup {b0}) <= MaxBackups
    BY <2>1, <2>2, FS_Subset
  <2> QED
    BY <1>a, <2>3, <2>4, <2>5
<1> HIDE DEF before
<1>e. /\ \A b \in Backup : b # b0 => created'[b] = created[b] /\ rows'[b] = rows[b]
      /\ created'[b0] > 0 /\ rows'[b0] = "ok"
  BY <1>a, <1>b, <1>c, <1>d DEF BackupsTypeOK
<1>1. x \in Jobs /\ x.pc = "list" /\ x.todo = job[d].todo /\ job' = [job EXCEPT ![d] = x]
  BY <1>a, JobFields DEF RecordBackup, BkGoto, Jobs, Critical
<1>2. /\ job' \in [Procs -> Jobs] /\ DOMAIN job' = Procs
      /\ job'[d] = x /\ \A i \in Procs : i # d => job'[i] = job[i]
  BY <1>a, <1>1, OneJob
<1> HIDE DEF x
<1>3. \A j \in Procs : job'[j].todo = job[j].todo
  BY <1>1, <1>2
<1>4. BackupsTypeOK'
  <2>1. created' \in [Backup -> 0 .. MaxBackups]
    BY <1>a, <1>b, <1>c, <1>d DEF BackupsTypeOK
  <2>2. rows' \in [Backup -> Statuses]
    BY <1>a, <1>b, <1>c DEF BackupsTypeOK, Statuses
  <2> QED
    BY <1>a, <1>b, <1>2, <2>1, <2>2 DEF BackupsTypeOK, Procs, Backup
<1>5. RecordedFirst'
  <2> SUFFICES ASSUME NEW b \in Backup
               PROVE  /\ created'[b] > 0 => b <= made
                      /\ created'[b] = 0 => /\ rows'[b] = "none" /\ b \notin deleting
                                            /\ \A a \in Backup : archive[a][b] = "none"
                                            /\ \A j \in Procs : b \notin job'[j].todo
    BY <1>a, <1>b, <1>2 DEF RecordedFirst, Backup
  <2>1. CASE b = b0
    BY <2>1, <1>a, <1>c, <1>e
  <2>2. CASE b # b0
    <3>1. created'[b] = created[b] /\ rows'[b] = rows[b]
      BY <2>2, <1>e
    <3> QED
      BY <1>a, <1>3, <3>1 DEF FilesInv, RecordedFirst
  <2> QED
    BY <2>1, <2>2
<1>6. DumpsApart'
  <2>1. ASSUME NEW i \in Procs, NEW j \in Procs, Dumping(i), Dumping(j), job[i].of = job[j].of
        PROVE  i = j
    BY <1>a, <2>1 DEF FilesInv, DumpsApart
  <2>2. ASSUME NEW j \in Procs, job'[j].pc \in {"dump", "record"}
        PROVE  /\ job'[j] = job[j] /\ Dumping(j)
               /\ job[j].of \in 1 .. made /\ created'[job[j].of] = 0 /\ job[j].of \in files
               /\ job[j].of \in whole <=> job[j].pc = "record"
    <3>1. j # d /\ job'[j] = job[j] /\ Dumping(j)
      BY <1>1, <1>2, <2>2 DEF Dumping
    <3>2. /\ job[j].of \in 1 .. made /\ created[job[j].of] = 0 /\ job[j].of \in files
          /\ job[j].of \in whole <=> job[j].pc = "record"
      BY <1>a, <3>1 DEF FilesInv, DumpsApart
    <3>3. job[j].of # b0 /\ job[j].of \in Backup
      BY <1>a, <1>c, <2>1, <3>1, <3>2 DEF Backup
    <3> QED
      BY <1>e, <3>1, <3>2, <3>3
  <2> QED
    BY <1>b, <1>2, <2>1, <2>2 DEF DumpsApart, Dumping
<1>7. FilesWhole'
  BY <1>b, <1>c, <1>e DEF FilesInv, FilesWhole, Backup
<1>8. TrustedRows'
  BY <1>b, <1>c, <1>e DEF FilesInv, TrustedRows, Backup
<1>9. JobsKnown'
  <2>1. \A r \in Restorers : r \in Procs /\ r # d
    BY BackupsAssumption DEF Procs
  <2> QED
    BY <1>a, <1>1, <1>2, <1>3, <2>1 DEF FilesInv, JobsKnown, Backup
<1>10. KeepSpared'
  <2>1. Marked' \subseteq Marked
    <3> SUFFICES ASSUME NEW b \in Backup, b \in Marked' PROVE b \in Marked
      BY DEF Marked, Backup
    <3>1. \/ rows'[b] = "rotated" \/ \E a \in Backup : archive[a][b] = "rotated"
          \/ \E j \in Procs : b \in job'[j].todo
      BY <1>b, <1>2 DEF Marked, Backup
    <3>2. rows'[b] = "rotated" => rows[b] = "rotated"
      BY <1>e
    <3> QED
      BY <1>a, <1>3, <3>1, <3>2 DEF Marked
  <2>2. created' \in [Backup -> Nat]
    <3>1. 1 + Cardinality(before) \in Nat
      BY <1>a, <1>d
    <3> QED
      BY <1>a, <1>b, <3>1
  <2>3. \A b \in Backup : created[b] > 0 => created'[b] = created[b]
    BY <1>c, <1>e
  <2> QED
    BY <1>b, <2>1, <2>2, <2>3, SparedStay
<1> QED
  BY <1>4, <1>5, <1>6, <1>7, <1>8, <1>9, <1>10 DEF FilesInv

\* Among recorded backups there is a newest one.
LEMMA NewestOf ==
  ASSUME NEW n \in Nat, NEW S, S # {}, NEW at, \A b \in S : at[b] \in 1 .. n
  PROVE  \E m \in S : \A b \in S : at[b] <= at[m]
<1> DEFINE Bounds == {k \in 0 .. n : \A b \in S : at[b] <= k}
<1>1. n \in Bounds /\ Bounds \in SUBSET Nat
  OBVIOUS
<1>2. PICK k \in Bounds : \A y \in Bounds : k <= y
  <2> HIDE DEF Bounds
  <2>1. Bounds # {}
    BY <1>1
  <2> QED
    BY <1>1, <2>1, SmallestNat
<1>3. k \in 0 .. n /\ \A b \in S : at[b] <= k
  OBVIOUS
<1>4. PICK b0 \in S : at[b0] \in 1 .. n /\ at[b0] <= k
  BY <1>3
<1>5. k - 1 \in 0 .. n /\ ~(k <= k - 1)
  BY <1>3, <1>4
<1>6. PICK m \in S : ~(at[m] <= k - 1)
  BY <1>2, <1>5
<1>7. at[m] = k
  BY <1>3, <1>6
<1> QED
  BY <1>3, <1>7

\* A rotation lists what is beyond the Keep newest: the newest of all that is then on a
\* list, or was, has Keep newer ones.
LEMMA ListingSpares ==
  ASSUME FilesInv, UNCHANGED <<storage, rows>>, Marked' \subseteq Marked \cup Excess
  PROVE  KeepSpared'
<1>a. /\ created \in [Backup -> 0 .. MaxBackups] /\ MaxBackups \in Nat /\ Keep \in Nat
      /\ IsFiniteSet(Backup)
  <2>1. MaxBackups \in Nat /\ Keep \in Nat
    BY BackupsAssumption
  <2>2. IsFiniteSet(Backup)
    BY <2>1, FS_Interval DEF Backup
  <2> QED
    BY <2>1, <2>2 DEF FilesInv, BackupsTypeOK
<1>b. created' = created /\ kind' = kind
  BY DEF storage
<1>c. \A b \in Marked \cup Excess : b \in Backup /\ created[b] \in 1 .. MaxBackups
  <2>1. \A b \in Marked : b \in Backup /\ created[b] # 0
    BY DEF Marked, FilesInv, RecordedFirst
  <2>2. \A b \in Excess : b \in Backup /\ created[b] # 0
    BY DEF Excess, Scheduled, FilesInv, RecordedFirst
  <2> QED
    BY <1>a, <2>1, <2>2
<1> SUFFICES ASSUME Marked' # {} PROVE Cardinality(Spared') >= Keep
  BY DEF KeepSpared
<1>1. PICK m \in Marked' : \A b \in Marked' : created[b] <= created[m]
  <2> DEFINE M == Marked'
  <2>1. M # {} /\ \A b \in M : created[b] \in 1 .. MaxBackups
    BY <1>c
  <2> HIDE DEF M
  <2>2. \E m \in M : \A b \in M : created[b] <= created[m]
    BY <1>a, <2>1, NewestOf
  <2> QED
    BY <2>2 DEF M
<1>2. /\ m \in Marked \cup Excess /\ created[m] \in Nat
      /\ \A c \in Backup : created[c] \in Nat
      /\ \A b \in Marked' : created[b] \in Nat /\ created[b] <= created[m]
  BY <1>a, <1>c, <1>1
<1>3. IsFiniteSet(Spared') /\ Cardinality(Spared') \in Nat
  <2>1. Spared' \subseteq Backup
    BY DEF Spared, Backup
  <2> QED
    BY <1>a, <2>1, FS_Subset, FS_CardinalityType
<1>4. ASSUME NEW c \in Backup, kind[c] = "scheduled", created[c] > created[m]
      PROVE  c \in Spared'
  <2>1. \A b \in Marked' : created[c] > created[b]
    BY <1>2, <1>4
  <2> QED
    BY <1>4, <1>b, <2>1 DEF Spared, Backup
<1>5. CASE m \in Marked
  <2>1. Spared \subseteq Spared'
    BY <1>4, <1>5 DEF Spared
  <2>2. Cardinality(Spared) <= Cardinality(Spared') /\ Cardinality(Spared) \in Nat
    BY <1>3, <2>1, FS_Subset, FS_CardinalityType
  <2>3. Cardinality(Spared) >= Keep
    BY <1>5 DEF FilesInv, KeepSpared
  <2> QED
    BY <1>a, <1>3, <2>2, <2>3
<1>6. CASE m \in Excess
  <2> DEFINE newer == {c \in Scheduled : created[c] > created[m]}
  <2>1. newer \subseteq Spared'
    BY <1>4 DEF Scheduled
  <2>2. Cardinality(newer) >= Keep
    BY <1>6 DEF Excess
  <2> HIDE DEF newer
  <2>3. Cardinality(newer) <= Cardinality(Spared') /\ Cardinality(newer) \in Nat
    BY <1>3, <2>1, FS_Subset, FS_CardinalityType
  <2> QED
    BY <1>a, <1>3, <2>2, <2>3
<1> QED
  BY <1>2, <1>5, <1>6

\* A rotation lists what it will delete.
LEMMA ListingKeeps ==
  ASSUME FilesInv, NEW d \in Dumpers, RotationLists(d)
  PROVE  FilesInv'
<1> DEFINE x == [job[d] EXCEPT !.pc = IF Excess = {} THEN "release" ELSE "rotate", !.todo = Excess]
<1>a. /\ BackupsTypeOK /\ d \in Procs /\ job[d] \in Jobs /\ DOMAIN job = Procs
      /\ bk_lock \in 0 .. LockLife /\ upsets \in 0 .. MaxUpsets /\ bk_lapsed \in BOOLEAN
  BY DEF FilesInv, BackupsTypeOK, Procs
<1>b. /\ UNCHANGED <<made, created, kind, files, whole, archive, rows, bk_lock, deleting, upsets, bk_lapsed, ghosts>>
      /\ UNCHANGED storage
  BY DEF RotationLists, requests, storage
<1>c. Excess \subseteq Backup /\ \A b \in Excess : created[b] # 0
  BY DEF Excess, Scheduled, FilesInv, RecordedFirst
<1>1. /\ x \in Jobs /\ x.pc \in {"release", "rotate"} /\ x.todo = Excess
      /\ job' = [job EXCEPT ![d] = x]
  <2>1. x \in Jobs
    BY <1>a, <1>c DEF Jobs, Critical
  <2>2. x.pc \in {"release", "rotate"} /\ x.todo = Excess
    BY <1>a DEF Jobs
  <2> QED
    BY <2>1, <2>2 DEF RotationLists
<1>2. /\ job' \in [Procs -> Jobs] /\ DOMAIN job' = Procs
      /\ job'[d] = x /\ \A i \in Procs : i # d => job'[i] = job[i]
  BY <1>a, <1>1, OneJob
<1> HIDE DEF x
<1>4. BackupsTypeOK'
  BY <1>a, <1>b, <1>2, JobTypes
<1>5. RecordedFirst'
  <2> SUFFICES ASSUME NEW b \in Backup, created[b] = 0, NEW j \in Procs PROVE b \notin job'[j].todo
    BY <1>b, <1>2 DEF FilesInv, RecordedFirst, Backup
  <2> QED
    BY <1>a, <1>c, <1>1, <1>2 DEF FilesInv, RecordedFirst
<1>6. DumpsApart'
  <2>1. \A j \in Procs : job'[j].pc \in {"dump", "record"} => job'[j] = job[j]
    BY <1>1, <1>2
  <2> QED
    BY <1>a, <1>b, <1>2, <2>1 DEF FilesInv, DumpsApart, Dumping
<1>7. FilesWhole' /\ TrustedRows'
  BY <1>b DEF FilesInv, FilesWhole, TrustedRows, Backup
<1>8. JobsKnown'
  <2>1. \A r \in Restorers : r \in Procs /\ r # d
    BY BackupsAssumption DEF Procs
  <2> QED
    BY <1>a, <1>1, <1>2, <2>1 DEF FilesInv, JobsKnown, Backup
<1>9. KeepSpared'
  <2>1. Marked' \subseteq Marked \cup Excess
    <3> SUFFICES ASSUME NEW b \in Backup, b \in Marked' PROVE b \in Marked \cup Excess
      BY DEF Marked, Backup
    <3>1. \/ rows[b] = "rotated" \/ \E a \in Backup : archive[a][b] = "rotated"
          \/ \E j \in Procs : b \in job'[j].todo
      BY <1>b, <1>2 DEF Marked, Backup
    <3>2. \A j \in Procs : job'[j].todo = job[j].todo \/ job'[j].todo = Excess
      BY <1>1, <1>2
    <3> QED
      BY <1>a, <3>1, <3>2 DEF Marked
  <2> QED
    BY <1>b, <2>1, ListingSpares
<1> QED
  BY <1>4, <1>5, <1>6, <1>7, <1>8, <1>9 DEF FilesInv

\* A rotation unlinks a backup it has listed; its row is a ghost until it is marked.
LEMMA UnlinkingKeeps ==
  ASSUME FilesInv, NEW d \in Dumpers, NEW b0 \in Backup, RotationUnlinks(d, b0)
  PROVE  FilesInv'
<1> DEFINE x == [job[d] EXCEPT !.pc = "mark", !.of = b0]
<1>a. /\ BackupsTypeOK /\ d \in Procs /\ job[d] \in Jobs /\ DOMAIN job = Procs
      /\ files \subseteq 1 .. made /\ whole \subseteq files /\ ghosts \subseteq Backup
  BY DEF FilesInv, BackupsTypeOK, Procs
<1>b. /\ UNCHANGED <<made, created, kind, archive, rows, bk_lock, deleting, upsets, bk_lapsed>>
      /\ files' = files \ {b0} /\ whole' = whole \ {b0} /\ ghosts' = ghosts \cup {b0}
      /\ b0 \in job[d].todo
  BY DEF RotationUnlinks, requests
<1>c. created[b0] # 0
  BY <1>a, <1>b DEF FilesInv, RecordedFirst
<1>1. /\ x \in Jobs /\ x.pc = "mark" /\ x.of = b0 /\ x.todo = job[d].todo
      /\ job' = [job EXCEPT ![d] = x]
  <2>1. b0 \in 0 .. MaxBackups /\ "mark" \in Critical
    BY BackupsAssumption DEF Backup, Critical
  <2>2. x \in Jobs
    BY <1>a, <2>1 DEF Jobs
  <2>3. x.pc = "mark" /\ x.of = b0 /\ x.todo = job[d].todo
    BY <1>a DEF Jobs
  <2> QED
    BY <2>2, <2>3 DEF RotationUnlinks
<1>2. /\ job' \in [Procs -> Jobs] /\ DOMAIN job' = Procs
      /\ job'[d] = x /\ \A i \in Procs : i # d => job'[i] = job[i]
  BY <1>a, <1>1, OneJob
<1> HIDE DEF x
<1>3. \A j \in Procs : job'[j].todo = job[j].todo
  BY <1>1, <1>2
<1>4. BackupsTypeOK'
  <2>1. files' \subseteq 1 .. made /\ whole' \subseteq files' /\ ghosts' \subseteq Backup
    BY <1>a, <1>b
  <2> QED
    BY <1>a, <1>b, <1>2, <2>1 DEF BackupsTypeOK, Procs, Backup
<1>5. RecordedFirst'
  BY <1>a, <1>b, <1>2, <1>3 DEF FilesInv, RecordedFirst, Backup
<1>6. DumpsApart'
  <2>1. ASSUME NEW j \in Procs, job'[j].pc \in {"dump", "record"}
        PROVE  /\ job'[j] = job[j] /\ Dumping(j) /\ job[j].of # b0
               /\ job[j].of \in 1 .. made /\ created[job[j].of] = 0 /\ job[j].of \in files
               /\ job[j].of \in whole <=> job[j].pc = "record"
    <3>1. job'[j] = job[j] /\ Dumping(j)
      BY <1>1, <1>2, <2>1 DEF Dumping
    <3>2. /\ job[j].of \in 1 .. made /\ created[job[j].of] = 0 /\ job[j].of \in files
          /\ job[j].of \in whole <=> job[j].pc = "record"
      BY <1>a, <3>1 DEF FilesInv, DumpsApart
    <3> QED
      BY <1>c, <3>1, <3>2
  <2>2. ASSUME NEW i \in Procs, NEW j \in Procs, Dumping(i), Dumping(j), job[i].of = job[j].of
        PROVE  i = j
    BY <1>a, <2>2 DEF FilesInv, DumpsApart
  <2> QED
    BY <1>b, <1>2, <2>1, <2>2 DEF DumpsApart, Dumping
<1>7. FilesWhole' /\ TrustedRows'
  BY <1>b DEF FilesInv, FilesWhole, TrustedRows, Backup
<1>8. JobsKnown'
  <2>1. \A r \in Restorers : r \in Procs /\ r # d
    BY BackupsAssumption DEF Procs
  <2> QED
    BY <1>a, <1>b, <1>1, <1>2, <1>3, <2>1 DEF FilesInv, JobsKnown, Backup
<1>9. KeepSpared'
  <2>1. Marked' \subseteq Marked
    BY <1>a, <1>b, <1>2, <1>3 DEF Marked, Backup
  <2>2. created' \in [Backup -> Nat]
    BY <1>a, <1>b, BackupsAssumption DEF BackupsTypeOK
  <2> QED
    BY <1>b, <2>1, <2>2, SparedStay
<1> QED
  BY <1>4, <1>5, <1>6, <1>7, <1>8, <1>9 DEF FilesInv

\* A rotation marks the row of what it has unlinked, which was on its list.
LEMMA MarkingKeeps ==
  ASSUME FilesInv, NEW d \in Dumpers, RotationMarks(d)
  PROVE  FilesInv'
<1> DEFINE b0   == job[d].of
           left == IF rows[b0] = "none" THEN {} ELSE job[d].todo \ {b0}
           x    == [job[d] EXCEPT !.pc = IF left = {} THEN "release" ELSE "rotate", !.todo = left]
<1>a. /\ BackupsTypeOK /\ d \in Procs /\ job[d] \in Jobs /\ DOMAIN job = Procs
      /\ job[d].todo \subseteq Backup
  BY JobFields DEF FilesInv, BackupsTypeOK, Procs
<1>b. /\ UNCHANGED <<made, created, kind, files, whole, archive, bk_lock, deleting, upsets, bk_lapsed>>
      /\ rows' = [rows EXCEPT ![b0] = IF @ = "none" THEN @ ELSE "rotated"]
      /\ ghosts' = ghosts \ {b0} /\ job[d].pc = "mark"
  BY DEF RotationMarks, requests, storage, BkAt
<1>c. b0 \in job[d].todo /\ b0 \in Backup
  BY <1>a, <1>b DEF FilesInv, JobsKnown
<1>d. /\ \A b \in Backup : b # b0 => rows'[b] = rows[b]
      /\ rows'[b0] = IF rows[b0] = "none" THEN "none" ELSE "rotated"
  BY <1>a, <1>b, <1>c DEF BackupsTypeOK
<1>1. /\ x \in Jobs /\ x.pc \in {"release", "rotate"} /\ x.todo \subseteq job[d].todo
      /\ job' = [job EXCEPT ![d] = x]
  <2>1. left \subseteq Backup /\ left \subseteq job[d].todo
    BY <1>a
  <2>2. job' = [job EXCEPT ![d] = x]
    BY DEF RotationMarks
  <2> HIDE DEF left
  <2>3. x \in Jobs
    BY <1>a, <2>1 DEF Jobs, Critical
  <2>4. x.pc \in {"release", "rotate"} /\ x.todo = left
    BY <1>a DEF Jobs
  <2> QED
    BY <2>1, <2>2, <2>3, <2>4
<1>2. /\ job' \in [Procs -> Jobs] /\ DOMAIN job' = Procs
      /\ job'[d] = x /\ \A i \in Procs : i # d => job'[i] = job[i]
  BY <1>a, <1>1, OneJob
<1> HIDE DEF x
<1>3. \A j \in Procs : job'[j].todo \subseteq job[j].todo
  BY <1>1, <1>2
<1>4. BackupsTypeOK'
  <2>1. rows' \in [Backup -> Statuses]
    BY <1>a, <1>b, <1>c DEF BackupsTypeOK, Statuses
  <2>2. ghosts' \subseteq Backup
    BY <1>a, <1>b DEF BackupsTypeOK
  <2> QED
    BY <1>a, <1>b, <1>2, <2>1, <2>2 DEF BackupsTypeOK, Procs, Backup
<1>5. RecordedFirst'
  BY <1>a, <1>b, <1>d, <1>2, <1>3 DEF FilesInv, RecordedFirst, Backup
<1>6. DumpsApart'
  <2>1. \A j \in Procs : job'[j].pc \in {"dump", "record"} => job'[j] = job[j]
    BY <1>1, <1>2
  <2> QED
    BY <1>a, <1>b, <1>2, <2>1 DEF FilesInv, DumpsApart, Dumping
<1>7. FilesWhole' /\ TrustedRows'
  <2>1. FilesWhole'
    BY <1>b DEF FilesInv, FilesWhole, Backup
  <2> QED
    BY <2>1, <1>b, <1>d DEF FilesInv, TrustedRows, Backup
<1>8. JobsKnown'
  <2>1. \A r \in Restorers : r \in Procs /\ r # d
    BY BackupsAssumption DEF Procs
  <2> QED
    BY <1>a, <1>1, <1>2, <2>1 DEF FilesInv, JobsKnown, Backup
<1>9. KeepSpared'
  <2>1. Marked' \subseteq Marked
    <3> SUFFICES ASSUME NEW b \in Backup, b \in Marked' PROVE b \in Marked
      BY DEF Marked, Backup
    <3>1. \/ rows'[b] = "rotated" \/ \E a \in Backup : archive[a][b] = "rotated"
          \/ \E j \in Procs : b \in job'[j].todo
      BY <1>b, <1>2 DEF Marked, Backup
    <3>2. rows'[b] = "rotated" => rows[b] = "rotated" \/ b \in job[d].todo
      BY <1>c, <1>d
    <3> QED
      BY <1>a, <1>3, <3>1, <3>2 DEF Marked
  <2>2. created' \in [Backup -> Nat]
    BY <1>a, <1>b, BackupsAssumption DEF BackupsTypeOK
  <2> QED
    BY <1>b, <2>1, <2>2, SparedStay
<1> QED
  BY <1>4, <1>5, <1>6, <1>7, <1>8, <1>9 DEF FilesInv

\* A restore brings back the rows of an archive, or fails before that; what is trusted
\* then and has a file is whole, being recorded.
LEMMA RestoringKeeps ==
  ASSUME FilesInv, NEW r0 \in Restorers, RestoreEnds(r0)
  PROVE  FilesInv'
<1> DEFINE x == [job[r0] EXCEPT !.pc = "release"]
<1>a. BackupsTypeOK /\ r0 \in Procs /\ job[r0] \in Jobs /\ DOMAIN job = Procs
  BY DEF FilesInv, BackupsTypeOK, Procs
<1>b. /\ UNCHANGED <<made, created, kind, files, whole, archive, bk_lock, deleting, upsets, bk_lapsed>>
      /\ rows' \in {archive[job[r0].of], rows} /\ job[r0].pc = "restore"
      /\ ghosts' = {b \in Backup : rows'[b] = "ok" /\ b \notin files}
  BY DEF RestoreEnds, requests, storage, BkAt
<1>c. job[r0].of \in Backup
  BY <1>b DEF FilesInv, JobsKnown
<1>d. \/ \A b \in Backup : rows'[b] = rows[b]
      \/ \E a \in Backup : \A b \in Backup : rows'[b] = archive[a][b]
  BY <1>b, <1>c
<1>1. /\ x \in Jobs /\ x.pc = "release" /\ x.todo = job[r0].todo /\ x.of = job[r0].of
      /\ job' = [job EXCEPT ![r0] = x]
  BY <1>a, JobFields DEF RestoreEnds, BkGoto, Jobs, Critical
<1>2. /\ job' \in [Procs -> Jobs] /\ DOMAIN job' = Procs
      /\ job'[r0] = x /\ \A i \in Procs : i # r0 => job'[i] = job[i]
  BY <1>a, <1>1, OneJob
<1> HIDE DEF x
<1>3. \A j \in Procs : job'[j].todo = job[j].todo /\ job'[j].of = job[j].of
  BY <1>1, <1>2
<1>4. BackupsTypeOK'
  <2>1. rows' \in [Backup -> Statuses]
    BY <1>a, <1>b, <1>c DEF BackupsTypeOK
  <2>2. ghosts' \subseteq Backup
    BY <1>b
  <2> QED
    BY <1>a, <1>b, <1>2, <2>1, <2>2 DEF BackupsTypeOK, Procs, Backup
<1>5. RecordedFirst'
  <2> SUFFICES ASSUME NEW b \in Backup
               PROVE  /\ created[b] > 0 => b <= made
                      /\ created[b] = 0 => /\ rows'[b] = "none" /\ b \notin deleting
                                           /\ \A a \in Backup : archive[a][b] = "none"
                                           /\ \A j \in Procs : b \notin job'[j].todo
    BY <1>b, <1>2 DEF RecordedFirst, Backup
  <2>1. /\ created[b] > 0 => b <= made
        /\ created[b] = 0 => /\ rows[b] = "none" /\ b \notin deleting
                             /\ \A a \in Backup : archive[a][b] = "none"
                             /\ \A j \in Procs : b \notin job[j].todo
    BY <1>a DEF FilesInv, RecordedFirst
  <2> QED
    BY <1>d, <1>3, <2>1
<1>6. DumpsApart'
  <2>1. \A j \in Procs : job'[j].pc \in {"dump", "record"} => job'[j] = job[j]
    BY <1>1, <1>2
  <2> QED
    BY <1>a, <1>b, <1>2, <2>1 DEF FilesInv, DumpsApart, Dumping
<1>7. FilesWhole'
  BY <1>b DEF FilesInv, FilesWhole, Backup
<1>8. TrustedRows'
  <2> SUFFICES ASSUME NEW b \in Backup, rows'[b] = "ok" PROVE b \in whole \cup ghosts'
    BY <1>b DEF TrustedRows, Backup
  <2>1. created[b] # 0 /\ created[b] \in Nat
    <3>1. created[b] = 0 => rows'[b] = "none"
      BY <1>d DEF FilesInv, RecordedFirst
    <3>2. created[b] \in Nat
      BY <1>a, BackupsAssumption DEF BackupsTypeOK
    <3> QED
      BY <3>1, <3>2
  <2>2. b \in files => b \in whole
    BY <2>1 DEF FilesInv, FilesWhole
  <2> QED
    BY <1>b, <2>2
<1>9. JobsKnown'
  BY <1>a, <1>1, <1>2, <1>3, <1>c DEF FilesInv, JobsKnown, Backup, Procs
<1>10. KeepSpared'
  <2>1. Marked' \subseteq Marked
    <3> SUFFICES ASSUME NEW b \in Backup, b \in Marked' PROVE b \in Marked
      BY DEF Marked, Backup
    <3>1. \/ rows'[b] = "rotated" \/ \E a \in Backup : archive[a][b] = "rotated"
          \/ \E j \in Procs : b \in job'[j].todo
      BY <1>b, <1>2 DEF Marked, Backup
    <3> QED
      BY <1>a, <1>d, <1>3, <3>1 DEF Marked
  <2>2. created' \in [Backup -> Nat]
    BY <1>a, <1>b, BackupsAssumption DEF BackupsTypeOK
  <2> QED
    BY <1>b, <2>1, <2>2, SparedStay
<1> QED
  BY <1>4, <1>5, <1>6, <1>7, <1>8, <1>9, <1>10 DEF FilesInv

\* A request that deletes unlinks the file and marks the row, without the lock.
LEMMA DeletingKeeps ==
  ASSUME FilesInv, NEW b0 \in Backup, DeleteUnlinks(b0) \/ DeleteMarks(b0)
  PROVE  FilesInv'
<1>a. /\ BackupsTypeOK /\ DOMAIN job = Procs /\ job \in [Procs -> Jobs]
      /\ files \subseteq 1 .. made /\ whole \subseteq files /\ ghosts \subseteq Backup
      /\ deleting \subseteq Backup /\ upsets \in 0 .. MaxUpsets /\ MaxUpsets \in Nat
  BY BackupsAssumption DEF FilesInv, BackupsTypeOK, Procs
<1>b. UNCHANGED <<made, created, kind, archive, bk_lock, job, bk_lapsed>>
  BY DEF DeleteUnlinks, DeleteMarks, storage
<1>c. created[b0] # 0
  BY DEF DeleteUnlinks, DeleteMarks, FilesInv, RecordedFirst
<1>d. /\ files' \in {files, files \ {b0}} /\ deleting' \subseteq deleting \cup {b0}
      /\ upsets' \in 0 .. MaxUpsets
      /\ \/ files' = files \ {b0} /\ whole' = whole \ {b0} /\ rows' = rows
            /\ ghosts' = IF rows[b0] = "ok" THEN ghosts \cup {b0} ELSE ghosts
         \/ files' = files /\ whole' = whole /\ ghosts' = ghosts \ {b0}
            /\ rows' = [rows EXCEPT ![b0] = IF @ = "none" THEN @ ELSE "deleted"]
  <2>1. CASE DeleteUnlinks(b0)
    BY <2>1, <1>a DEF DeleteUnlinks, Upset
  <2>2. CASE DeleteMarks(b0)
    BY <2>2, <1>a DEF DeleteMarks, storage
  <2> QED
    BY <2>1, <2>2
<1>e. \A b \in Backup : \/ rows'[b] = rows[b]
                        \/ rows'[b] = "deleted" /\ b = b0 /\ rows[b] # "none"
  BY <1>a, <1>d DEF BackupsTypeOK
<1>1. BackupsTypeOK'
  <2>1. rows' \in [Backup -> Statuses]
    BY <1>a, <1>d DEF BackupsTypeOK, Statuses
  <2>2. files' \subseteq 1 .. made /\ whole' \subseteq files' /\ ghosts' \subseteq Backup
        /\ deleting' \subseteq Backup
    BY <1>a, <1>d
  <2> QED
    BY <1>a, <1>b, <1>d, <2>1, <2>2 DEF BackupsTypeOK, Procs, Backup
<1>2. RecordedFirst'
  BY <1>b, <1>c, <1>d, <1>e DEF FilesInv, RecordedFirst, Backup
<1>3. DumpsApart'
  <2>1. ASSUME NEW j \in Procs, Dumping(j) PROVE job[j].of # b0
    BY <1>a, <1>c, <2>1 DEF FilesInv, DumpsApart
  <2>2. ASSUME NEW j \in Procs, Dumping(j)
        PROVE  /\ job[j].of \in 1 .. made /\ created[job[j].of] = 0 /\ job[j].of \in files'
               /\ job[j].of \in whole' <=> job[j].pc = "record"
    <3>1. /\ job[j].of \in 1 .. made /\ created[job[j].of] = 0 /\ job[j].of \in files
          /\ job[j].of \in whole <=> job[j].pc = "record"
      BY <1>a, <2>2 DEF FilesInv, DumpsApart
    <3> QED
      BY <1>d, <2>1, <2>2, <3>1
  <2>3. ASSUME NEW i \in Procs, NEW j \in Procs, Dumping(i), Dumping(j), job[i].of = job[j].of
        PROVE  i = j
    BY <1>a, <2>3 DEF FilesInv, DumpsApart
  <2> QED
    BY <1>a, <1>b, <2>2, <2>3 DEF DumpsApart, Dumping
<1>4. FilesWhole'
  BY <1>b, <1>d DEF FilesInv, FilesWhole, Backup
<1>5. TrustedRows'
  <2>1. CASE rows' = rows /\ whole' = whole \ {b0} /\ ghosts' = IF rows[b0] = "ok" THEN ghosts \cup {b0} ELSE ghosts
    BY <2>1 DEF FilesInv, TrustedRows, Backup
  <2>2. CASE /\ whole' = whole /\ ghosts' = ghosts \ {b0}
             /\ rows' = [rows EXCEPT ![b0] = IF @ = "none" THEN @ ELSE "deleted"]
    <3>1. rows'[b0] # "ok"
      BY <1>a, <2>2 DEF BackupsTypeOK
    <3> QED
      BY <1>e, <2>2, <3>1 DEF FilesInv, TrustedRows, Backup
  <2> QED
    BY <1>d, <2>1, <2>2
<1>6. JobsKnown'
  BY <1>b DEF FilesInv, JobsKnown, Backup
<1>7. KeepSpared'
  <2>1. Marked' \subseteq Marked
    <3> SUFFICES ASSUME NEW b \in Backup, b \in Marked' PROVE b \in Marked
      BY DEF Marked, Backup
    <3> QED
      BY <1>b, <1>e DEF Marked, Backup
  <2>2. created' \in [Backup -> Nat]
    BY <1>a, <1>b, BackupsAssumption DEF BackupsTypeOK
  <2> QED
    BY <1>b, <2>1, <2>2, SparedStay
<1> QED
  BY <1>1, <1>2, <1>3, <1>4, <1>5, <1>6, <1>7 DEF FilesInv

\* Initially there is no file and no row.
LEMMA InitFiles == BackupsInit => FilesInv
<1> SUFFICES ASSUME BackupsInit PROVE FilesInv
  OBVIOUS
<1>a. /\ 0 \in 0 .. MaxBackups /\ 0 \in 0 .. LockLife /\ 0 \in 0 .. MaxUpsets /\ 0 \in 0 .. DumpLimit
  BY BackupsAssumption
<1>b. NoJob \in Jobs /\ NoJob.pc = "idle" /\ NoJob.todo = {}
  BY <1>a DEF NoJob, Jobs
<1>c. job = [j \in Procs |-> NoJob] /\ DOMAIN job = Procs
  BY DEF BackupsInit, Procs
<1>1. BackupsTypeOK
  <2>1. job \in [Procs -> Jobs]
    BY <1>b, <1>c
  <2> QED
    BY <1>a, <2>1 DEF BackupsInit, BackupsTypeOK, Statuses, Kinds, Procs
<1>2. RecordedFirst
  BY <1>b, <1>c DEF BackupsInit, RecordedFirst
<1>3. DumpsApart /\ JobsKnown
  BY <1>b, <1>c DEF DumpsApart, JobsKnown, Dumping, Procs
<1>4. FilesWhole /\ TrustedRows
  BY DEF BackupsInit, FilesWhole, TrustedRows
<1>5. Marked = {}
  BY <1>b, <1>c DEF BackupsInit, Marked
<1> QED
  BY <1>1, <1>2, <1>3, <1>4, <1>5 DEF FilesInv, KeepSpared

\* Every step keeps the invariant.
LEMMA NextFiles == FilesInv /\ [BackupsNext]_backupsVars => FilesInv'
<1> SUFFICES ASSUME FilesInv, [BackupsNext]_backupsVars PROVE FilesInv'
  OBVIOUS
<1>1. ASSUME NEW d \in Dumpers, Dump(d) PROVE FilesInv'
  <2>1. d \in Procs
    BY DEF Procs
  <2> QED
    BY <1>1, <2>1, LockSteps, StartReconciles, OpeningKeeps, EndingKeeps, FailingKeeps,
       RecordingKeeps, ListingKeeps, UnlinkingKeeps, MarkingKeeps DEF Dump
<1>2. ASSUME NEW r \in Restorers, Restore(r) PROVE FilesInv'
  <2>1. r \in Procs
    BY DEF Procs
  <2> QED
    BY <1>2, <2>1, LockSteps, RestoringKeeps DEF Restore
<1>3. ASSUME NEW b \in Backup, DeleteUnlinks(b) \/ DeleteMarks(b) PROVE FilesInv'
  BY <1>3, DeletingKeeps
<1>4. CASE BackupsClock
  BY <1>4, FilesAge
<1>5. CASE UNCHANGED backupsVars
  <2>1. UNCHANGED <<made, created, kind, files, whole, archive, rows, bk_lock, job, deleting, upsets,
                    bk_lapsed, ghosts>>
    BY <1>5 DEF backupsVars, storage, requests
  <2> QED
    BY <2>1 DEF FilesInv, BackupsTypeOK, RecordedFirst, DumpsApart, Dumping, FilesWhole, JobsKnown,
                TrustedRows, KeepSpared, Marked, Spared, Backup
<1> QED
  BY <1>1, <1>2, <1>3, <1>4, <1>5 DEF BackupsNext

\* The inductive invariant holds of every behaviour.
LEMMA FilesInvariance == BackupsSpec => []FilesInv
  BY InitFiles, NextFiles, PTL DEF BackupsSpec

\* The files, the rows and the jobs stay in their ranges, and no file is whole that is
\* not there (perform_backup, the restore and delete endpoints).
THEOREM BackupsTypes == BackupsSpec => []BackupsTypeOK
  BY FilesInvariance, PTL DEF FilesInv

\* An "ok" row names a complete dump or a ghost, and rotation takes none of the newest
\* Keep scheduled backups, for any number of workers, requests and backups: also when
\* the lock has run out and two rotations work through lists of their own, and when a
\* restore brings old rows back between a list and its marks.
THEOREM DumpsSurviveAll == BackupsSpec => []DumpsSurvive
<1>1. FilesInv => DumpsSurvive
  <2> SUFFICES ASSUME FilesInv, NEW b \in Backup
               PROVE  /\ rows[b] = "ok" => b \in whole \cup ghosts
                      /\ rows[b] = "rotated" =>
                           Cardinality({c \in Backup : /\ created[c] > created[b] /\ kind[c] = "scheduled"
                                                       /\ rows[c] # "rotated"}) >= Keep
    BY DEF DumpsSurvive
  <2>1. rows[b] = "ok" => b \in whole \cup ghosts
    BY DEF FilesInv, TrustedRows
  <2>2. ASSUME rows[b] = "rotated"
        PROVE  Cardinality({c \in Backup : /\ created[c] > created[b] /\ kind[c] = "scheduled"
                                           /\ rows[c] # "rotated"}) >= Keep
    <3> DEFINE newer == {c \in Backup : /\ created[c] > created[b] /\ kind[c] = "scheduled"
                                        /\ rows[c] # "rotated"}
    <3>1. b \in Marked
      BY <2>2 DEF Marked
    <3>2. \A c \in Backup : created[c] \in Nat
      BY BackupsAssumption DEF FilesInv, BackupsTypeOK
    <3>3. Spared \subseteq newer
      <4> SUFFICES ASSUME NEW c \in Spared PROVE c \in newer
        OBVIOUS
      <4>1. c \in Backup /\ kind[c] = "scheduled" /\ \A m \in Marked : created[c] > created[m]
        BY DEF Spared
      <4>2. c \notin Marked
        BY <3>2, <4>1
      <4>3. rows[c] # "rotated"
        BY <4>1, <4>2 DEF Marked
      <4> QED
        BY <3>1, <4>1, <4>3
    <3>4. IsFiniteSet(Backup) /\ Keep \in Nat
      BY FS_Interval, BackupsAssumption DEF Backup
    <3>5. Cardinality(Spared) >= Keep
      BY <3>1 DEF FilesInv, KeepSpared
    <3>6. newer \subseteq Backup
      OBVIOUS
    <3> HIDE DEF newer
    <3>7. IsFiniteSet(newer) /\ Cardinality(newer) \in Nat
      BY <3>4, <3>6, FS_Subset, FS_CardinalityType
    <3>8. Cardinality(Spared) <= Cardinality(newer) /\ Cardinality(Spared) \in Nat
      BY <3>3, <3>7, FS_Subset, FS_CardinalityType
    <3>9. Cardinality(newer) >= Keep
      BY <3>4, <3>5, <3>7, <3>8
    <3> QED
      BY <3>9 DEF newer
  <2> QED
    BY <2>1, <2>2
<1> QED
  BY <1>1, FilesInvariance, PTL

-----------------------------------------------------------------------------
(* The token refresh                                                       *)

\* What a caller knows of its refresh.
CallShape == [pc : Guarded \cup {"idle", "lock"}, token : 0 .. issued, spent : 0 .. issued, force : BOOLEAN]

\* The tokens, the lock and the callers are in their ranges.
TokenTypes ==
    /\ cred \in [id : 0 .. issued, stale : BOOLEAN]
    /\ call \in [Callers -> CallShape]
    /\ user \in [pc : {"idle", "store", "remove"}, token : 0 .. issued]
    /\ rlock \in [by : Callers \cup {NoCaller}, life : Int]
    /\ issued \in Nat /\ live \subseteq 1 .. issued
    /\ \A c \in Callers : call[c].pc # "idle" => call[c].token # 0
    /\ user.pc = "store" => user.token # 0

\* Who is under the lock owns it.
LockOwned == \A c \in Callers : call[c].pc \in Guarded => rlock.by = c

\* The refresh tokens that the provider takes, and those that the model excuses.
Good == live \cup burnt

\* What a caller under the lock will send or store has not been spent by another.
TokensUnspent ==
    /\ cred.id \in Good \cup {0} \/ \E c \in Callers : call[c].pc = "persist" /\ call[c].spent = cred.id
    /\ cred.id = 0 => \A c \in Callers : call[c].pc \in {"lock", "reread", "send"} => call[c].token \in burnt
    /\ \A c \in Callers :
        /\ call[c].pc \in {"send", "persist"} => call[c].token \in Good
        /\ call[c].pc = "persist" => call[c].token # cred.id
    /\ user.pc = "store" =>
        /\ user.token \in Good /\ user.token # cred.id
        /\ \A c \in Callers : call[c].pc # "idle" => call[c].token # user.token

\* The inductive invariant of the tokens.
TokensInv == TokenTypes /\ (slipped \/ (LockOwned /\ TokensUnspent))

\* Initially there is no token.
LEMMA InitTokens == TokensInit => TokensInv
  BY DEF TokensInit, NoCred, NoRLock, NoCall, TokensInv, TokenTypes, CallShape, Guarded, LockOwned, TokensUnspent, Good

\* A caller that goes on with what it has.
LEMMA CallerGoesOn ==
  ASSUME TokensInv, NEW c \in Callers, NEW pc \in Guarded \cup {"idle", "lock"},
         call[c].pc # "idle", TkGoto(c, pc), UNCHANGED <<cred, user, server>>
  PROVE  /\ call' \in [Callers -> CallShape] /\ CallShape' = CallShape
         /\ call'[c].pc = pc /\ call'[c].token = call[c].token /\ call'[c].spent = call[c].spent
         /\ \A d \in Callers : d # c => call'[d] = call[d]
<1>1. call \in [Callers -> CallShape]
  BY DEF TokensInv, TokenTypes
<1>2. call' = [call EXCEPT ![c].pc = pc]
  BY DEF TkGoto
<1>3. CallShape' = CallShape
  BY DEF CallShape, server
<1> QED
  BY <1>1, <1>2, <1>3 DEF CallShape

\* A caller that ends.
LEMMA CallerEnds ==
  ASSUME TokensInv, NEW c \in Callers, call' = [call EXCEPT ![c] = NoCall], UNCHANGED <<cred, user, server>>
  PROVE  /\ call' \in [Callers -> CallShape] /\ CallShape' = CallShape
         /\ call'[c].pc = "idle" /\ "idle" \notin Guarded
         /\ \A d \in Callers : d # c => call'[d] = call[d]
<1>1. call \in [Callers -> CallShape]
  BY DEF TokensInv, TokenTypes
<1>2. CallShape' = CallShape /\ "idle" \notin Guarded
  BY DEF CallShape, server, Guarded
<1>3. NoCall \in CallShape /\ NoCall.pc = "idle"
  BY DEF NoCall, CallShape, TokensInv, TokenTypes
<1> QED
  BY <1>1, <1>2, <1>3

\* Of two callers under the lock there is one.
LEMMA OneOwner ==
  ASSUME LockOwned, NEW c \in Callers, NEW d \in Callers, call[c].pc \in Guarded, call[d].pc \in Guarded
  PROVE  c = d
  BY DEF LockOwned

\* Before the lock is taken, and when it is not available.
LEMMA BeforeTheLock ==
  ASSUME TokensInv, NEW c \in Callers,
         (\E force \in BOOLEAN : LoadToken(c, force)) \/ TakeLock(c) \/ SkipLock(c) \/ WaitForOther(c)
  PROVE  TokensInv'
<1>a. TokenTypes /\ (slipped \/ (LockOwned /\ TokensUnspent))
  BY DEF TokensInv
<1>1. ASSUME NEW force \in BOOLEAN, LoadToken(c, force) PROVE TokensInv'
  <2> DEFINE x == [pc |-> "lock", token |-> cred.id, spent |-> 0, force |-> force]
  <2>1. /\ call[c].pc = "idle" /\ cred.id # 0 /\ call' = [call EXCEPT ![c] = x]
        /\ UNCHANGED <<cred, rlock, user, issued, live, slipped, burnt>>
    BY <1>1 DEF LoadToken, TkAt, server
  <2>2. x \in CallShape /\ CallShape' = CallShape
    BY <1>a, <2>1 DEF CallShape, TokenTypes
  <2>3. /\ call' \in [Callers -> CallShape] /\ call'[c] = x
        /\ \A d \in Callers : d # c => call'[d] = call[d]
    BY <1>a, <2>1, <2>2 DEF TokenTypes
  <2>4. TokenTypes'
    BY <1>a, <2>1, <2>2, <2>3 DEF TokenTypes
  <2>5. LockOwned => LockOwned'
    BY <2>1, <2>3 DEF LockOwned, Guarded
  <2>6. TokensUnspent => TokensUnspent'
    BY <2>1, <2>3 DEF TokensUnspent, Good
  <2> QED
    BY <1>a, <2>1, <2>4, <2>5, <2>6 DEF TokensInv
<1>2. CASE TakeLock(c) \/ SkipLock(c)
  <2>1. /\ call[c].pc = "lock" /\ "reread" \in Guarded /\ TkGoto(c, "reread")
        /\ UNCHANGED <<cred, user, server, burnt>> /\ (TakeLock(c) => UNCHANGED slipped)
        /\ (SkipLock(c) => slipped' /\ UNCHANGED rlock)
    BY <1>2 DEF TakeLock, SkipLock, TkAt, Guarded
  <2>2. TakeLock(c) => rlock.by = NoCaller /\ rlock' = [by |-> c, life |-> RefreshTTL]
    BY DEF TakeLock, NoRLock
  <2>3. /\ call' \in [Callers -> CallShape] /\ CallShape' = CallShape
        /\ call'[c].pc = "reread" /\ call'[c].token = call[c].token
        /\ \A d \in Callers : d # c => call'[d] = call[d]
    BY <2>1, CallerGoesOn
  <2>4. TokenTypes'
    <3>1. rlock' \in [by : Callers \cup {NoCaller}, life : Int]
      BY <1>2, <1>a, <2>1, <2>2, TokensAssumption DEF TokenTypes
    <3> QED
      BY <1>a, <2>1, <2>3, <3>1 DEF TokenTypes, server
  <2>5. TakeLock(c) /\ LockOwned => LockOwned'
    BY <2>2, <2>3, TokensAssumption DEF LockOwned
  <2>6. TokensUnspent => TokensUnspent'
    BY <2>1, <2>3 DEF TokensUnspent, Good, server
  <2> QED
    BY <1>a, <1>2, <2>1, <2>4, <2>5, <2>6 DEF TokensInv
<1>3. CASE WaitForOther(c)
  <2>1. /\ call[c].pc = "lock" /\ call' = [call EXCEPT ![c] = NoCall]
        /\ UNCHANGED <<cred, rlock, user, server, slipped, burnt>>
    BY <1>3 DEF WaitForOther, TkAt
  <2>2. /\ call' \in [Callers -> CallShape] /\ CallShape' = CallShape
        /\ call'[c].pc = "idle" /\ "idle" \notin Guarded
        /\ \A d \in Callers : d # c => call'[d] = call[d]
    BY <2>1, CallerEnds
  <2>3. TokenTypes'
    BY <1>a, <2>1, <2>2 DEF TokenTypes, server
  <2>4. LockOwned => LockOwned'
    BY <2>1, <2>2 DEF LockOwned
  <2>5. TokensUnspent => TokensUnspent'
    BY <2>1, <2>2 DEF TokensUnspent, Good, server
  <2> QED
    BY <1>a, <2>1, <2>3, <2>4, <2>5 DEF TokensInv
<1> QED
  BY <1>1, <1>2, <1>3

\* Under the lock, without a new token.
LEMMA UnderTheLock ==
  ASSUME TokensInv, NEW c \in Callers,
         Reread(c) \/ Refused(c) \/ MarkRejected(c)
  PROVE  TokensInv'
<1>a. TokenTypes /\ (slipped \/ (LockOwned /\ TokensUnspent))
  BY DEF TokensInv
<1>1. PICK pc \in {"release", "send", "reject"} :
        /\ TkGoto(c, pc)
        /\ pc = "send" => call[c].pc = "reread" /\ (cred.id = 0 \/ cred.id = call[c].token)
  BY DEF Reread, Refused, MarkRejected, TkAt
<1>2. /\ call[c].pc \in {"reread", "send", "reject"}
      /\ UNCHANGED <<cred, rlock, user, server, slipped, burnt>>
  BY DEF Reread, Refused, MarkRejected, TkAt
<1>3. /\ pc \in Guarded /\ call[c].pc \in Guarded /\ "persist" \in Guarded
  BY <1>1, <1>2 DEF Guarded
<1>4. /\ call' \in [Callers -> CallShape] /\ CallShape' = CallShape
      /\ call'[c].pc = pc /\ call'[c].token = call[c].token
      /\ \A d \in Callers : d # c => call'[d] = call[d]
  BY <1>1, <1>2, <1>3, CallerGoesOn
<1>5. TokenTypes'
  BY <1>a, <1>2, <1>4 DEF TokenTypes, server
<1>6. LockOwned => LockOwned'
  BY <1>2, <1>3, <1>4 DEF LockOwned
<1>7. ASSUME LockOwned, TokensUnspent, pc = "send" PROVE call[c].token \in Good
  <2>1. CASE cred.id = 0
    BY <1>1, <1>7, <2>1 DEF TokensUnspent, Good
  <2>2. CASE cred.id # 0
    <3>1. \A d \in Callers : call[d].pc # "persist"
      BY <1>1, <1>3, <1>7, OneOwner
    <3> QED
      BY <1>1, <1>7, <2>2, <3>1 DEF TokensUnspent
  <2> QED
    BY <2>1, <2>2
<1>8. LockOwned /\ TokensUnspent => TokensUnspent'
  BY <1>1, <1>2, <1>4, <1>7 DEF TokensUnspent, Good, server
<1> QED
  BY <1>a, <1>2, <1>5, <1>6, <1>8 DEF TokensInv

\* The request to the server: the token is spent, with or without its successor.
LEMMA RefreshKeeps ==
  ASSUME TokensInv, NEW c \in Callers, Refresh(c) \/ RefreshFails(c)
  PROVE  TokensInv'
<1>a. TokenTypes /\ (slipped \/ (LockOwned /\ TokensUnspent))
  BY DEF TokensInv
<1>b. /\ call[c].pc = "send" /\ "send" \in Guarded /\ "persist" \in Guarded /\ "release" \in Guarded
      /\ UNCHANGED <<cred, rlock, user, slipped>>
  BY DEF Refresh, RefreshFails, TkAt, Guarded
<1>1. CASE Refresh(c)
  <2> DEFINE t == call[c].token
  <2>1. /\ t \in live /\ issued' = issued + 1 /\ live' = (live \ {t}) \cup {issued + 1} /\ UNCHANGED burnt
        /\ call' = [call EXCEPT ![c].pc = "persist", ![c].spent = t, ![c].token = issued + 1]
    BY <1>1 DEF Refresh
  <2>2. CallShape \subseteq CallShape'
    BY <1>a, <2>1 DEF CallShape, TokenTypes
  <2>3. /\ call'[c].pc = "persist" /\ call'[c].spent = t /\ call'[c].token = issued + 1
        /\ call'[c] \in CallShape'
        /\ \A d \in Callers : d # c => call'[d] = call[d]
    BY <1>a, <1>b, <2>1 DEF CallShape, TokenTypes
  <2>4. call' \in [Callers -> CallShape']
    BY <1>a, <2>1, <2>2, <2>3 DEF TokenTypes
  <2>5. TokenTypes'
    BY <1>a, <1>b, <2>1, <2>3, <2>4 DEF TokenTypes
  <2>6. LockOwned => LockOwned'
    BY <1>b, <2>3 DEF LockOwned
  <2>7. ASSUME LockOwned, TokensUnspent PROVE TokensUnspent'
    <3>1. \A d \in Callers : d # c => call[d].pc \notin {"send", "persist"}
      BY <1>b, <2>7, OneOwner
    <3>2. issued + 1 \in Good' /\ Good \subseteq Good' \cup {t}
      BY <2>1 DEF Good
    <3>3. /\ cred.id # issued + 1 /\ user.token # issued + 1 /\ t # 0
          /\ cred.id \in Good \cup {0}
      BY <1>a, <1>b, <2>7, <3>1 DEF TokenTypes, TokensUnspent
    <3>4. user.pc = "store" => user.token \in Good' /\ user.token # cred.id
      BY <1>b, <2>7, <3>2 DEF TokensUnspent
    <3>5. \/ cred'.id \in Good' \cup {0}
          \/ \E d \in Callers : call'[d].pc = "persist" /\ call'[d].spent = cred'.id
      BY <1>b, <2>3, <3>2, <3>3
    <3>6. cred'.id = 0 =>
            \A d \in Callers : call'[d].pc \in {"lock", "reread", "send"} => call'[d].token \in burnt'
      <4>1. /\ cred' = cred /\ burnt' = burnt /\ call'[c].pc = "persist"
            /\ \A d \in Callers : d # c => call'[d] = call[d]
        BY <1>b, <2>1, <2>3
      <4>2. cred.id = 0 =>
              \A d \in Callers : call[d].pc \in {"lock", "reread", "send"} => call[d].token \in burnt
        BY <2>7 DEF TokensUnspent
      <4> QED
        BY <4>1, <4>2
    <3>7. \A d \in Callers :
            /\ call'[d].pc \in {"send", "persist"} => call'[d].token \in Good'
            /\ call'[d].pc = "persist" => call'[d].token # cred'.id
      BY <1>b, <2>3, <3>1, <3>2, <3>3
    <3>8. user'.pc = "store" => \A d \in Callers : call'[d].pc # "idle" => call'[d].token # user'.token
      BY <1>b, <2>3, <2>7, <3>3 DEF TokensUnspent
    <3> QED
      <4>1. user'.pc = "store" => user'.token \in Good' /\ user'.token # cred'.id
        BY <1>b, <3>4
      <4> QED
        BY <3>5, <3>6, <3>7, <3>8, <4>1 DEF TokensUnspent
  <2> QED
    BY <1>a, <1>b, <2>5, <2>6, <2>7 DEF TokensInv
<1>2. CASE RefreshFails(c)
  <2>1. /\ TkGoto(c, "release") /\ call' = [call EXCEPT ![c].pc = "release"]
        /\ \/ UNCHANGED <<issued, live, burnt>>
           \/ /\ call[c].token \in live /\ issued' = issued + 1
              /\ live' = (live \ {call[c].token}) \cup {issued + 1}
              /\ burnt' = burnt \cup {call[c].token}
    BY <1>2 DEF RefreshFails, TkGoto, server
  <2>2. CallShape \subseteq CallShape' /\ issued' \in Nat /\ issued <= issued' /\ live' \subseteq 1 .. issued'
    BY <1>a, <2>1 DEF CallShape, TokenTypes
  <2>3. /\ call'[c].pc = "release" /\ call'[c].token = call[c].token
        /\ call'[c] \in CallShape
        /\ \A d \in Callers : d # c => call'[d] = call[d]
    BY <1>a, <1>b, <2>1 DEF CallShape, TokenTypes
  <2>4. call' \in [Callers -> CallShape']
    BY <1>a, <2>1, <2>2, <2>3 DEF TokenTypes
  <2>5. TokenTypes'
    BY <1>a, <1>b, <2>2, <2>3, <2>4 DEF TokenTypes
  <2>6. LockOwned => LockOwned'
    BY <1>b, <2>3 DEF LockOwned
  <2>7. Good \subseteq Good' /\ burnt \subseteq burnt'
    BY <2>1 DEF Good
  <2>8. TokensUnspent => TokensUnspent'
    BY <1>b, <2>3, <2>7 DEF TokensUnspent
  <2> QED
    BY <1>a, <1>b, <2>5, <2>6, <2>8 DEF TokensInv
<1> QED
  BY <1>1, <1>2

\* The new token is stored, or the caller leaves.
LEMMA LeavingTheLock ==
  ASSUME TokensInv, NEW c \in Callers,
         PersistToken(c) \/ CompareLock(c) \/ DeleteLock(c) \/ CallerLost(c)
  PROVE  TokensInv'
<1>a. TokenTypes /\ (slipped \/ (LockOwned /\ TokensUnspent))
  BY DEF TokensInv
<1>1. CASE PersistToken(c)
  <2>1. /\ call[c].pc = "persist" /\ "persist" \in Guarded /\ "release" \in Guarded
        /\ cred' = [id |-> call[c].token, stale |-> FALSE] /\ call' = [call EXCEPT ![c].pc = "release"]
        /\ UNCHANGED <<rlock, user, issued, live, slipped, burnt>>
    BY <1>1 DEF PersistToken, TkAt, TkGoto, Guarded, server
  <2>2. /\ CallShape' = CallShape /\ call'[c].pc = "release" /\ call'[c].token = call[c].token
        /\ call'[c] \in CallShape /\ cred'.id = call[c].token /\ call[c].token \in 0 .. issued
        /\ \A d \in Callers : d # c => call'[d] = call[d]
    BY <1>a, <2>1 DEF CallShape, TokenTypes
  <2>3. TokenTypes'
    BY <1>a, <2>1, <2>2 DEF TokenTypes
  <2>4. LockOwned => LockOwned'
    BY <2>1, <2>2 DEF LockOwned
  <2>5. ASSUME LockOwned, TokensUnspent PROVE TokensUnspent'
    <3>1. \A d \in Callers : d # c => call[d].pc # "persist"
      BY <2>1, <2>5, OneOwner
    <3>2. call[c].token \in Good /\ Good' = Good /\ call[c].token # 0
      BY <1>a, <2>1, <2>5 DEF TokensUnspent, TokenTypes, Good
    <3> QED
      BY <2>1, <2>2, <2>5, <3>1, <3>2 DEF TokensUnspent
  <2> QED
    BY <1>a, <2>1, <2>3, <2>4, <2>5 DEF TokensInv
<1>2. CASE CompareLock(c) /\ rlock.by = c
  <2>1. /\ call[c].pc = "release" /\ "release" \in Guarded /\ "delete" \in Guarded
        /\ call' = [call EXCEPT ![c] = [call[c] EXCEPT !.pc = "delete"]]
        /\ UNCHANGED <<cred, rlock, user, issued, live, slipped, burnt>>
    BY <1>2 DEF CompareLock, TkAt, Guarded, server
  <2>2. /\ CallShape' = CallShape /\ call'[c].pc = "delete" /\ call'[c].token = call[c].token
        /\ call'[c] \in CallShape
        /\ \A d \in Callers : d # c => call'[d] = call[d]
    BY <1>a, <2>1 DEF CallShape, TokenTypes
  <2>3. TokenTypes'
    BY <1>a, <2>1, <2>2 DEF TokenTypes
  <2>4. LockOwned => LockOwned'
    BY <2>1, <2>2 DEF LockOwned
  <2>5. TokensUnspent => TokensUnspent'
    BY <2>1, <2>2 DEF TokensUnspent, Good
  <2> QED
    BY <1>a, <2>1, <2>3, <2>4, <2>5 DEF TokensInv
<1>3. CASE \/ CompareLock(c) /\ rlock.by # c
           \/ DeleteLock(c)
           \/ CallerLost(c)
  <2>1. /\ call' = [call EXCEPT ![c] = NoCall] /\ UNCHANGED <<cred, user, server, slipped>>
        /\ UNCHANGED rlock \/ (DeleteLock(c) /\ rlock' = NoRLock)
        /\ burnt \subseteq burnt' /\ (call[c].pc = "persist" => call[c].spent \in burnt')
    BY <1>3 DEF CompareLock, DeleteLock, CallerLost, TkAt
  <2>2. /\ call' \in [Callers -> CallShape] /\ CallShape' = CallShape
        /\ call'[c].pc = "idle" /\ "idle" \notin Guarded
        /\ \A d \in Callers : d # c => call'[d] = call[d]
    BY <2>1, CallerEnds
  <2>3. TokenTypes'
    <3>1. rlock' \in [by : Callers \cup {NoCaller}, life : Int]
      BY <1>a, <2>1 DEF TokenTypes, NoRLock
    <3> QED
      BY <1>a, <2>1, <2>2, <3>1 DEF TokenTypes, server
  <2>4. LockOwned => LockOwned'
    <3>1. DeleteLock(c) => call[c].pc \in Guarded
      BY DEF DeleteLock, TkAt, Guarded
    <3> QED
      BY <2>1, <2>2, <3>1, OneOwner DEF LockOwned
  <2>5. Good \subseteq Good' /\ UNCHANGED <<cred, user>>
    BY <2>1 DEF Good, server
  <2>6. TokensUnspent => TokensUnspent'
    BY <2>1, <2>2, <2>5 DEF TokensUnspent, Good
  <2> QED
    BY <1>a, <2>1, <2>3, <2>4, <2>6 DEF TokensInv
<1> QED
  BY <1>1, <1>2, <1>3 DEF CompareLock

\* The user connects and disconnects.
LEMMA UserKeeps ==
  ASSUME TokensInv, Exchange \/ Connected \/ Revoke \/ Disconnected
  PROVE  TokensInv'
<1>a. TokenTypes /\ (slipped \/ (LockOwned /\ TokensUnspent))
  BY DEF TokensInv
<1>b. UNCHANGED <<rlock, call, slipped>> /\ (LockOwned => LockOwned')
  BY DEF Exchange, Connected, Revoke, Disconnected, LockOwned
<1>c. \A c \in Callers : call[c].token \in 0 .. issued
  BY <1>a DEF TokenTypes, CallShape
<1>1. CASE Exchange
  <2>1. /\ issued' = issued + 1 /\ live' = live \cup {issued + 1} /\ UNCHANGED <<cred, burnt>>
        /\ user' = [pc |-> "store", token |-> issued + 1]
    BY <1>1 DEF Exchange
  <2>2. TokenTypes'
    <3>1. CallShape \subseteq CallShape'
      BY <1>a, <2>1 DEF CallShape, TokenTypes
    <3>2. call' \in [Callers -> CallShape']
      BY <1>a, <1>b, <3>1 DEF TokenTypes
    <3> QED
      BY <1>a, <1>b, <2>1, <3>2 DEF TokenTypes
  <2>3. Good' = Good \cup {issued + 1}
    BY <2>1 DEF Good
  <2>4. cred.id # issued + 1 /\ \A c \in Callers : call[c].token # issued + 1
    BY <1>a, <1>c DEF TokenTypes
  <2>5. TokensUnspent => TokensUnspent'
    BY <1>b, <2>1, <2>3, <2>4 DEF TokensUnspent
  <2> QED
    BY <1>a, <1>b, <2>2, <2>5 DEF TokensInv
<1>2. CASE Connected
  <2>1. /\ user.pc = "store" /\ cred' = [id |-> user.token, stale |-> FALSE]
        /\ user' = [pc |-> "idle", token |-> 0] /\ UNCHANGED <<issued, live, burnt>>
    BY <1>2 DEF Connected, server
  <2>2. TokenTypes'
    BY <1>a, <1>b, <2>1 DEF TokenTypes, CallShape
  <2>3. user.token # 0 /\ "persist" # "idle"
    BY <1>a, <2>1 DEF TokenTypes
  <2>4. TokensUnspent => TokensUnspent'
    BY <1>b, <2>1, <2>3 DEF TokensUnspent, Good
  <2> QED
    BY <1>a, <1>b, <2>2, <2>4 DEF TokensInv
<1>3. CASE Revoke
  <2>1. /\ live' \subseteq live /\ burnt' = burnt \cup (live \ live') /\ UNCHANGED <<cred, issued>>
        /\ user' = [pc |-> "remove", token |-> 0]
    BY <1>3 DEF Revoke
  <2>2. TokenTypes'
    BY <1>a, <1>b, <2>1 DEF TokenTypes, CallShape
  <2>3. Good' = Good /\ burnt \subseteq burnt'
    BY <2>1 DEF Good
  <2>4. TokensUnspent => TokensUnspent'
    BY <1>b, <2>1, <2>3 DEF TokensUnspent
  <2> QED
    BY <1>a, <1>b, <2>2, <2>4 DEF TokensInv
<1>4. CASE Disconnected
  <2>1. /\ cred' = NoCred /\ burnt' = burnt \cup 1 .. issued /\ UNCHANGED <<issued, live>>
        /\ user' = [pc |-> "idle", token |-> 0]
    BY <1>4 DEF Disconnected, server
  <2>2. TokenTypes'
    BY <1>a, <1>b, <2>1 DEF TokenTypes, CallShape, NoCred
  <2>3. Good \subseteq Good' /\ cred'.id = 0
    BY <2>1 DEF Good, NoCred
  <2>4. \A c \in Callers : call[c].pc # "idle" => call[c].token \in burnt' /\ call[c].token # 0
    BY <1>a, <1>c, <2>1 DEF TokenTypes
  <2>5. TokensUnspent => TokensUnspent'
    BY <1>b, <2>1, <2>3, <2>4 DEF TokensUnspent
  <2> QED
    BY <1>a, <1>b, <2>2, <2>5 DEF TokensInv
<1> QED
  BY <1>1, <1>2, <1>3, <1>4

\* Time passes: a lock that runs out on its owner is recorded.
LEMMA TimeKeeps ==
  ASSUME TokensInv, TokenAges \/ MarkerExpires \/ TokensClock
  PROVE  TokensInv'
<1>a. TokenTypes /\ (slipped \/ (LockOwned /\ TokensUnspent))
  BY DEF TokensInv
<1>1. /\ UNCHANGED <<call, user, issued, live, burnt>> /\ cred'.id = cred.id
      /\ cred' \in [id : 0 .. issued, stale : BOOLEAN]
  BY <1>a DEF TokenAges, MarkerExpires, TokensClock, TokenTypes, server
<1>2. TokensUnspent => TokensUnspent'
  BY <1>1 DEF TokensUnspent, Good
<1>3. CASE UNCHANGED <<rlock, slipped>>
  BY <1>a, <1>1, <1>2, <1>3 DEF TokensInv, TokenTypes, CallShape, LockOwned
<1>4. CASE TokensClock
  <2>1. /\ rlock' = IF rlock.life = 1 THEN NoRLock ELSE [rlock EXCEPT !.life = @ - 1]
        /\ slipped' = (slipped \/ (rlock.life = 1 /\ \E c \in Callers : c = rlock.by /\ call[c].pc \in Guarded))
    BY <1>4 DEF TokensClock
  <2>2. TokenTypes'
    BY <1>a, <1>1, <2>1 DEF TokenTypes, CallShape, NoRLock
  <2>3. CASE rlock.life = 1
    BY <1>a, <1>1, <1>2, <2>1, <2>2, <2>3 DEF TokensInv, LockOwned
  <2>4. CASE rlock.life # 1
    <3>1. rlock'.by = rlock.by /\ (slipped \/ LockOwned)
      BY <1>a, <2>1, <2>4 DEF TokenTypes
    <3>2. LockOwned => LockOwned'
      BY <1>1, <3>1 DEF LockOwned
    <3> QED
      BY <1>a, <1>2, <2>1, <2>2, <3>2 DEF TokensInv
  <2> QED
    BY <2>3, <2>4
<1> QED
  BY <1>3, <1>4 DEF TokenAges, MarkerExpires

\* The invariant of the refresh holds in every behaviour.
LEMMA TokensInvariance == TokensSpec => []TokensInv
<1>1. TokensInv /\ [TokensNext]_tokensVars => TokensInv'
  <2> SUFFICES ASSUME TokensInv, [TokensNext]_tokensVars PROVE TokensInv'
    OBVIOUS
  <2>1. CASE UNCHANGED tokensVars
    BY <2>1 DEF tokensVars, server, TokensInv, TokenTypes, CallShape, LockOwned, TokensUnspent, Good
  <2>2. ASSUME NEW c \in Callers, EnsureFresh(c) PROVE TokensInv'
    BY <2>2, BeforeTheLock, UnderTheLock, RefreshKeeps, LeavingTheLock DEF EnsureFresh
  <2>3. CASE Exchange \/ Connected \/ Revoke \/ Disconnected
    BY <2>3, UserKeeps
  <2>4. CASE TokenAges \/ MarkerExpires \/ TokensClock
    BY <2>4, TimeKeeps
  <2> QED
    BY <2>1, <2>2, <2>3, <2>4 DEF TokensNext
<1> QED
  BY <1>1, InitTokens, PTL DEF TokensSpec

\* For any number of callers, tokens and failures: one caller refreshes at a time, until a
\* lock runs out on its holder or is skipped.
THEOREM RefreshIsExclusive == TokensSpec => []OneRefresher
<1>1. TokensInv => OneRefresher
  BY OneOwner DEF TokensInv, OneRefresher
<1> QED
  BY <1>1, TokensInvariance, PTL

\* Until then, nobody sends a refresh token that has been spent by another, but for those
\* whose answer was lost or whose connection the user has ended.
THEOREM RefreshTokensSpentOnce == TokensSpec => []SpentOnce
<1>1. TokensInv => SpentOnce
  BY DEF TokensInv, TokensUnspent, Good, SpentOnce, TkAt
<1> QED
  BY <1>1, TokensInvariance, PTL

\* The lock that stands has life left, and the marker and the counters are in their ranges.
LifeLeft ==
    /\ marker \in BOOLEAN /\ slipped \in BOOLEAN /\ failures \in 0 .. MaxFailures
    /\ issued <= MaxTokens /\ burnt \subseteq Token
    /\ rlock.life \in 0 .. RefreshTTL /\ (rlock = NoRLock \/ rlock.life # 0)

\* Types of the token, its lock and its callers.
THEOREM TokensTypes == TokensSpec => []TokensTypeOK
<1>1. TokensInit => LifeLeft
  <2> SUFFICES ASSUME TokensInit PROVE LifeLeft
    OBVIOUS
  <2>1. failures \in 0 .. MaxFailures /\ issued <= MaxTokens /\ rlock.life \in 0 .. RefreshTTL
    BY TokensAssumption DEF TokensInit, NoRLock
  <2> QED
    BY <2>1 DEF TokensInit, LifeLeft
<1>2. TokensInv /\ LifeLeft /\ [TokensNext]_tokensVars => LifeLeft'
  <2> SUFFICES ASSUME TokensInv, LifeLeft, [TokensNext]_tokensVars PROVE LifeLeft'
    OBVIOUS
  <2>1. /\ issued \in 0 .. MaxTokens /\ live \subseteq Token
        /\ \A c \in Callers : call[c].token \in Token /\ call[c].spent \in Token
        /\ cred.id \in Token /\ 1 .. issued \subseteq Token
    BY TokensAssumption DEF TokensInv, TokenTypes, CallShape, LifeLeft, Token
  <2>2. ASSUME NEW c \in Callers, EnsureFresh(c) PROVE LifeLeft'
    <3>1. ASSUME NEW force \in BOOLEAN, LoadToken(c, force) PROVE LifeLeft'
      BY <3>1 DEF LoadToken, server, LifeLeft
    <3>2. CASE TakeLock(c)
      BY <3>2, TokensAssumption DEF TakeLock, server, LifeLeft
    <3>3. CASE SkipLock(c)
      BY <3>3, TokensAssumption DEF SkipLock, Failure, server, LifeLeft
    <3>4. CASE WaitForOther(c) \/ Reread(c) \/ Refused(c) \/ MarkRejected(c) \/ PersistToken(c) \/ CompareLock(c)
      BY <3>4 DEF WaitForOther, Reread, Refused, MarkRejected, PersistToken, CompareLock, server, LifeLeft
    <3>5. CASE Refresh(c)
      BY <2>1, <3>5, TokensAssumption DEF Refresh, LifeLeft
    <3>6. CASE RefreshFails(c)
      BY <2>1, <3>6, TokensAssumption DEF RefreshFails, Failure, server, LifeLeft
    <3>7. CASE DeleteLock(c)
      BY <3>7, TokensAssumption DEF DeleteLock, NoRLock, server, LifeLeft
    <3>8. CASE CallerLost(c)
      BY <2>1, <3>8, TokensAssumption DEF CallerLost, Failure, server, LifeLeft
    <3> QED
      BY <2>2, <3>1, <3>2, <3>3, <3>4, <3>5, <3>6, <3>7, <3>8 DEF EnsureFresh
  <2>3. CASE Exchange
    BY <2>1, <2>3, TokensAssumption DEF Exchange, LifeLeft
  <2>4. CASE Revoke
    <3>1. burnt' \subseteq Token
      BY <2>1, <2>4 DEF Revoke, LifeLeft
    <3> QED
      BY <2>4, <3>1 DEF Revoke, LifeLeft
  <2>5. CASE Disconnected
    BY <2>1, <2>5 DEF Disconnected, server, LifeLeft
  <2>6. CASE TokensClock
    <3>1. rlock \in [by : Callers \cup {NoCaller}, life : Int]
      BY DEF TokensInv, TokenTypes
    <3>2. CASE rlock.life = 1
      BY <2>6, <3>2, TokensAssumption DEF TokensClock, NoRLock, server, LifeLeft
    <3>3. CASE rlock.life # 1
      BY <2>6, <3>1, <3>3, TokensAssumption DEF TokensClock, server, LifeLeft
    <3> QED
      BY <3>2, <3>3
  <2>7. CASE Connected \/ TokenAges \/ MarkerExpires \/ UNCHANGED tokensVars
    BY <2>7 DEF Connected, TokenAges, MarkerExpires, server, tokensVars, LifeLeft
  <2> QED
    BY <2>2, <2>3, <2>4, <2>5, <2>6, <2>7 DEF TokensNext
<1>3. TokensInv /\ LifeLeft => TokensTypeOK
  BY DEF TokensInv, TokenTypes, CallShape, LifeLeft, TokensTypeOK, Token
<1> QED
  BY <1>1, <1>2, <1>3, TokensInvariance, PTL DEF TokensSpec

-----------------------------------------------------------------------------
(* McpSessions                                                             *)

\* Where a request can be.
Places == {"idle", "send", "headers", "initialize", "ack", "wait", "401", "404", "forget", "rejected"}

\* What a thread knows of its request.
Request == [pc : Places, token : Nat, sid : Nat, refreshed : BOOLEAN, reinitialized : BOOLEAN,
            sessionRetried : BOOLEAN, meddled : BOOLEAN, unlucky : BOOLEAN]

\* The tokens, the sessions and the requests are in their ranges.
McpTypes ==
    /\ accessToken \in Access /\ accepted \subseteq Access /\ issues \in BOOLEAN
    /\ opened \in Session /\ kept \subseteq 1 .. opened
    /\ initialized \in BOOLEAN /\ session \in Session
    /\ sessionLock \in Requesters \cup {Nobody}
    /\ req \in [Requesters -> Request]

\* No token comes back: what the server refuses now it refuses for good.
TokensAge ==
    /\ \A k \in accepted : k <= accessToken
    /\ \A t \in Requesters : req[t].pc # "idle" => req[t].token <= accessToken \/ accessToken = 0
    /\ accessToken = 0 => accepted = {}

\* Only the thread inside the lock opens a session; a session that is set up has an
\* id if the server names them.
LockInv ==
    /\ \A t \in Requesters : req[t].pc \in {"initialize", "ack"} <=> sessionLock = t
    /\ initialized /\ issues => session # 0
    /\ ~issues => session = 0

\* A request that no other thread has meddled with knows the session it uses.
Undisturbed(t) == req[t].pc # "idle" /\ ~req[t].meddled

\* What such a request knows of the session at each place.
OwnSession(t) ==
    /\ sessionLock \notin {t, Nobody} => req[t].pc = "send" /\ ~req[t].refreshed /\ ~req[t].reinitialized
                                         /\ ~req[t].sessionRetried
    /\ req[t].pc = "initialize" => session = 0
    /\ req[t].pc \in {"headers", "wait"} => initialized
    /\ req[t].pc \in {"ack", "headers", "wait"} /\ issues => session # 0
    /\ req[t].pc = "wait" => req[t].sid = session
    /\ req[t].sessionRetried => req[t].refreshed
    /\ req[t].sessionRetried /\ req[t].pc = "send" => ~initialized
    /\ req[t].sessionRetried /\ ~req[t].unlucky /\ issues /\ req[t].pc \in {"ack", "headers", "wait"} =>
        session \in kept

\* A refused request whose token is good was refused for a session that can be given up.
Verdict(t) ==
    ~req[t].unlucky /\ req[t].token \in accepted =>
        /\ req[t].pc = "401" => session # 0 /\ ~req[t].sessionRetried
        /\ req[t].pc # "rejected"

\* The inductive invariant.
McpInv ==
    /\ McpTypes /\ TokensAge /\ LockInv
    /\ \A t \in Requesters : Undisturbed(t) => OwnSession(t) /\ Verdict(t)

\* What a step of thread a leaves of another thread's request.
LEMMA Bystander ==
  ASSUME McpInv, NEW a \in Requesters, NEW t \in Requesters \ {a},
         req'[t] = req[t], issues' = issues, Undisturbed(t),
         req[t].token \in accepted' => req[t].token \in accepted,
         \/ /\ UNCHANGED <<session, initialized>> /\ kept \subseteq kept'
            /\ sessionLock' = sessionLock \/ sessionLock' = Nobody
         \/ sessionLock = a /\ sessionLock' \in {a, Nobody}
  PROVE  OwnSession(t)' /\ Verdict(t)'
<1>1. OwnSession(t) /\ Verdict(t)
  BY DEF McpInv
<1>2. a \in Requesters /\ a # t /\ a # Nobody
  BY McpAssumption
<1>3. CASE sessionLock = a /\ sessionLock' \in {a, Nobody}
  <2>1. req[t].pc = "send" /\ ~req[t].refreshed /\ ~req[t].reinitialized /\ ~req[t].sessionRetried
    BY <1>1, <1>2, <1>3 DEF OwnSession
  <2> QED
    BY <2>1 DEF OwnSession, Verdict
<1>4. CASE /\ UNCHANGED <<session, initialized>> /\ kept \subseteq kept'
           /\ sessionLock' = sessionLock \/ sessionLock' = Nobody
  <2>1. OwnSession(t)'
    BY <1>1, <1>4 DEF OwnSession
  <2>2. Verdict(t)'
    BY <1>1, <1>4 DEF Verdict
  <2> QED
    BY <2>1, <2>2
<1> QED
  BY <1>3, <1>4

\* No token refused, no session and no request.
LEMMA InitMcp == McpInit => McpInv
<1> SUFFICES ASSUME McpInit PROVE McpInv
  OBVIOUS
<1>1. McpTypes
  <2>1. req \in [Requesters -> Request]
    BY DEF McpInit, NoReq, Request, Places
  <2>2. accessToken \in Access /\ accepted \subseteq Access /\ issues \in BOOLEAN
    BY McpAssumption DEF McpInit, Access
  <2>3. opened \in Session /\ kept \subseteq 1 .. opened /\ session \in Session
    BY McpAssumption DEF McpInit, Session
  <2> QED
    BY <2>1, <2>2, <2>3 DEF McpInit, McpTypes
<1>2. \A t \in Requesters : req[t].pc = "idle"
  BY DEF McpInit, NoReq
<1>3. TokensAge /\ LockInv
  BY <1>2, McpAssumption DEF McpInit, TokensAge, LockInv
<1> QED
  BY <1>1, <1>2, <1>3 DEF McpInv, Undisturbed

\* A step of thread a that touches its own request and at most leaves the lock.
LEMMA OwnStep ==
  ASSUME McpInv, NEW a \in Requesters,
         req' \in [Requesters -> Request], \A t \in Requesters \ {a} : req'[t] = req[t],
         UNCHANGED <<accessToken, accepted, issues, initialized, session>>,
         opened' \in Session, kept' \subseteq 1 .. opened', kept \subseteq kept',
         sessionLock' = IF sessionLock = a THEN Nobody ELSE sessionLock,
         req'[a].pc \notin {"initialize", "ack"},
         req'[a].pc # "idle" => req'[a].token <= accessToken \/ accessToken = 0,
         Undisturbed(a)' => OwnSession(a)' /\ Verdict(a)'
  PROVE  McpInv'
<1>a. McpTypes /\ TokensAge /\ LockInv
  BY DEF McpInv
<1>2. a # Nobody
  BY McpAssumption
<1>3. McpTypes'
  BY <1>a DEF McpTypes
<1>4. TokensAge'
  BY <1>a DEF TokensAge
<1>5. LockInv'
  BY <1>a, <1>2, McpAssumption DEF LockInv
<1>6. ASSUME NEW t \in Requesters, Undisturbed(t)' PROVE OwnSession(t)' /\ Verdict(t)'
  <2>1. CASE t = a
    BY <1>6, <2>1
  <2>2. CASE t # a
    <3>1. req'[t] = req[t] /\ Undisturbed(t)
      BY <1>6, <2>2 DEF Undisturbed
    <3> QED
      BY <2>2, <3>1, Bystander
  <2> QED
    BY <2>1, <2>2
<1> QED
  BY <1>3, <1>4, <1>5, <1>6 DEF McpInv

\* Requests that begin, end or go on with the session there is.
LEMMA BeginKeeps ==
  ASSUME McpInv, NEW a \in Requesters, BeginRequest(a)
  PROVE  McpInv'
<1>a. McpTypes /\ TokensAge /\ LockInv /\ a # Nobody
  BY McpAssumption DEF McpInv
<1>b. accessToken \in Nat
  BY <1>a, McpAssumption DEF McpTypes, Access
<1>1. /\ req' \in [Requesters -> Request] /\ \A t \in Requesters \ {a} : req'[t] = req[t]
      /\ req'[a].pc = "send" /\ req'[a].token = accessToken /\ ~req'[a].refreshed /\ ~req'[a].reinitialized
      /\ ~req'[a].sessionRetried /\ req[a].pc = "idle"
  BY <1>a, <1>b DEF BeginRequest, RqAt, McpTypes, NoReq, Request, Places
<1>2. UNCHANGED <<accessToken, accepted, issues, kept, opened, initialized, session, sessionLock>>
  BY DEF BeginRequest, tokenVars, serverVars, sharedVars
<1>3. sessionLock # a
  BY <1>a, <1>1 DEF LockInv
<1>4. OwnSession(a)' /\ Verdict(a)'
  BY <1>1 DEF OwnSession, Verdict
<1> QED
  BY <1>a, <1>b, <1>1, <1>2, <1>3, <1>4, OwnStep DEF McpTypes

\* A request finds the session it uses, or takes the lock to open one.
LEMMA UseKeeps ==
  ASSUME McpInv, NEW a \in Requesters, UseSession(a) \/ SendRequest(a)
  PROVE  McpInv'
<1>a. McpTypes /\ TokensAge /\ LockInv /\ a # Nobody
  BY McpAssumption DEF McpInv
<1>b. Undisturbed(a) => OwnSession(a) /\ Verdict(a)
  BY DEF McpInv
<1>c. session \in Nat
  BY <1>a, McpAssumption DEF McpTypes, Session
<1>1. /\ req' \in [Requesters -> Request] /\ \A t \in Requesters \ {a} : req'[t] = req[t]
      /\ req'[a].token = req[a].token /\ req'[a].refreshed = req[a].refreshed
      /\ req'[a].reinitialized = req[a].reinitialized /\ req'[a].sessionRetried = req[a].sessionRetried
      /\ req'[a].meddled = req[a].meddled /\ req'[a].unlucky = req[a].unlucky
      /\ \/ req[a].pc = "send" /\ req'[a].pc = "headers" /\ sessionLock = Nobody /\ initialized
         \/ req[a].pc = "headers" /\ req'[a].pc = "wait" /\ req'[a].sid = session
  BY <1>a, <1>c DEF UseSession, SendRequest, RqAt, RqGoto, McpTypes, Request, Places
<1>2. UNCHANGED <<accessToken, accepted, issues, kept, opened, initialized, session, sessionLock>>
  BY DEF UseSession, SendRequest, tokenVars, serverVars, sharedVars
<1>3. sessionLock # a
  BY <1>a, <1>1 DEF LockInv
<1>4. Undisturbed(a)' => OwnSession(a)' /\ Verdict(a)'
  <2> SUFFICES ASSUME Undisturbed(a)' PROVE OwnSession(a)' /\ Verdict(a)'
    OBVIOUS
  <2>1. OwnSession(a)
    BY <1>b, <1>1 DEF Undisturbed
  <2>2. OwnSession(a)'
    BY <1>a, <1>1, <1>2, <2>1 DEF OwnSession, LockInv
  <2> QED
    BY <1>1, <2>2 DEF Verdict
<1> QED
  BY <1>a, <1>1, <1>2, <1>3, <1>4, OwnStep DEF McpTypes, TokensAge

\* A thread that is refused decides what to give up; what it read of the session is
\* still true unless another thread has meddled with it.
LEMMA DecideKeeps ==
  ASSUME McpInv, NEW a \in Requesters, DecideRetry(a) \/ MarkTokenRejected(a)
  PROVE  McpInv'
<1>a. McpTypes /\ TokensAge /\ LockInv /\ a # Nobody
  BY McpAssumption DEF McpInv
<1>b. Undisturbed(a) => OwnSession(a) /\ Verdict(a)
  BY DEF McpInv
<1>1. /\ req' \in [Requesters -> Request] /\ \A t \in Requesters \ {a} : req'[t] = req[t]
      /\ req'[a].token = req[a].token /\ req'[a].refreshed = req[a].refreshed /\ req[a].refreshed
      /\ req'[a].reinitialized = req[a].reinitialized
      /\ req'[a].meddled = req[a].meddled /\ req'[a].unlucky = req[a].unlucky
      /\ req[a].pc = "401"
      /\ \/ req'[a].pc = "forget" /\ req'[a].sessionRetried
         \/ /\ req'[a].pc = "rejected" /\ req'[a].sessionRetried = req[a].sessionRetried
            /\ session = 0 \/ req[a].sessionRetried
  BY <1>a DEF DecideRetry, MarkTokenRejected, WorthASession, RqAt, RqGoto, McpTypes, Request, Places
<1>2. UNCHANGED <<accessToken, accepted, issues, kept, opened, initialized, session, sessionLock>>
  BY DEF DecideRetry, MarkTokenRejected, tokenVars, serverVars, sharedVars
<1>3. sessionLock # a
  BY <1>a, <1>1 DEF LockInv
<1>4. Undisturbed(a)' => OwnSession(a)' /\ Verdict(a)'
  <2> SUFFICES ASSUME Undisturbed(a)' PROVE OwnSession(a)' /\ Verdict(a)'
    OBVIOUS
  <2>1. OwnSession(a) /\ Verdict(a)
    BY <1>b, <1>1 DEF Undisturbed
  <2>2. OwnSession(a)'
    BY <1>a, <1>1, <1>2, <2>1 DEF OwnSession, LockInv
  <2> QED
    BY <1>1, <1>2, <2>1, <2>2 DEF Verdict
<1> QED
  BY <1>a, <1>1, <1>2, <1>3, <1>4, OwnStep DEF McpTypes, TokensAge

\* A request ends with its answer, its error or the verdict on its token.
LEMMA EndKeeps ==
  ASSUME McpInv, NEW a \in Requesters, RejectedRaised(a) \/ GiveUpOrReinitialize(a) \/ Answered(a)
  PROVE  McpInv'
<1>a. McpTypes /\ TokensAge /\ LockInv /\ a # Nobody
  BY McpAssumption DEF McpInv
<1>b. Undisturbed(a) => OwnSession(a) /\ Verdict(a)
  BY DEF McpInv
<1>1. /\ req' \in [Requesters -> Request] /\ \A t \in Requesters \ {a} : req'[t] = req[t]
      /\ \/ req'[a].pc = "idle"
         \/ /\ req[a].pc = "404" /\ req'[a].pc = "forget"
            /\ req'[a].token = req[a].token /\ req'[a].refreshed = req[a].refreshed
            /\ req'[a].sessionRetried = req[a].sessionRetried
            /\ req'[a].meddled = req[a].meddled /\ req'[a].unlucky = req[a].unlucky
  <2>1. NoReq \in Request /\ NoReq.pc = "idle"
    BY DEF NoReq, Request, Places
  <2>2. CASE RejectedRaised(a) \/ Answered(a)
    BY <1>a, <2>1, <2>2 DEF RejectedRaised, Answered, McpTypes
  <2>3. CASE GiveUpOrReinitialize(a)
    <3>1. CASE req[a].reinitialized
      BY <1>a, <2>1, <2>3, <3>1 DEF GiveUpOrReinitialize, McpTypes
    <3>2. CASE ~req[a].reinitialized
      <4>1. req' = [req EXCEPT ![a].pc = "forget", ![a].reinitialized = TRUE] /\ req[a].pc = "404"
        BY <1>a, <2>3, <3>2 DEF GiveUpOrReinitialize, RqAt, McpTypes
      <4> QED
        BY <1>a, <4>1 DEF McpTypes, Request, Places
    <3> QED
      BY <3>1, <3>2
  <2> QED
    BY <2>2, <2>3
<1>2. UNCHANGED <<accessToken, accepted, issues, kept, opened, initialized, session>>
      /\ sessionLock' = IF sessionLock = a THEN Nobody ELSE sessionLock
  <2>1. CASE RejectedRaised(a) \/ GiveUpOrReinitialize(a)
    <3>1. sessionLock # a
      BY <1>a, <2>1 DEF LockInv, RejectedRaised, GiveUpOrReinitialize, RqAt
    <3> QED
      BY <2>1, <3>1 DEF RejectedRaised, GiveUpOrReinitialize, tokenVars, serverVars, sharedVars
  <2>2. CASE Answered(a)
    BY <2>2 DEF Answered, tokenVars
  <2> QED
    BY <2>1, <2>2
<1>3. Undisturbed(a)' => OwnSession(a)' /\ Verdict(a)'
  <2> SUFFICES ASSUME Undisturbed(a)' PROVE OwnSession(a)' /\ Verdict(a)'
    OBVIOUS
  <2>1. req[a].pc = "404" /\ OwnSession(a) /\ Verdict(a)
    BY <1>b, <1>1 DEF Undisturbed
  <2>2. OwnSession(a)'
    BY <1>a, <1>1, <1>2, <2>1 DEF OwnSession, LockInv, Undisturbed
  <2> QED
    BY <1>1, <1>2, <2>1, <2>2 DEF Verdict, Undisturbed
<1> QED
  BY <1>a, <1>1, <1>2, <1>3, OwnStep DEF McpTypes, TokensAge

\* A refusal: the server no longer takes the token, or the session is one that a
\* request which has not given one up before can give up.
LEMMA RefusedKeeps ==
  ASSUME McpInv, NEW a \in Requesters, Unauthorized(a) \/ SessionExpired(a)
  PROVE  McpInv'
<1>a. McpTypes /\ TokensAge /\ LockInv /\ a # Nobody
  BY McpAssumption DEF McpInv
<1>b. Undisturbed(a) => OwnSession(a) /\ Verdict(a)
  BY DEF McpInv
<1>1. /\ req' \in [Requesters -> Request] /\ \A t \in Requesters \ {a} : req'[t] = req[t]
      /\ req'[a].token = req[a].token /\ req'[a].refreshed = req[a].refreshed
      /\ req'[a].reinitialized = req[a].reinitialized /\ req'[a].sessionRetried = req[a].sessionRetried
      /\ req'[a].meddled = req[a].meddled /\ req'[a].unlucky = req[a].unlucky
      /\ req[a].pc \in {"initialize", "ack", "wait"} /\ req'[a].pc \in {"401", "404"}
  BY <1>a DEF Unauthorized, SessionExpired, RqAt, RqGoto, McpTypes, Request, Places
<1>2. /\ UNCHANGED <<accessToken, accepted, issues, kept, opened, initialized, session>>
      /\ sessionLock' = IF sessionLock = a THEN Nobody ELSE sessionLock
  BY DEF Unauthorized, SessionExpired, tokenVars, serverVars
<1>3. Undisturbed(a)' => OwnSession(a)' /\ Verdict(a)'
  <2> SUFFICES ASSUME Undisturbed(a)' PROVE OwnSession(a)' /\ Verdict(a)'
    OBVIOUS
  <2>1. OwnSession(a)
    BY <1>b, <1>1 DEF Undisturbed
  <2>2. OwnSession(a)'
    BY <1>a, <1>1, <1>2, <2>1 DEF OwnSession, LockInv
  <2>3. ASSUME req'[a].pc = "401", ~req[a].unlucky, req[a].token \in accepted
        PROVE  session # 0 /\ ~req[a].sessionRetried
    <3>1. Unauthorized(a)
      <4>1. SessionExpired(a) => req'[a].pc = "404"
        BY <1>a DEF SessionExpired, RqGoto, McpTypes, Request
      <4> QED
        BY <2>3, <4>1
    <3>2. \/ req[a].pc = "ack" /\ issues /\ session \notin kept
          \/ req[a].pc = "wait" /\ issues /\ req[a].sid \notin kept
      BY <2>3, <3>1 DEF Unauthorized, RqAt, Honoured
    <3> QED
      BY <2>1, <2>3, <3>2 DEF OwnSession
  <2>4. Verdict(a)'
    BY <1>1, <1>2, <2>3 DEF Verdict
  <2> QED
    BY <2>2, <2>4
<1> QED
  BY <1>a, <1>1, <1>2, <1>3, OwnStep DEF McpTypes, TokensAge

\* A refresh never brings a refused token back.
LEMMA RefreshedKeeps ==
  ASSUME McpInv, NEW a \in Requesters, RefreshAndRetry(a)
  PROVE  McpInv'
<1>a. McpTypes /\ TokensAge /\ LockInv /\ a # Nobody
  BY McpAssumption DEF McpInv
<1>b. Undisturbed(a) => OwnSession(a) /\ Verdict(a)
  BY DEF McpInv
<1>c. accessToken \in Nat /\ MaxAccess \in Nat /\ accessToken <= MaxAccess
  BY <1>a, McpAssumption DEF McpTypes, Access
<1>d. UNCHANGED <<issues, kept, opened, initialized, session, sessionLock>>
  BY DEF RefreshAndRetry, serverVars, sharedVars
<1>e. req[a].pc = "401" /\ ~req[a].refreshed /\ sessionLock # a
  BY <1>a DEF RefreshAndRetry, RqAt, LockInv
<1>1. CASE req' = [req EXCEPT ![a] = NoReq] /\ UNCHANGED tokenVars
  <2>1. NoReq \in Request /\ NoReq.pc = "idle"
    BY DEF NoReq, Request, Places
  <2>2. req' \in [Requesters -> Request] /\ req'[a].pc = "idle" /\ \A t \in Requesters \ {a} : req'[t] = req[t]
    BY <1>a, <1>1, <2>1 DEF McpTypes
  <2> QED
    BY <1>a, <1>d, <1>e, <1>1, <2>2, OwnStep DEF McpTypes, Undisturbed, tokenVars
<1>2. ASSUME NEW k \in Nat, accessToken # 0, accessToken' = k,
             req' = [req EXCEPT ![a].pc = "send", ![a].token = k, ![a].refreshed = TRUE],
             \/ k = accessToken /\ accepted' = accepted
             \/ k = accessToken + 1 /\ accessToken < MaxAccess /\ accepted' = accepted \cup {k}
      PROVE  McpInv'
  <2>1. /\ req' \in [Requesters -> Request] /\ \A t \in Requesters \ {a} : req'[t] = req[t]
        /\ req'[a].pc = "send" /\ req'[a].token = k /\ req'[a].refreshed
        /\ req'[a].meddled = req[a].meddled /\ req'[a].unlucky = req[a].unlucky
        /\ req'[a].sessionRetried = req[a].sessionRetried
    <3>1. req \in [Requesters -> Request] /\ "send" \in Places
      BY <1>a DEF McpTypes, Places
    <3>2. req' \in [Requesters -> Request]
      <4> DEFINE here == [req EXCEPT ![a].pc = "send"]
      <4> DEFINE armed == [here EXCEPT ![a].token = k]
      <4>1. here \in [Requesters -> Request]
        BY <3>1 DEF Request
      <4>2. armed \in [Requesters -> Request]
        <5> HIDE DEF here
        <5> QED
          BY <1>2, <4>1 DEF Request
      <4>3. [armed EXCEPT ![a].refreshed = TRUE] \in [Requesters -> Request]
        <5> HIDE DEF armed
        <5> QED
          BY <4>2 DEF Request
      <4>4. req' = [armed EXCEPT ![a].refreshed = TRUE]
        BY <1>2, <3>1 DEF Request
      <4> QED
        BY <4>3, <4>4
    <3>3. \A t \in Requesters \ {a} : req'[t] = req[t]
      BY <1>2, <3>1
    <3>4. /\ req'[a].pc = "send" /\ req'[a].token = k /\ req'[a].refreshed
          /\ req'[a].meddled = req[a].meddled /\ req'[a].unlucky = req[a].unlucky
          /\ req'[a].sessionRetried = req[a].sessionRetried
      BY <1>2, <3>1 DEF Request
    <3> QED
      BY <3>2, <3>3, <3>4
  <2>2. McpTypes'
    <3>1. k \in Access /\ accepted' \subseteq Access
      BY <1>a, <1>c, <1>2 DEF McpTypes, Access
    <3> QED
      BY <1>a, <1>d, <1>2, <2>1, <3>1 DEF McpTypes
  <2>3. accepted \subseteq Nat /\ \A t \in Requesters : req[t].token \in Nat
    BY <1>a, McpAssumption DEF McpTypes, Access, Request
  <2>4. TokensAge'
    <3>1. \A j \in accepted' : j <= k
      BY <1>a, <1>c, <1>2, <2>3 DEF TokensAge
    <3>2. \A t \in Requesters : req'[t].pc # "idle" => req'[t].token <= k
      BY <1>a, <1>c, <1>2, <2>1, <2>3 DEF TokensAge
    <3>3. accessToken' # 0
      BY <1>c, <1>2
    <3> QED
      BY <1>2, <3>1, <3>2, <3>3 DEF TokensAge
  <2>5. LockInv'
    BY <1>a, <1>d, <1>e, <2>1 DEF LockInv
  <2>6. ASSUME NEW t \in Requesters, Undisturbed(t)' PROVE OwnSession(t)' /\ Verdict(t)'
    <3>1. CASE t = a
      <4>1. OwnSession(a)
        BY <1>b, <1>e, <2>1, <2>6, <3>1 DEF Undisturbed
      <4> QED
        BY <1>d, <1>e, <2>1, <3>1, <4>1 DEF OwnSession, Verdict
    <3>2. CASE t # a
      <4>1. req'[t] = req[t] /\ Undisturbed(t)
        BY <2>1, <2>6, <3>2 DEF Undisturbed
      <4>2. req[t].token <= accessToken
        BY <1>a, <1>2, <4>1 DEF TokensAge, Undisturbed
      <4>3. req[t].token \in accepted' => req[t].token \in accepted
        BY <1>c, <1>2, <2>3, <4>2
      <4> QED
        BY <1>d, <3>2, <4>1, <4>3, Bystander
    <3> QED
      BY <3>1, <3>2
  <2> QED
    BY <2>2, <2>4, <2>5, <2>6 DEF McpInv
<1>3. accessToken + 1 \in Nat
  BY <1>c
<1> QED
  BY <1>c, <1>1, <1>2, <1>3 DEF RefreshAndRetry, tokenVars

\* To change the shared session is to meddle with every other request.
LEMMA MeddleKeeps ==
  ASSUME McpInv, NEW a \in Requesters, OpenSession(a) \/ ForgetSession(a)
  PROVE  McpInv'
<1>a. McpTypes /\ TokensAge /\ LockInv /\ a # Nobody
  BY McpAssumption DEF McpInv
<1>b. Undisturbed(a) => OwnSession(a) /\ Verdict(a)
  BY DEF McpInv
<1>1. /\ req'[a].pc \in {"initialize", "send"} /\ req[a].pc \in {"send", "forget"}
      /\ req' \in [Requesters -> Request]
      /\ req'[a].token = req[a].token /\ req'[a].refreshed = req[a].refreshed
      /\ req'[a].sessionRetried = req[a].sessionRetried /\ req'[a].unlucky = req[a].unlucky
      /\ req'[a].meddled = req[a].meddled
      /\ \A t \in Requesters \ {a} : req'[t].pc = req[t].pc /\ req'[t].token = req[t].token
                                    /\ (req[t].pc # "idle" => req'[t].meddled)
  <2>1. PICK pc \in {"initialize", "send"} : Meddle(a, pc)
    BY DEF OpenSession, ForgetSession
  <2>2. /\ \A t \in Requesters : req[t] \in Request
        /\ req' = [u \in Requesters |-> IF u = a THEN [req[a] EXCEPT !.pc = pc]
                                        ELSE [req[u] EXCEPT !.meddled = ~RqAt(u, "idle")]]
    BY <1>a, <2>1 DEF McpTypes, Meddle
  <2>3. req'[a] = [req[a] EXCEPT !.pc = pc]
    BY <2>2
  <2>4. \A t \in Requesters \ {a} : req'[t] = [req[t] EXCEPT !.meddled = ~RqAt(t, "idle")]
    BY <2>2
  <2>5. \A t \in Requesters : req'[t] \in Request
    <3>1. req'[a] \in Request
      BY <2>2, <2>3 DEF Request, Places
    <3>2. ASSUME NEW t \in Requesters \ {a} PROVE req'[t] \in Request
      <4>1. (~RqAt(t, "idle")) \in BOOLEAN
        OBVIOUS
      <4> DEFINE new == ~RqAt(t, "idle")
      <4>2. req'[t] = [req[t] EXCEPT !.meddled = new] /\ new \in BOOLEAN
        BY <2>4, <4>1
      <4> HIDE DEF new
      <4> QED
        BY <2>2, <4>2 DEF Request
    <3> QED
      BY <3>1, <3>2
  <2>6. req' \in [Requesters -> Request]
    <3>1. DOMAIN req' = Requesters /\ req' = [u \in Requesters |-> req'[u]]
      BY <2>2
    <3> HIDE DEF Request
    <3> QED
      BY <2>5, <3>1
  <2>7. req[a].pc \in {"send", "forget"}
    BY DEF OpenSession, ForgetSession, RqAt
  <2>8. ASSUME NEW t \in Requesters \ {a}
        PROVE  req'[t].pc = req[t].pc /\ req'[t].token = req[t].token /\ (req[t].pc # "idle" => req'[t].meddled)
    BY <2>2, <2>4 DEF Request, RqAt
  <2> QED
    BY <2>2, <2>3, <2>6, <2>7, <2>8 DEF Request
<1>2. /\ sessionLock = Nobody /\ session' = 0 /\ initialized' = FALSE
      /\ sessionLock' = IF req'[a].pc = "initialize" THEN a ELSE Nobody
      /\ UNCHANGED <<accessToken, accepted, issues, kept, opened>>
  <2>1. CASE OpenSession(a)
    <3>1. req'[a].pc = "initialize"
      BY <1>a, <2>1 DEF OpenSession, Meddle, McpTypes, Request
    <3> QED
      BY <2>1, <3>1 DEF OpenSession, tokenVars, serverVars
  <2>2. CASE ForgetSession(a)
    <3>1. req'[a].pc = "send"
      BY <1>a, <2>2 DEF ForgetSession, Meddle, McpTypes, Request
    <3> QED
      BY <2>2, <3>1 DEF ForgetSession, tokenVars, serverVars
  <2> QED
    BY <2>1, <2>2
<1>3. McpTypes'
  <2>1. 0 \in Session /\ sessionLock' \in Requesters \cup {Nobody} /\ FALSE \in BOOLEAN
    BY <1>2, McpAssumption DEF Session
  <2>2. session' \in Session /\ initialized' \in BOOLEAN
    BY <1>2, <2>1
  <2> QED
    BY <1>a, <1>1, <1>2, <2>1, <2>2 DEF McpTypes
<1>4. TokensAge'
  BY <1>a, <1>1, <1>2 DEF TokensAge
<1>5. LockInv'
  BY <1>a, <1>1, <1>2, McpAssumption DEF LockInv
<1>6. ASSUME NEW t \in Requesters, Undisturbed(t)' PROVE OwnSession(t)' /\ Verdict(t)'
  <2>1. t = a
    BY <1>1, <1>6 DEF Undisturbed
  <2>2. OwnSession(a)
    BY <1>b, <1>1, <1>6, <2>1 DEF Undisturbed
  <2> QED
    BY <1>1, <1>2, <2>1, <2>2 DEF OwnSession, Verdict
<1> QED
  BY <1>3, <1>4, <1>5, <1>6 DEF McpInv

\* The thread inside the lock opens the session, and leaves.
LEMMA OpenedKeeps ==
  ASSUME McpInv, NEW a \in Requesters, SessionOpened(a) \/ SessionAcknowledged(a)
  PROVE  McpInv'
<1>a. McpTypes /\ TokensAge /\ LockInv /\ a # Nobody
  BY McpAssumption DEF McpInv
<1>b. Undisturbed(a) => OwnSession(a) /\ Verdict(a)
  BY DEF McpInv
<1>c. opened \in Nat /\ MaxSessions \in Nat /\ kept \subseteq 1 .. opened
  BY <1>a, McpAssumption DEF McpTypes, Session
<1>1. /\ req' \in [Requesters -> Request] /\ \A t \in Requesters \ {a} : req'[t] = req[t]
      /\ req'[a].token = req[a].token /\ req'[a].refreshed = req[a].refreshed
      /\ req'[a].sessionRetried = req[a].sessionRetried
      /\ req'[a].meddled = req[a].meddled /\ req'[a].unlucky = req[a].unlucky
      /\ UNCHANGED <<accessToken, accepted, issues>> /\ sessionLock = a
      /\ \/ /\ req[a].pc = "initialize" /\ req'[a].pc = "ack" /\ sessionLock' = a /\ UNCHANGED initialized
            /\ \/ issues /\ session' = opened + 1 /\ opened' = opened + 1 /\ kept' = kept \cup {opened + 1}
                  /\ opened < MaxSessions
               \/ ~issues /\ UNCHANGED <<session, opened, kept>>
         \/ /\ req[a].pc = "ack" /\ req'[a].pc = "headers" /\ sessionLock' = Nobody /\ initialized'
            /\ UNCHANGED <<session, opened, kept>> /\ (issues => session \in kept)
  <2>1. CASE SessionOpened(a)
    <3>1. sessionLock = a
      BY <1>a, <2>1 DEF SessionOpened, RqAt, LockInv
    <3>2. /\ req' \in [Requesters -> Request] /\ \A t \in Requesters \ {a} : req'[t] = req[t]
          /\ req'[a].token = req[a].token /\ req'[a].refreshed = req[a].refreshed
          /\ req'[a].sessionRetried = req[a].sessionRetried
          /\ req'[a].meddled = req[a].meddled /\ req'[a].unlucky = req[a].unlucky
          /\ req[a].pc = "initialize" /\ req'[a].pc = "ack"
      BY <1>a, <2>1 DEF SessionOpened, RqAt, RqGoto, McpTypes, Request, Places
    <3> QED
      BY <2>1, <3>1, <3>2 DEF SessionOpened, tokenVars
  <2>2. CASE SessionAcknowledged(a)
    <3>1. sessionLock = a
      BY <1>a, <2>2 DEF SessionAcknowledged, RqAt, LockInv
    <3>2. /\ req' \in [Requesters -> Request] /\ \A t \in Requesters \ {a} : req'[t] = req[t]
          /\ req'[a].token = req[a].token /\ req'[a].refreshed = req[a].refreshed
          /\ req'[a].sessionRetried = req[a].sessionRetried
          /\ req'[a].meddled = req[a].meddled /\ req'[a].unlucky = req[a].unlucky
          /\ req[a].pc = "ack" /\ req'[a].pc = "headers"
      BY <1>a, <2>2 DEF SessionAcknowledged, RqAt, RqGoto, McpTypes, Request, Places
    <3> QED
      BY <2>2, <3>1, <3>2 DEF SessionAcknowledged, Honoured, tokenVars, serverVars
  <2> QED
    BY <2>1, <2>2
<1>2. /\ opened' \in Session /\ kept' \subseteq 1 .. opened' /\ session' \in Session /\ kept \subseteq kept'
      /\ issues => session' # 0 /\ session' \in kept'
      /\ ~issues => session' = session
  <2>1. CASE session' = opened + 1 /\ opened' = opened + 1 /\ kept' = kept \cup {opened + 1} /\ opened < MaxSessions
             /\ issues
    BY <1>c, <2>1 DEF Session
  <2>2. CASE UNCHANGED <<session, opened, kept>> /\ (issues => session \in kept)
    BY <1>a, <1>c, <2>2 DEF McpTypes
  <2>3. \/ session' = opened + 1 /\ opened' = opened + 1 /\ kept' = kept \cup {opened + 1} /\ opened < MaxSessions
           /\ issues
        \/ UNCHANGED <<session, opened, kept>> /\ (issues => session \in kept)
    BY <1>1
  <2> QED
    BY <2>1, <2>2, <2>3
<1>3. McpTypes'
  <2>1. initialized' \in BOOLEAN /\ sessionLock' \in Requesters \cup {Nobody}
    BY <1>a, <1>1 DEF McpTypes, SessionAcknowledged
  <2> QED
    BY <1>a, <1>1, <1>2, <2>1 DEF McpTypes
<1>4. TokensAge'
  BY <1>a, <1>1 DEF TokensAge
<1>5. LockInv'
  BY <1>a, <1>1, <1>2, McpAssumption DEF LockInv
<1>6. ASSUME NEW t \in Requesters, Undisturbed(t)' PROVE OwnSession(t)' /\ Verdict(t)'
  <2>1. CASE t = a
    <3>1. OwnSession(a)
      BY <1>b, <1>1, <1>6, <2>1 DEF Undisturbed
    <3> QED
      BY <1>1, <1>2, <2>1, <3>1 DEF OwnSession, Verdict
  <2>2. CASE t # a
    <3>1. req'[t] = req[t] /\ Undisturbed(t)
      BY <1>1, <1>6, <2>2 DEF Undisturbed
    <3> QED
      BY <1>1, <2>2, <3>1, Bystander
  <2> QED
    BY <2>1, <2>2
<1> QED
  BY <1>3, <1>4, <1>5, <1>6 DEF McpInv

\* The server forgets tokens and sessions, the user disconnects.
LEMMA ServerKeeps ==
  ASSUME McpInv,
         (\E k \in accepted : AccessExpires(k)) \/ (\E sid \in kept : SessionDropped(sid)) \/ ResetState
  PROVE  McpInv'
<1>a. McpTypes /\ TokensAge /\ LockInv
  BY DEF McpInv
<1>1. ASSUME NEW k \in accepted, AccessExpires(k) PROVE McpInv'
  <2>1. /\ accepted' \subseteq accepted
        /\ UNCHANGED <<accessToken, issues, kept, opened, initialized, session, sessionLock, req>>
    BY <1>1 DEF AccessExpires, sharedVars
  <2>2. McpTypes' /\ TokensAge' /\ LockInv'
    BY <1>a, <2>1 DEF McpTypes, TokensAge, LockInv
  <2>3. ASSUME NEW t \in Requesters, Undisturbed(t)' PROVE OwnSession(t)' /\ Verdict(t)'
    <3>1. OwnSession(t) /\ Verdict(t)
      BY <2>1, <2>3 DEF McpInv, Undisturbed
    <3> QED
      BY <2>1, <3>1 DEF OwnSession, Verdict
  <2> QED
    BY <2>2, <2>3 DEF McpInv
<1>2. ASSUME NEW sid \in kept, SessionDropped(sid) PROVE McpInv'
  <2>1. /\ kept' \subseteq kept
        /\ UNCHANGED <<accessToken, accepted, issues, opened, initialized, session, sessionLock>>
    BY <1>2 DEF SessionDropped, tokenVars, sharedVars
  <2>2. req' = [t \in Requesters |-> [req[t] EXCEPT !.unlucky = req[t].unlucky \/ req[t].sessionRetried]]
    BY <1>2 DEF SessionDropped
  <2>3. ASSUME NEW t \in Requesters
        PROVE  /\ req'[t] \in Request
               /\ req'[t].pc = req[t].pc /\ req'[t].token = req[t].token /\ req'[t].sid = req[t].sid
               /\ req'[t].refreshed = req[t].refreshed /\ req'[t].reinitialized = req[t].reinitialized
               /\ req'[t].sessionRetried = req[t].sessionRetried /\ req'[t].meddled = req[t].meddled
               /\ ~req'[t].unlucky => ~req[t].unlucky /\ ~req[t].sessionRetried
    <3> DEFINE new == req[t].unlucky \/ req[t].sessionRetried
    <3>1. new \in BOOLEAN
      OBVIOUS
    <3>2. req'[t] = [req[t] EXCEPT !.unlucky = new] /\ req[t] \in Request
      BY <1>a, <2>2 DEF McpTypes
    <3>3. ~new => ~req[t].unlucky /\ ~req[t].sessionRetried
      OBVIOUS
    <3> HIDE DEF new
    <3>4. /\ req'[t] \in Request
          /\ req'[t].pc = req[t].pc /\ req'[t].token = req[t].token /\ req'[t].sid = req[t].sid
          /\ req'[t].refreshed = req[t].refreshed /\ req'[t].reinitialized = req[t].reinitialized
          /\ req'[t].sessionRetried = req[t].sessionRetried /\ req'[t].meddled = req[t].meddled
      BY <3>1, <3>2 DEF Request
    <3>5. req'[t].unlucky = new
      BY <3>1, <3>2 DEF Request
    <3> QED
      BY <3>3, <3>4, <3>5
  <2>4. req' \in [Requesters -> Request]
    <3>1. DOMAIN req' = Requesters /\ req' = [u \in Requesters |-> req'[u]]
      BY <2>2
    <3> HIDE DEF Request
    <3> QED
      BY <2>3, <3>1
  <2>5. McpTypes' /\ TokensAge' /\ LockInv'
    BY <1>a, <2>1, <2>3, <2>4 DEF McpTypes, TokensAge, LockInv
  <2>6. ASSUME NEW t \in Requesters, Undisturbed(t)' PROVE OwnSession(t)' /\ Verdict(t)'
    <3>1. OwnSession(t) /\ Verdict(t)
      BY <2>3, <2>6 DEF McpInv, Undisturbed
    <3> QED
      BY <2>1, <2>3, <3>1 DEF OwnSession, Verdict
  <2> QED
    BY <2>5, <2>6 DEF McpInv
<1>3. CASE ResetState
  <2>1. /\ accessToken' = 0 /\ accepted' = {} /\ initialized' = FALSE /\ session' = 0 /\ sessionLock = Nobody
        /\ UNCHANGED <<issues, kept, opened, sessionLock>>
        /\ req' = [t \in Requesters |-> [req[t] EXCEPT !.meddled = ~RqAt(t, "idle")]]
    BY <1>3 DEF ResetState, serverVars
  <2>2. ASSUME NEW t \in Requesters
        PROVE  /\ req'[t] \in Request /\ req'[t].pc = req[t].pc
               /\ req[t].pc # "idle" => req'[t].meddled
    <3> DEFINE new == ~RqAt(t, "idle")
    <3>1. new \in BOOLEAN /\ (req[t].pc # "idle" => new)
      BY DEF RqAt
    <3>2. req'[t] = [req[t] EXCEPT !.meddled = new] /\ req[t] \in Request
      BY <1>a, <2>1 DEF McpTypes
    <3> HIDE DEF new
    <3>3. req'[t] \in Request /\ req'[t].pc = req[t].pc /\ req'[t].meddled = new
      BY <3>1, <3>2 DEF Request
    <3> QED
      BY <3>1, <3>3
  <2>3. req' \in [Requesters -> Request]
    <3>1. DOMAIN req' = Requesters /\ req' = [u \in Requesters |-> req'[u]]
      BY <2>1
    <3> HIDE DEF Request
    <3> QED
      BY <2>2, <3>1
  <2>4. McpTypes'
    <3>1. 0 \in Access /\ 0 \in Session /\ FALSE \in BOOLEAN
      BY McpAssumption DEF Access, Session
    <3>2. accessToken' \in Access /\ accepted' \subseteq Access /\ initialized' \in BOOLEAN /\ session' \in Session
      BY <2>1, <3>1
    <3> QED
      BY <1>a, <2>1, <2>3, <3>2 DEF McpTypes
  <2>5. TokensAge' /\ LockInv'
    BY <1>a, <2>1, <2>2 DEF TokensAge, LockInv
  <2>6. \A t \in Requesters : ~Undisturbed(t)'
    BY <2>2 DEF Undisturbed
  <2> QED
    BY <2>4, <2>5, <2>6 DEF McpInv
<1> QED
  BY <1>1, <1>2, <1>3

\* Every step keeps the invariant.
LEMMA NextMcp == McpInv /\ [McpNext]_mcpVars => McpInv'
<1> SUFFICES ASSUME McpInv, [McpNext]_mcpVars PROVE McpInv'
  OBVIOUS
<1>1. CASE UNCHANGED mcpVars
  <2>1. UNCHANGED <<accessToken, accepted, issues, kept, opened, initialized, session, sessionLock, req>>
    BY <1>1 DEF mcpVars, tokenVars, serverVars, sharedVars
  <2>2. McpTypes' /\ TokensAge' /\ LockInv'
    BY <2>1 DEF McpInv, McpTypes, TokensAge, LockInv
  <2>3. \A t \in Requesters : (Undisturbed(t) => OwnSession(t) /\ Verdict(t))'
    BY <2>1 DEF McpInv, Undisturbed, OwnSession, Verdict
  <2> QED
    BY <2>2, <2>3 DEF McpInv
<1>2. ASSUME NEW t \in Requesters,
             \/ BeginRequest(t) \/ UseSession(t) \/ OpenSession(t) \/ SessionOpened(t) \/ SessionAcknowledged(t)
             \/ SendRequest(t) \/ Answered(t) \/ Unauthorized(t) \/ SessionExpired(t)
             \/ RefreshAndRetry(t) \/ DecideRetry(t) \/ MarkTokenRejected(t) \/ RejectedRaised(t)
             \/ GiveUpOrReinitialize(t) \/ ForgetSession(t)
      PROVE  McpInv'
  BY <1>2, BeginKeeps, UseKeeps, DecideKeeps, EndKeeps, RefusedKeeps, RefreshedKeeps, MeddleKeeps, OpenedKeeps
<1>3. CASE (\E k \in accepted : AccessExpires(k)) \/ (\E sid \in kept : SessionDropped(sid)) \/ ResetState
  BY <1>3, ServerKeeps
<1> QED
  BY <1>1, <1>2, <1>3 DEF McpNext

\* For any number of threads, tokens, sessions and faults of the server.
THEOREM RejectionIsTheTokens == McpSpec => []BlamesTheToken
<1>1. McpInv => BlamesTheToken
  BY DEF McpInv, Undisturbed, Verdict, BlamesTheToken, RqAt
<1> QED
  BY <1>1, InitMcp, NextMcp, PTL DEF McpSpec

\* The tokens, the sessions and the requests stay in their ranges, for any number of threads,
\* tokens and sessions.
THEOREM McpSessionsTypes == McpSpec => []McpTypeOK
<1>1. McpInv => McpTypeOK
  BY DEF McpInv, McpTypes, McpTypeOK
<1> QED
  BY <1>1, InitMcp, NextMcp, PTL DEF McpSpec
=============================================================================
