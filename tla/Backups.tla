------------------------------- MODULE Backups -------------------------------
(***************************************************************************)
(* Backups and restores (apps/backups): dumps run by Celery tasks,         *)
(* restores and deletions run by web requests, the Redis lock              *)
(* "backup:running" that dumps and restores share, and the rows that list  *)
(* the files. The lock has no owner: whoever releases it deletes it, and   *)
(* it expires after LOCK_TTL_S. A restore replaces the rows themselves by  *)
(* those the archive holds.                                                *)
(*                                                                         *)
(* A backup is a number, in the order in which its dump began. Rows of     *)
(* failed and skipped backups name no file and are left out.               *)
(***************************************************************************)
EXTENDS Naturals, FiniteSets

CONSTANTS
    Dumpers,      \* workers that take run_backup tasks
    Restorers,    \* web requests that restore
    LockLife,     \* LOCK_TTL_S, in units of BackupsClock
    DumpLimit,    \* the timeout of pg_dump and pg_restore, in the same units
    Keep,         \* BACKUPS_KEEP_SCHEDULED
    MaxBackups,   \* bound: backups made
    MaxUpsets     \* bound: lost workers, failed dumps, restores and deletions

ASSUME BackupsAssumption ==
    /\ LockLife \in Nat \ {0} /\ DumpLimit \in Nat /\ Keep \in Nat /\ MaxBackups \in Nat
    /\ MaxUpsets \in Nat
    /\ Dumpers \cap Restorers = {}

VARIABLES
    made,         \* backups begun so far
    rows,         \* status of each BackupRecord; "none" when there is no such row
    created,      \* the rank of its created_at; 0 when it was never recorded
    kind,         \* scheduled or manual
    files,        \* the files in backups_dir()
    whole,        \* those that hold a complete dump
    archive,      \* the rows as each dump saw them
    bk_lock,      \* remaining life of the lock; 0 when it is not there
    job,          \* where each worker and each restore is
    deleting,     \* backups whose file a DELETE request has unlinked
    upsets,       \* lost workers, failed dumps, restores and deletions so far
    bk_lapsed,    \* history: the lock ran out on a holder still at work
    ghosts        \* history: rows brought back, or not yet marked, without a file

storage     == <<made, created, kind, files, whole, archive>>
requests    == <<deleting, upsets>>
backupsVars == <<storage, rows, bk_lock, job, requests, bk_lapsed, ghosts>>

Backup   == 1 .. MaxBackups
Statuses == {"none", "ok", "rotated", "deleted", "missing"}
Kinds    == {"scheduled", "manual"}

\* The critical section: what runs between acquire_lock and release_lock.
Critical == {"open", "dump", "record", "list", "rotate", "mark", "check", "restore", "release"}

\* A task or request that runs nothing; of is the backup it is about, left the
\* time its subprocess has, todo what its rotation has still to delete.
NoJob == [pc |-> "idle", of |-> 0, left |-> 0, todo |-> {}]

Jobs == [pc : Critical \cup {"idle", "acquire"}, of : 0 .. MaxBackups,
         left : 0 .. DumpLimit, todo : SUBSET Backup]

BackupsInit ==
    /\ made = 0 /\ created = [b \in Backup |-> 0]
    /\ rows = [b \in Backup |-> "none"] /\ kind = [b \in Backup |-> "manual"]
    /\ files = {} /\ whole = {}
    /\ archive = [b \in Backup |-> [c \in Backup |-> "none"]]
    /\ bk_lock = 0 /\ job = [j \in Dumpers \cup Restorers |-> NoJob]
    /\ deleting = {} /\ upsets = 0 /\ bk_lapsed = FALSE /\ ghosts = {}

BkAt(j, pc) == job[j].pc = pc

BkGoto(j, pc) == job' = [job EXCEPT ![j].pc = pc]

\* Counted against the bound.
Upset == upsets < MaxUpsets /\ upsets' = upsets + 1

Holders == {j \in DOMAIN job : job[j].pc \in Critical}

-----------------------------------------------------------------------------
(* The lock                                                                *)

\* Mutant: the lock is set whether or not it is there.
AcquireAnyway(j, next) ==
    /\ BkAt(j, "acquire")
    /\ bk_lock' = LockLife
    /\ BkGoto(j, next)
    /\ UNCHANGED <<storage, rows, requests, bk_lapsed, ghosts>>

\* acquire_lock: SET NX EX.
BackupAcquire(j, next) ==
    /\ BkAt(j, "acquire") /\ bk_lock = 0
    /\ bk_lock' = LockLife
    /\ BkGoto(j, next)
    /\ UNCHANGED <<storage, rows, requests, bk_lapsed, ghosts>>

\* The backup is recorded as skipped; the restore is answered 409.
BackupBusy(j) ==
    /\ BkAt(j, "acquire") /\ bk_lock > 0
    /\ job' = [job EXCEPT ![j] = NoJob]
    /\ UNCHANGED <<storage, rows, bk_lock, requests, bk_lapsed, ghosts>>

\* release_lock deletes the key, whoever set it. A rotation that was cut short
\* by an error also ends here.
BackupRelease(j) ==
    /\ BkAt(j, "release")
    /\ bk_lock' = 0
    /\ job' = [job EXCEPT ![j] = NoJob]
    /\ UNCHANGED <<storage, rows, requests, bk_lapsed, ghosts>>

-----------------------------------------------------------------------------
(* perform_backup                                                          *)

\* reconcile_disk comes before the lock is asked for.
BackupStart(d) ==
    /\ BkAt(d, "idle")
    /\ rows' = [b \in Backup |-> IF rows[b] = "ok" /\ b \notin files THEN "missing" ELSE rows[b]]
    /\ ghosts' = {b \in ghosts : rows'[b] = "ok"}
    /\ BkGoto(d, "acquire")
    /\ UNCHANGED <<storage, bk_lock, requests, bk_lapsed>>

\* Mutant: the row is created with the file, before the dump has run.
DumpOpensRecorded(d, k) ==
    /\ BkAt(d, "open") /\ made < MaxBackups
    /\ made' = made + 1
    /\ kind' = [kind EXCEPT ![made + 1] = k]
    /\ files' = files \cup {made + 1}
    /\ archive' = [archive EXCEPT ![made + 1] = rows]
    /\ rows' = [rows EXCEPT ![made + 1] = "ok"]
    /\ job' = [job EXCEPT ![d].pc = "dump", ![d].of = made + 1, ![d].left = DumpLimit]
    /\ UNCHANGED <<created, whole, bk_lock, requests, bk_lapsed, ghosts>>

\* The file is opened and pg_dump started. The dump sees the rows of this
\* moment, and its own is not among them.
DumpOpens(d, k) ==
    /\ BkAt(d, "open") /\ made < MaxBackups
    /\ made' = made + 1
    /\ kind' = [kind EXCEPT ![made + 1] = k]
    /\ files' = files \cup {made + 1}
    /\ archive' = [archive EXCEPT ![made + 1] = rows]
    /\ job' = [job EXCEPT ![d].pc = "dump", ![d].of = made + 1, ![d].left = DumpLimit]
    /\ UNCHANGED <<created, rows, whole, bk_lock, requests, bk_lapsed, ghosts>>

DumpEnds(d) ==
    /\ BkAt(d, "dump")
    /\ whole' = whole \cup {job[d].of}
    /\ BkGoto(d, "record")
    /\ UNCHANGED <<made, created, kind, files, archive, rows, bk_lock, requests, bk_lapsed, ghosts>>

\* An error, the subprocess timeout or the soft limit: the file is unlinked.
DumpFails(d) ==
    /\ BkAt(d, "dump")
    /\ Upset
    /\ files' = files \ {job[d].of}
    /\ BkGoto(d, "release")
    /\ UNCHANGED <<made, created, kind, whole, archive, rows, bk_lock, deleting, bk_lapsed, ghosts>>

\* The row is created only now, with the checksum of the file.
RecordBackup(d) ==
    /\ BkAt(d, "record")
    /\ rows' = [rows EXCEPT ![job[d].of] = "ok"]
    /\ created' = [created EXCEPT ![job[d].of] = 1 + Cardinality({b \in Backup : created[b] > 0})]
    /\ BkGoto(d, "list")
    /\ UNCHANGED <<made, kind, files, whole, archive, bk_lock, requests, bk_lapsed, ghosts>>

Scheduled == {b \in Backup : rows[b] = "ok" /\ kind[b] = "scheduled"}

\* Mutant: recs[:-keep] of the oldest first, the wrong end.
ExcessNewest == {b \in Scheduled : Cardinality({c \in Scheduled : created[c] < created[b]}) >= Keep}

\* recs[keep:], the newest first.
Excess == {b \in Scheduled : Cardinality({c \in Scheduled : created[c] > created[b]}) >= Keep}

RotationLists(d) ==
    /\ BkAt(d, "list")
    /\ job' = [job EXCEPT ![d].pc = IF Excess = {} THEN "release" ELSE "rotate", ![d].todo = Excess]
    /\ UNCHANGED <<storage, rows, bk_lock, requests, bk_lapsed, ghosts>>

RotationUnlinks(d, b) ==
    /\ BkAt(d, "rotate") /\ b \in job[d].todo
    /\ files' = files \ {b} /\ whole' = whole \ {b}
    /\ job' = [job EXCEPT ![d].pc = "mark", ![d].of = b]
    /\ ghosts' = ghosts \cup {b}
    /\ UNCHANGED <<made, created, kind, archive, rows, bk_lock, requests, bk_lapsed>>

\* save(update_fields) overwrites whatever status the row has by now, and fails
\* when a restore has taken the row away; the error ends the rotation.
RotationMarks(d) ==
    /\ BkAt(d, "mark")
    /\ LET b    == job[d].of
           left == IF rows[b] = "none" THEN {} ELSE job[d].todo \ {b}
       IN  /\ rows' = [rows EXCEPT ![b] = IF @ = "none" THEN @ ELSE "rotated"]
           /\ ghosts' = ghosts \ {b}
           /\ job' = [job EXCEPT ![d].pc = IF left = {} THEN "release" ELSE "rotate", ![d].todo = left]
    /\ UNCHANGED <<storage, bk_lock, requests, bk_lapsed>>

\* A lost worker, or the hard limit: nothing is undone, and the lock stays. The
\* redelivered task is one more BackupStart.
DumperLost(d) ==
    /\ ~BkAt(d, "idle")
    /\ Upset
    /\ job' = [job EXCEPT ![d] = NoJob]
    /\ UNCHANGED <<storage, rows, bk_lock, deleting, bk_lapsed, ghosts>>

-----------------------------------------------------------------------------
(* The restore and delete endpoints                                        *)

\* Flag, confirmation and status are checked before the lock is asked for.
RestoreRequested(r, b) ==
    /\ BkAt(r, "idle") /\ rows[b] = "ok"
    /\ Upset
    /\ job' = [job EXCEPT ![r].pc = "acquire", ![r].of = b]
    /\ UNCHANGED <<storage, rows, bk_lock, deleting, bk_lapsed, ghosts>>

RestoreStarts(r) ==
    /\ BkAt(r, "check")
    /\ job' = IF job[r].of \in files
              THEN [job EXCEPT ![r].pc = "restore", ![r].left = DumpLimit]
              ELSE [job EXCEPT ![r].pc = "release"]
    /\ UNCHANGED <<storage, rows, bk_lock, requests, bk_lapsed, ghosts>>

\* pg_restore --clean replaces every row; it may fail before or after that. The
\* archive was opened when it started.
RestoreEnds(r) ==
    /\ BkAt(r, "restore")
    /\ rows' \in {archive[job[r].of], rows}
    /\ ghosts' = {b \in Backup : rows'[b] = "ok" /\ b \notin files}
    /\ BkGoto(r, "release")
    /\ UNCHANGED <<storage, bk_lock, requests, bk_lapsed>>

\* destroy takes no lock: unlink, then save(update_fields=["status"]).
DeleteUnlinks(b) ==
    /\ rows[b] # "none" /\ b \notin deleting
    /\ Upset
    /\ files' = files \ {b} /\ whole' = whole \ {b}
    /\ deleting' = deleting \cup {b}
    /\ ghosts' = IF rows[b] = "ok" THEN ghosts \cup {b} ELSE ghosts
    /\ UNCHANGED <<made, created, kind, archive, rows, bk_lock, job, bk_lapsed>>

DeleteMarks(b) ==
    /\ b \in deleting
    /\ rows' = [rows EXCEPT ![b] = IF @ = "none" THEN @ ELSE "deleted"]
    /\ deleting' = deleting \ {b}
    /\ ghosts' = ghosts \ {b}
    /\ UNCHANGED <<storage, bk_lock, job, upsets, bk_lapsed>>

-----------------------------------------------------------------------------
\* Time passes: the lock ages with the subprocesses, which end at their timeout.
BackupsClock ==
    /\ \A j \in DOMAIN job : job[j].pc \in {"dump", "restore"} => job[j].left > 0
    /\ bk_lock > 0
    /\ bk_lock' = bk_lock - 1
    /\ bk_lapsed' = (bk_lapsed \/ (bk_lock = 1 /\ Holders # {}))
    /\ job' = [j \in DOMAIN job |-> IF job[j].pc \in {"dump", "restore"}
                                    THEN [job[j] EXCEPT !.left = @ - 1] ELSE job[j]]
    /\ UNCHANGED <<storage, rows, requests, ghosts>>

Dump(d) ==
    \/ BackupStart(d) \/ BackupAcquire(d, "open") \/ BackupBusy(d) \/ BackupRelease(d)
    \/ \E k \in Kinds : DumpOpens(d, k)
    \/ DumpEnds(d) \/ DumpFails(d) \/ RecordBackup(d)
    \/ RotationLists(d) \/ RotationMarks(d) \/ DumperLost(d)
    \/ \E b \in Backup : RotationUnlinks(d, b)

Restore(r) ==
    \/ \E b \in Backup : RestoreRequested(r, b)
    \/ BackupAcquire(r, "check") \/ BackupBusy(r) \/ BackupRelease(r)
    \/ RestoreStarts(r) \/ RestoreEnds(r)

BackupsNext ==
    \/ \E d \in Dumpers : Dump(d)
    \/ \E r \in Restorers : Restore(r)
    \/ \E b \in Backup : DeleteUnlinks(b) \/ DeleteMarks(b)
    \/ BackupsClock

BackupsSpec == BackupsInit /\ [][BackupsNext]_backupsVars

-----------------------------------------------------------------------------
(* Properties                                                              *)

\* Types; the files that hold a dump are there, and no backup is numbered
\* beyond those made.
BackupsTypeOK ==
    /\ made \in 0 .. MaxBackups
    /\ rows \in [Backup -> Statuses] /\ kind \in [Backup -> Kinds]
    /\ created \in [Backup -> 0 .. MaxBackups]
    /\ files \subseteq 1 .. made /\ whole \subseteq files
    /\ archive \in [Backup -> [Backup -> Statuses]]
    /\ bk_lock \in 0 .. LockLife
    /\ job \in [Dumpers \cup Restorers -> Jobs]
    /\ deleting \subseteq Backup /\ upsets \in 0 .. MaxUpsets
    /\ bk_lapsed \in BOOLEAN /\ ghosts \subseteq Backup

\* Dumps and restores run one at a time (views.py: "a pg_dump running against a
\* database mid-restore would capture a half-dropped schema, and two concurrent
\* restores would fight over every table"), for as long as no holder outlives
\* the lock, which is as long as the timeout of its subprocess. A lost worker's lock
\* is no exception: it only keeps others out.
BackupExclusive == bk_lapsed \/ \A i, j \in Holders : i = j

\* An "ok" row, which is what the restore endpoint trusts, names a complete
\* dump, but for the ghosts that reconcile_disk is there for: a restored row
\* whose file went since, or one unlinked and not marked. And rotation never takes
\* one of the newest Keep scheduled backups, whatever is deleted, restored or lost
\* while it works through its list.
DumpsSurvive ==
    \A b \in Backup :
        /\ rows[b] = "ok" => b \in whole \cup ghosts
        /\ rows[b] = "rotated" =>
            Cardinality({c \in Backup : /\ created[c] > created[b] /\ kind[c] = "scheduled"
                                        /\ rows[c] # "rotated"}) >= Keep
==============================================================================
