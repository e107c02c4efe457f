----------------------------- MODULE Operations -----------------------------
(***************************************************************************)
(* The settings row and those who write it besides the scheduler: the      *)
(* settings form, maintain() when it pauses collecting and AI, and the     *)
(* mark of a completed backup; and the backups themselves, with their      *)
(* rotation on the workstation (deploy/backup.py).                         *)
(*                                                                         *)
(* Each of them works for a while between its first look and its last      *)
(* write, and may die on the way.  Two backups can be under way, the daily *)
(* one and one by hand.  An archive is named by the local time at which    *)
(* its backup began; nothing else is in the folder, for rotation lists     *)
(* only *.dump and an unfinished archive has another name.                 *)
(*                                                                         *)
(* A definition marked `Fault' is a variant of the one that follows it, in *)
(* which one thing is wrong and which must break a property.               *)
(***************************************************************************)
EXTENDS Integers, FiniteSets, FiniteSetsExt

CONSTANTS
  Backups,      \* executions of backup.py
  KEEP,         \* 7
  KEEP_WEEKS,   \* 4
  WEEK,         \* how many times make an ISO week
  MAX_STAMP,    \* bound on the times an archive may have
  MAX_MARKS     \* bound on completed backups

ASSUME OperationsAssumption ==
  /\ KEEP \in Nat \ {0} /\ KEEP_WEEKS \in Nat /\ WEEK \in Nat \ {0}
  /\ MAX_STAMP \in Nat \ {0} /\ MAX_MARKS \in Nat

Stamps == 1 .. MAX_STAMP

VARIABLES
  full,     \* less than hard_free_gb is free
  row,      \* the columns paused and last_backup of SiteSettings
  form,     \* the settings form between its read and its save
  keeper,   \* maintain()
  disk,     \* the archives in the folder
  back,     \* the backups
  made,     \* all archives that were ever completed (history)
  bad,      \* all archives whose stream was damaged (history)
  marks, newest,   \* the marks so far, and the newest archive marked (history)
  stale     \* the form has overwritten a later mark (history)

opsVars == <<full, row, form, keeper, disk, back, made, bad, marks, newest, stale>>

\* The instant of the last mark is its number; 0 is NULL.
SiteRow == [paused : BOOLEAN, backup : 0 .. MAX_MARKS]

Fresh == [paused |-> FALSE, backup |-> 0]
NoForm == [open |-> FALSE, row |-> Fresh]
NoKeeper == [busy |-> FALSE, row |-> Fresh]

Backup == [pc : {"idle", "streamed", "saved", "listed"},
           stamp : Stamps, doomed : SUBSET Stamps]

NoBackup == [pc |-> "idle", stamp |-> 1, doomed |-> {}]

OpsTypeOK ==
  /\ full \in BOOLEAN
  /\ row \in SiteRow
  /\ form \in [open : BOOLEAN, row : SiteRow]
  /\ keeper \in [busy : BOOLEAN, row : SiteRow]
  /\ disk \subseteq made \ bad
  /\ back \in [Backups -> Backup]
  /\ made \subseteq Stamps /\ bad \subseteq Stamps
  /\ marks \in 0 .. MAX_MARKS /\ newest \in 0 .. MAX_STAMP
  /\ stale \in BOOLEAN

OpsInit ==
  /\ full = FALSE /\ row = Fresh
  /\ form = NoForm /\ keeper = NoKeeper
  /\ disk = {} /\ back = [b \in Backups |-> NoBackup]
  /\ made = {} /\ bad = {} /\ marks = 0 /\ newest = 0 /\ stale = FALSE

site == <<full, row, form, keeper, stale>>
folder == <<disk, back, made, bad, newest, marks>>

-----------------------------------------------------------------------------
(* preferences(): the settings form *)

OpenForm ==
  /\ ~ form.open
  /\ form' = [open |-> TRUE, row |-> row]
  /\ UNCHANGED <<full, row, keeper, stale, folder>>

\* form.save() writes every column of the row it read.
SaveForm ==
  /\ form.open
  /\ row' = form.row
  /\ stale' = (stale \/ form.row.backup # row.backup)
  /\ form' = NoForm
  /\ UNCHANGED <<full, keeper, folder>>

\* The values are not valid.
RefuseForm ==
  /\ form.open
  /\ form' = NoForm
  /\ UNCHANGED <<full, row, keeper, stale, folder>>

-----------------------------------------------------------------------------
(* maintain() *)

StartKeeper ==
  /\ ~ keeper.busy
  /\ keeper' = [busy |-> TRUE, row |-> row]
  /\ UNCHANGED <<full, row, form, stale, folder>>

\* What it deletes may give space back.
FreeSpace ==
  /\ keeper.busy
  /\ full /\ full' = FALSE
  /\ UNCHANGED <<row, form, keeper, stale, folder>>

\* Fault: the whole row is saved.
MaintainedRow(now, read, out) == [read EXCEPT !.paused = out]

\* Fault: the pause is never lifted.
MaintainedOnce(now, read, out) == [now EXCEPT !.paused = @ \/ out]

\* update(storage, paused): no other column is written.
Maintained(now, read, out) == [now EXCEPT !.paused = out]

\* The space is measured again.
Measure ==
  /\ keeper.busy
  /\ row' = Maintained(row, keeper.row, full)
  /\ keeper' = NoKeeper
  /\ UNCHANGED <<full, form, stale, folder>>

KeeperDies ==
  /\ keeper.busy
  /\ keeper' = NoKeeper
  /\ UNCHANGED <<full, row, form, stale, folder>>

\* Articles, logs and other programs take space, and somebody clears it.
Space ==
  /\ full' = ~ full
  /\ UNCHANGED <<row, form, keeper, stale, folder>>

-----------------------------------------------------------------------------
(* backup.py *)

\* The archive is streamed into <stamp>.partial.  The clock of the workstation may
\* have been set back; only a second that was used is not used again.
Stream(b, s) ==
  /\ back[b].pc = "idle" /\ s \notin made \cup bad
  /\ \A c \in Backups : back[c].pc # "idle" => back[c].stamp # s
  /\ back' = [back EXCEPT ![b] = [pc |-> "streamed", stamp |-> s, doomed |-> {}]]
  /\ bad' \in {bad, bad \cup {s}}
  /\ UNCHANGED <<disk, made, newest, marks, site>>

\* Fault: what ssh sent is taken as it is.
ReadableAny(s) == TRUE

\* pg_restore --list.
Readable(s) == s \notin bad

\* The file gets its name, and a checksum.
SaveArchive(b) ==
  LET s == back[b].stamp
  IN /\ back[b].pc = "streamed" /\ Readable(s)
     /\ disk' = disk \cup {s} /\ made' = made \cup {s}
     /\ back' = [back EXCEPT ![b].pc = "saved"]
     /\ UNCHANGED <<bad, newest, marks, site>>

WeekOf(s) == s \div WEEK

\* The n newest, or all.
Newest(S, n) == {s \in S : Cardinality({t \in S : t > s}) < n}

\* Fault: without the weeks.
KeptLast(S) == Newest(S, KEEP)

\* Fault: the oldest first.
KeptOldest(S) == {s \in S : Cardinality({t \in S : t < s}) < KEEP}

\* The newest, and the newest of each of the last weeks that have one.
Kept(S) ==
  LET Weeks == Newest({WeekOf(s) : s \in S}, KEEP_WEEKS)
  IN Newest(S, KEEP) \cup {Max({s \in S : WeekOf(s) = w}) : w \in Weeks}

List(b) ==
  /\ back[b].pc = "saved"
  /\ back' = [back EXCEPT ![b].pc = "listed", ![b].doomed = disk \ Kept(disk)]
  /\ UNCHANGED <<disk, made, bad, newest, marks, site>>

\* path.unlink(): the other backup must not have been faster.
Unlink(b) ==
  /\ back[b].pc = "listed" /\ back[b].doomed # {}
  /\ LET s == Max(back[b].doomed)
     IN /\ s \in disk
        /\ disk' = disk \ {s}
        /\ back' = [back EXCEPT ![b].doomed = @ \ {s}]
  /\ UNCHANGED <<made, bad, newest, marks, site>>

\* radar backup-complete, at the server's time.
Mark(b) ==
  /\ back[b].pc = "listed" /\ back[b].doomed = {} /\ marks < MAX_MARKS
  /\ marks' = marks + 1
  /\ row' = [row EXCEPT !.backup = marks']
  /\ newest' = Max({newest, back[b].stamp})
  /\ back' = [back EXCEPT ![b] = NoBackup]
  /\ stale' = FALSE
  /\ UNCHANGED <<disk, made, bad, full, form, keeper>>

\* The stream or a check fails, an archive is gone already, the server is not
\* reached, or the process dies.
GiveUp(b) ==
  /\ back[b].pc # "idle"
  /\ back' = [back EXCEPT ![b] = NoBackup]
  /\ UNCHANGED <<disk, made, bad, newest, marks, site>>

-----------------------------------------------------------------------------

OpsNext ==
  \/ OpenForm \/ SaveForm \/ RefuseForm
  \/ StartKeeper \/ FreeSpace \/ Measure \/ KeeperDies
  \/ Space
  \/ \E b \in Backups, s \in Stamps : Stream(b, s)
  \/ \E b \in Backups : SaveArchive(b)
  \/ \E b \in Backups : List(b)
  \/ \E b \in Backups : Unlink(b)
  \/ \E b \in Backups : Mark(b)
  \/ \E b \in Backups : GiveUp(b)

OpsSpec == OpsInit /\ [][OpsNext]_opsVars

\* A capacity job is added every hour, also while the site is paused, and it ends.
Fairness == WF_opsVars(StartKeeper) /\ SF_opsVars(Measure)

FairOpsSpec == OpsSpec /\ Fairness

-----------------------------------------------------------------------------
(* Properties. *)

Younger(s, S) == Cardinality({t \in S : t > s})

\* docs/operations.md:107: seven last archives and four of weeks.  Of all archives
\* ever completed, the last KEEP and the last one of each of the last KEEP_WEEKS
\* weeks are there, whatever two rotations deleted at once or in part, from lists
\* that had grown old, and with a clock that went back (backup.py:48-61).
RotationKeeps ==
  \A s \in made :
    \/ Younger(s, made) >= KEEP /\ \E t \in made : t > s /\ WeekOf(t) = WeekOf(s)
    \/ Younger(s, made) >= KEEP /\ Younger(WeekOf(s), {WeekOf(t) : t \in made}) >= KEEP_WEEKS
    \/ s \in disk

\* docs/operations.md:107: a backup is recorded as complete only when its archive
\* could be read.  The folder holds a sound archive at least as new as every one that
\* was recorded, although rotation goes on before the record is made and another backup
\* rotates too (backup.py:43-71).
Restorable == newest > 0 => \E s \in disk \ bad : s >= newest

\* The time of the last backup is the last one recorded: neither maintain(), which
\* works on a row it read long before, nor a form that is opened and closed takes it
\* back; only a form that had read the row before the record does (storage.py:137,
\* views.py:327).
BackupRemembered == row.backup = marks \/ stale

\* docs/architecture.md:37: without space the site pauses, and it resumes when there
\* is space, although forms save an older value over both (storage.py:137).
PauseFollowsSpace ==
  /\ full ~> (row.paused \/ ~ full)
  /\ ~ full ~> (~ row.paused \/ full)

=============================================================================
