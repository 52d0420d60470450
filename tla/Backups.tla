------------------------------- MODULE Backups -------------------------------
(***************************************************************************)
(* Backups of one band and their restore.  A backup dumps the rows, then   *)
(* copies the files; a restore takes a safety backup, replaces the rows in *)
(* one transaction and then the files.  Runs are kept in a table, their    *)
(* copies in directories named by the second they were started in.         *)
(***************************************************************************)
EXTENDS Uploads, Sequences

CONSTANTS
  Unbacked,   \* rows of tables that no backup of a band contains
  Retention,  \* backups older than this are pruned
  Quiet,      \* nobody uploads while a backup or a restore is running
  Apart,      \* no two backups of the band start in the same second
  MaxRuns,    \* bound: backups
  MaxClock    \* bound: time

ASSUME BackupsAssumption ==
  /\ Unbacked \subseteq Docs /\ Retention \in Nat
  /\ Quiet \in BOOLEAN /\ Apart \in BOOLEAN /\ MaxRuns \in Nat /\ MaxClock \in Nat

VARIABLES
  runs,      \* table backup_runs in order of id; a pruned one is "gone"
  copies,    \* the directories of the backups, by second
  job,       \* the backup or restore being performed
  aside,     \* the directory a restore has put aside
  clock,
  replaced,  \* what the last restore replaced, with its safety run (observation)
  lost       \* files a restore that broke off left its rows without (observation)

backupVars == <<stored, disk, issued, request, runs, copies, job, aside, clock, replaced, lost>>
Work == <<runs, copies, job, aside, clock, replaced, lost>>

Clock == 0..MaxClock
Dumped == Docs \ Unbacked
NoCopy == [dump |-> <<>>, files |-> {}]
NoJob == [step |-> "none", run |-> 0, source |-> 0, dump |-> <<>>]
NothingReplaced == [dump |-> <<>>, files |-> {}, run |-> 0]

Dump == [d \in Dumped |-> stored[d]]
Directory(i) == copies[runs[i].started]
Idle == \A r \in Uploaders : request[r].step = "idle"
Restoring == job.step \in {"files", "copy", "forget"}

-----------------------------------------------------------------------------
(* Run: one backup, by the scheduler, by an admin or before a restore.      *)

\* The run is recorded before the dump starts, without a path.
Record(source, dump) ==
  /\ Len(runs) < MaxRuns
  /\ Apart => \A i \in DOMAIN runs : runs[i].started # clock
  /\ runs' = Append(runs, [status |-> "running", path |-> FALSE, started |-> clock])
  /\ job' = [step |-> "dump", run |-> Len(runs) + 1, source |-> source, dump |-> dump]
  /\ UNCHANGED <<stored, disk, issued, request, copies, aside, clock, replaced, lost>>

StartBackup == job.step = "none" /\ (Quiet => Idle) /\ Record(0, <<>>)

DumpRows ==
  /\ job.step = "dump"
  /\ copies' = [copies EXCEPT ![runs[job.run].started].dump = Dump]
  /\ job' = [job EXCEPT !.step = "save"]
  /\ UNCHANGED <<stored, disk, issued, request, runs, aside, clock, replaced, lost>>

\* copyTree adds to what the directory holds already; without a directory of the band
\* there is nothing to copy, and the backup has no files.
CopyFiles ==
  /\ job.step = "save"
  /\ copies' = [copies EXCEPT ![runs[job.run].started].files = @ \cup disk]
  /\ job' = [job EXCEPT !.step = "record"]
  /\ UNCHANGED <<stored, disk, issued, request, runs, aside, clock, replaced, lost>>

FinishRun(status) == runs' = [runs EXCEPT ![job.run].status = status, ![job.run].path = TRUE]

\* A restore goes on once its safety backup has succeeded.
BackupSucceeds ==
  /\ job.step = "record"
  /\ FinishRun("succeeded")
  /\ job' = IF job.source = 0 THEN NoJob ELSE [job EXCEPT !.step = "replace"]
  /\ UNCHANGED <<stored, disk, issued, request, copies, aside, clock, replaced, lost>>

\* Fault: a restore goes on without its safety backup.
BackupFailsUnnoticed ==
  /\ job.step \in {"dump", "save"}
  /\ FinishRun("failed")
  /\ copies' = [copies EXCEPT ![runs[job.run].started] = NoCopy]
  /\ job' = IF job.source = 0 THEN NoJob ELSE [job EXCEPT !.step = "replace"]
  /\ UNCHANGED <<stored, disk, issued, request, aside, clock, replaced, lost>>

\* The half-written directory is removed, and a restore given up.
BackupFails ==
  /\ job.step \in {"dump", "save"}
  /\ FinishRun("failed")
  /\ copies' = [copies EXCEPT ![runs[job.run].started] = NoCopy]
  /\ job' = NoJob
  /\ UNCHANGED <<stored, disk, issued, request, aside, clock, replaced, lost>>

-----------------------------------------------------------------------------
(* RestoreBand.                                                             *)

\* The dump is read into memory, then the safety backup starts.
StartRestore(i) ==
  /\ job.step = "none" /\ (Quiet => Idle)
  /\ i \in DOMAIN runs /\ runs[i].status = "succeeded"
  /\ Directory(i).dump # <<>>
  /\ Record(i, Directory(i).dump)

\* The transaction: the dumped tables are emptied and filled from the dump.
ReplaceRows ==
  /\ job.step = "replace"
  /\ stored' = [d \in Docs |-> IF d \in Dumped THEN job.dump[d] ELSE stored[d]]
  /\ replaced' = [dump |-> Dump, files |-> {Dump[d] : d \in Dumped} \cap disk, run |-> job.run]
  /\ job' = [job EXCEPT !.step = "files"]
  /\ UNCHANGED <<disk, issued, request, runs, copies, aside, clock, lost>>

ReplaceFails ==
  /\ job.step = "replace"
  /\ job' = NoJob
  /\ UNCHANGED <<stored, disk, issued, request, runs, copies, aside, clock, replaced, lost>>

\* restoreFiles: the directory, if there is one, is renamed; a backup without a copy
\* of the files leaves it as it is.
SetAside ==
  /\ job.step = "files"
  /\ IF Folder \notin Directory(job.source).files
     THEN job' = NoJob /\ UNCHANGED <<disk, aside>>
     ELSE /\ aside' = disk /\ disk' = {}
          /\ job' = [job EXCEPT !.step = "copy"]
  /\ UNCHANGED <<stored, issued, request, runs, copies, clock, replaced, lost>>

CopyBack ==
  /\ job.step = "copy"
  /\ disk' = disk \cup Directory(job.source).files
  /\ job' = [job EXCEPT !.step = "forget"]
  /\ UNCHANGED <<stored, issued, request, runs, copies, aside, clock, replaced, lost>>

\* What the rows name and the directory does not hold, when a restore breaks off.
BreakOff == lost' = lost \cup ({stored[d] : d \in Docs} \ (disk' \cup {NoFile}))

\* The old files are put back, under the new rows; without any, no directory is left.
CopyBackFails ==
  /\ job.step = "copy"
  /\ disk' = aside /\ aside' = {}
  /\ job' = NoJob
  /\ BreakOff
  /\ UNCHANGED <<stored, issued, request, runs, copies, clock, replaced>>

ForgetAside ==
  /\ job.step = "forget"
  /\ aside' = {} /\ job' = NoJob
  /\ UNCHANGED <<stored, disk, issued, request, runs, copies, clock, replaced, lost>>

-----------------------------------------------------------------------------
\* Prune: the directory and the row of a run that is old enough.
Prune(i) ==
  /\ runs[i].status # "gone" /\ clock - runs[i].started > Retention
  /\ job.step # "none" => i # job.run
  /\ Quiet => i # job.source
  /\ runs' = [runs EXCEPT ![i].status = "gone"]
  /\ copies' = IF runs[i].path THEN [copies EXCEPT ![runs[i].started] = NoCopy] ELSE copies
  /\ UNCHANGED <<stored, disk, issued, request, job, aside, clock, replaced, lost>>

\* The process stops, in the middle of whatever it does.
Stop ==
  /\ StopServing /\ job' = NoJob
  /\ UNCHANGED <<stored, disk, issued, runs, copies, aside, clock, replaced>>
  /\ IF Restoring THEN BreakOff ELSE UNCHANGED lost

PassTime ==
  /\ clock < MaxClock /\ clock' = clock + 1
  /\ UNCHANGED <<stored, disk, issued, request, runs, copies, job, aside, replaced, lost>>

Upload ==
  /\ Quiet => job.step = "none"
  /\ \E r \in Uploaders : Uploading(r)
  /\ UNCHANGED Work

BackupsInit ==
  /\ UploadsInit
  /\ runs = <<>> /\ copies = [t \in Clock |-> NoCopy] /\ job = NoJob
  /\ aside = {} /\ clock = 0 /\ replaced = NothingReplaced /\ lost = {}

BackupsNext ==
  \/ Upload
  \/ StartBackup \/ DumpRows \/ CopyFiles \/ BackupSucceeds \/ BackupFails
  \/ \E i \in DOMAIN runs : StartRestore(i) \/ Prune(i)
  \/ ReplaceRows \/ ReplaceFails \/ SetAside \/ CopyBack \/ CopyBackFails \/ ForgetAside
  \/ Stop \/ PassTime

BackupsSpec == BackupsInit /\ [][BackupsNext]_backupVars

-----------------------------------------------------------------------------
(* Properties.                                                              *)

\* No row points at a file that is not there, unless a restore is at work on the
\* files, or broke off there and left the row without: whatever is uploaded,
\* replaced, deleted or stopped halfway, and whichever backup is restored.
FilesPresent ==
  ~Restoring => \A d \in Docs : stored[d] \in disk \cup lost \cup {NoFile}

\* What a restore replaced is never the only copy: until its safety backup is old
\* enough to be pruned, that holds the rows and their files.
SafetyPoint ==
  replaced.run # 0 /\ clock - runs[replaced.run].started <= Retention =>
    LET copy == Directory(replaced.run)
    IN  copy.dump = replaced.dump /\ replaced.files \subseteq copy.files
=============================================================================
