---------------------------- MODULE BackupsProofs ----------------------------
(***************************************************************************)
(* Theorems about Backups, for any number of rows, files, requests and     *)
(* backups, while nobody uploads during a backup or a restore, no two      *)
(* backups start in the same second, and a backup contains every table.    *)
(***************************************************************************)
EXTENDS Backups, SequenceTheorems, TLAPS

Careful == Quiet /\ Apart /\ Unbacked = {}

Rows == [Docs -> Nat]
Directories == {listed \in SUBSET (Nat \cup {Folder}) : listed # {} => Folder \in listed}
Copy == [dump : Rows \cup {<<>>}, files : Directories]
OneRun == [status : {"running", "succeeded", "failed", "gone"}, path : BOOLEAN, started : Clock]
OneJob == [step : {"none", "dump", "save", "record", "replace", "files", "copy", "forget"},
           run : Nat, source : Nat, dump : Rows \cup {<<>>}]
OneRequest == [step : {"idle", "store", "clean", "delete"}, doc : Docs \cup {NoRequest.doc}, new : Nat, old : Nat]
Replacement == [dump : Rows \cup {<<>>}, files : SUBSET (Nat \cup {Folder}), run : Nat]

UploadsTyped ==
  /\ stored \in Rows /\ disk \in Directories /\ issued \in Nat
  /\ request \in [Uploaders -> OneRequest]
WorkTyped ==
  /\ runs \in Seq(OneRun) /\ copies \in [Clock -> Copy] /\ job \in OneJob
  /\ aside \in Directories /\ clock \in Clock /\ lost \in SUBSET Nat /\ replaced \in Replacement

\* Rows that name every file once, and only files that were stored.
Sound(rows) ==
  /\ \A d, e \in Docs : rows[d] = rows[e] /\ rows[d] # NoFile => d = e
  /\ \A d \in Docs : rows[d] <= issued

AllSound ==
  /\ Sound(stored)
  /\ \A t \in Clock : copies[t].dump # <<>> => Sound(copies[t].dump)
  /\ job.dump # <<>> => Sound(job.dump)

\* A file on its way to a row, or one that is to be removed, belongs to no other.
Serving(r) ==
  request[r].step # "idle" =>
    /\ job.step = "none"
    /\ request[r].doc \in Docs /\ request[r].new <= issued /\ request[r].old <= issued
    /\ request[r].old # NoFile => \A d \in Docs \ {request[r].doc} : stored[d] # request[r].old
    /\ request[r].step = "clean" /\ request[r].old # NoFile => stored[request[r].doc] # request[r].old
    /\ request[r].step = "store" =>
         /\ request[r].new # NoFile /\ request[r].new \in disk
         /\ \A d \in Docs : stored[d] # request[r].new
         /\ \A s \in Uploaders : request[s].step # "idle" =>
              /\ request[s].old # request[r].new
              /\ s # r /\ request[s].step = "store" => request[s].new # request[r].new

\* Every file of these rows is among the files, but for what is recorded as lost.
Present(rows, files) == \A d \in Docs : rows[d] \in files \cup lost \cup {NoFile}

\* Every run has its directory to itself, and a finished one its files.
Separate == \A i, j \in DOMAIN runs : runs[i].started = runs[j].started => i = j
Complete(i) ==
  runs[i].status = "succeeded" /\ Directory(i).dump # <<>> => Present(Directory(i).dump, Directory(i).files)

\* What the backup or restore at work may rely on.
Working ==
  job.step # "none" =>
    /\ job.run \in DOMAIN runs
    /\ job.step \in {"dump", "save", "record"} => runs[job.run].status = "running"
    /\ job.step \in {"replace", "files", "copy", "forget"} =>
         runs[job.run].status = "succeeded" /\ job.source # 0
    /\ job.source # 0 =>
         /\ job.source \in DOMAIN runs /\ job.source # job.run /\ runs[job.source].status = "succeeded"
         /\ job.dump # <<>> /\ Directory(job.source).dump = job.dump
    /\ job.step \in {"save", "record", "replace"} => Directory(job.run).dump = stored
    /\ job.step \in {"record", "replace"} => disk \subseteq Directory(job.run).files
    /\ job.step \in {"files", "copy"} => stored = job.dump
    /\ job.step = "forget" => Present(stored, disk)

\* The safety backup of the last restore is there until it was pruned.
Kept ==
  replaced.run # 0 =>
    /\ replaced.run \in DOMAIN runs /\ runs[replaced.run].status \in {"succeeded", "gone"}
    /\ runs[replaced.run].status = "gone" => clock - runs[replaced.run].started > Retention
    /\ runs[replaced.run].status = "succeeded" =>
         Directory(replaced.run).dump = replaced.dump /\ replaced.files \subseteq Directory(replaced.run).files

Inductive ==
  /\ UploadsTyped /\ WorkTyped /\ AllSound
  /\ \A r \in Uploaders : Serving(r)
  /\ Separate /\ \A i \in DOMAIN runs : Complete(i)
  /\ Working /\ Kept /\ FilesPresent

-----------------------------------------------------------------------------
(* What is done to a directory leaves a directory.                          *)

LEMMA Listings ==
  /\ {} \in Directories
  /\ \A one, other \in Directories : one \cup other \in Directories
  /\ \A one \in Directories, file \in Nat :
       one \ {file} \in Directories /\ one \cup {Folder, file} \in Directories
BY DEF Directories, Folder

-----------------------------------------------------------------------------
(* Uploads.                                                                 *)

LEMMA Whole == ASSUME Careful, stored \in Rows PROVE Dumped = Docs /\ Dump = stored
BY DEF Careful, Dumped, Dump, Rows

\* A step of the uploads leaves backups and restores alone, when none is at work.
LEMMA WorkUntouched ==
  ASSUME Inductive, UNCHANGED Work, job.step = "none", issued' \in Nat, issued <= issued'
  PROVE  /\ WorkTyped' /\ Separate' /\ Working' /\ Kept'
         /\ \A i \in DOMAIN runs' : Complete(i)'
         /\ \A t \in Clock : copies'[t].dump # <<>> => Sound(copies[t].dump)'
         /\ job'.dump # <<>> => Sound(job.dump)'
<1>1. WorkTyped' /\ Separate' /\ Working'
  BY DEF Inductive, Work, WorkTyped, Separate, Working
<1>2. Kept' /\ \A i \in DOMAIN runs' : Complete(i)'
  BY DEF Inductive, Work, Kept, Complete, Directory, Present
<1>3. ASSUME NEW rows \in Rows, Sound(rows) PROVE Sound(rows)'
  <2>1. ASSUME NEW d \in Docs PROVE rows[d] <= issued'
    BY <1>3 DEF Sound, Rows, Inductive, UploadsTyped
  <2>. QED
    BY <1>3, <2>1 DEF Sound
<1>4. \A t \in Clock : copies'[t].dump # <<>> => Sound(copies[t].dump)'
  <2>. SUFFICES ASSUME NEW t \in Clock, copies[t].dump # <<>> PROVE Sound(copies[t].dump)'
    BY DEF Work
  <2>1. copies[t].dump \in Rows /\ Sound(copies[t].dump) /\ copies'[t].dump = copies[t].dump
    BY DEF Inductive, WorkTyped, Copy, AllSound, Work
  <2>. QED
    BY <1>3, <2>1 DEF Sound
<1>5. job'.dump # <<>> => Sound(job.dump)'
  <2>. SUFFICES ASSUME job.dump # <<>> PROVE Sound(job.dump)'
    BY DEF Work
  <2>1. job.dump \in Rows /\ Sound(job.dump) /\ job'.dump = job.dump
    BY DEF Inductive, WorkTyped, OneJob, AllSound, Work
  <2>. QED
    BY <1>3, <2>1 DEF Sound
<1>. QED
  BY <1>1, <1>2, <1>4, <1>5

\* A request moves on.
LEMMA Moved ==
  ASSUME Inductive, NEW r \in Uploaders, NEW next \in OneRequest, Serve(r, next)
  PROVE  /\ request' \in [Uploaders -> OneRequest] /\ request'[r] = next
         /\ \A s \in Uploaders \ {r} : request'[s] = request[s]
BY DEF Inductive, UploadsTyped, Serve

LEMMA Resting == NoRequest \in OneRequest /\ NoRequest.step = "idle"
<1>1. NoRequest.step = "idle" /\ NoRequest.new = 0 /\ NoRequest.old = 0
  BY DEF NoRequest, NoFile
<1>. QED
  BY <1>1 DEF NoRequest, NoFile, OneRequest

\* What a step of the uploads has to show of its own.
LEMMA UploadStep ==
  ASSUME Inductive, UNCHANGED Work, job.step = "none", UploadsTyped', issued <= issued',
         Sound(stored)', \A r \in Uploaders : Serving(r)', FilesPresent'
  PROVE  Inductive'
<1>1. issued' \in Nat
  BY DEF UploadsTyped
<1>2. copies' = copies /\ job' = job
  BY DEF Work
<1>. QED
  BY <1>1, <1>2, WorkUntouched DEF Inductive, AllSound

LEMMA PutFileKeeps ==
  ASSUME Inductive, UNCHANGED Work, job.step = "none", NEW r \in Uploaders, NEW d \in Docs, PutFile(r, d)
  PROVE  Inductive'
<1>. DEFINE next == [step |-> "store", doc |-> d, new |-> issued', old |-> stored[d]]
<1>1. /\ issued' = issued + 1 /\ disk' = disk \cup {Folder, issued'} /\ stored' = stored
      /\ Serve(r, next) /\ issued \in Nat /\ stored \in Rows
  BY DEF PutFile, Inductive, UploadsTyped
<1>2. next \in OneRequest /\ next.step = "store" /\ next.doc = d /\ next.new = issued' /\ next.old = stored[d]
  BY <1>1 DEF OneRequest, Rows
<1>. HIDE DEF next
<1>3. /\ request' \in [Uploaders -> OneRequest] /\ request'[r] = next
      /\ \A s \in Uploaders \ {r} : request'[s] = request[s]
  BY <1>1, <1>2, Moved
<1>4. UploadsTyped' /\ issued <= issued'
  <2>1. issued' \in Nat /\ issued <= issued'
    BY <1>1
  <2>2. disk' \in Directories
    BY <1>1, <2>1, Listings DEF Inductive, UploadsTyped
  <2>. QED
    BY <1>1, <1>3, <2>1, <2>2 DEF UploadsTyped
<1>5. \A e \in Docs : stored[e] \in Nat /\ stored[e] <= issued /\ stored[e] # issued'
  BY <1>1 DEF Inductive, AllSound, Sound, Rows
<1>6. Sound(stored)'
  BY <1>1, <1>5 DEF Inductive, AllSound, Sound
<1>7. FilesPresent'
  BY <1>1 DEF Inductive, FilesPresent, Restoring, Work
<1>8. ASSUME NEW s \in Uploaders, request[s].step # "idle"
      PROVE  request[s].new \in Nat /\ request[s].old \in Nat /\ request[s].new < issued' /\ request[s].old < issued'
  <2>1. request[s].new \in Nat /\ request[s].old \in Nat
    BY DEF Inductive, UploadsTyped, OneRequest
  <2>. QED
    BY <1>1, <1>8, <2>1 DEF Inductive, Serving
<1>9. ASSUME NEW s \in Uploaders \ {r} PROVE Serving(s)'
  <2>1. request'[s] = request[s] /\ Serving(s)
    BY <1>3 DEF Inductive
  <2>2. next.old # request[s].new \/ request[s].step # "store"
    BY <1>2, <2>1 DEF Serving
  <2>3. request[s].step = "store" => next.new # request[s].new
    BY <1>2, <1>8
  <2>4. request[s].step # "idle" => request[s].new <= issued' /\ request[s].old <= issued'
    <3>1. issued' \in Nat
      BY <1>1
    <3>. QED
      BY <1>8, <3>1
  <2>. QED
    BY <1>1, <1>3, <2>1, <2>2, <2>3, <2>4 DEF Serving, Work
<1>10. Serving(r)'
  <2>1. next.new <= issued' /\ next.old <= issued' /\ next.new # NoFile /\ next.new \in disk'
    BY <1>1, <1>2, <1>5 DEF NoFile
  <2>2. \A e \in Docs \ {d} : next.old # NoFile => stored[e] # next.old
    BY <1>2 DEF Inductive, AllSound, Sound
  <2>3. next.old # next.new
    BY <1>2, <1>5
  <2>4. ASSUME NEW s \in Uploaders, request[s].step # "idle"
        PROVE  request[s].old # next.new /\ request[s].new # next.new
    <3>1. next.new \in Nat /\ request[s].new < next.new /\ request[s].old < next.new
      BY <1>1, <1>2, <1>8, <2>4
    <3>. QED
      BY <1>8, <2>4, <3>1
  <2>. QED
    BY <1>1, <1>2, <1>3, <1>5, <2>1, <2>2, <2>3, <2>4 DEF Serving, Work
<1>. QED
  BY <1>4, <1>6, <1>7, <1>9, <1>10, UploadStep

LEMMA ReadRowKeeps ==
  ASSUME Inductive, UNCHANGED Work, job.step = "none", NEW r \in Uploaders, NEW d \in Docs, ReadRow(r, d)
  PROVE  Inductive'
<1>. DEFINE next == [step |-> "delete", doc |-> d, new |-> NoFile, old |-> stored[d]]
<1>1. UNCHANGED <<stored, disk, issued>> /\ Serve(r, next) /\ issued \in Nat /\ stored \in Rows
  BY DEF ReadRow, Inductive, UploadsTyped
<1>2. next \in OneRequest /\ next.step = "delete" /\ next.doc = d /\ next.new = 0 /\ next.old = stored[d]
  BY <1>1 DEF OneRequest, Rows, NoFile
<1>. HIDE DEF next
<1>3. /\ request' \in [Uploaders -> OneRequest] /\ request'[r] = next
      /\ \A s \in Uploaders \ {r} : request'[s] = request[s]
  BY <1>1, <1>2, Moved
<1>4. UploadsTyped' /\ Sound(stored)' /\ FilesPresent'
  BY <1>1, <1>3 DEF Inductive, UploadsTyped, AllSound, Sound, FilesPresent, Restoring, Work
<1>5. stored[d] <= issued /\ next.new <= issued
  BY <1>1, <1>2 DEF Inductive, AllSound, Sound
<1>6. ASSUME NEW s \in Uploaders \ {r} PROVE Serving(s)'
  <2>1. Serving(s) /\ request'[s] = request[s]
    BY <1>3 DEF Inductive
  <2>. QED
    BY <1>1, <1>2, <1>3, <2>1 DEF Serving, Work
<1>7. \A e \in Docs \ {d} : next.old # NoFile => stored[e] # next.old
  BY <1>2 DEF Inductive, AllSound, Sound
<1>8. Serving(r)'
  BY <1>1, <1>2, <1>3, <1>5, <1>7 DEF Serving, Work
<1>9. issued <= issued'
  BY <1>1
<1>. QED
  BY <1>4, <1>6, <1>8, <1>9, UploadStep

\* A request writes its row and goes on to clean up.
LEMMA StoreRowKeeps ==
  ASSUME Inductive, UNCHANGED Work, job.step = "none", NEW r \in Uploaders, StoreRow(r)
  PROVE  Inductive'
<1>. DEFINE q == request[r]
<1>1. PICK d \in Docs, new \in Nat, old \in Nat :
        /\ request[r].step = "store" /\ request[r].doc = d /\ request[r].new = new /\ request[r].old = old
        /\ new # NoFile /\ new \in disk /\ new <= issued /\ old <= issued
        /\ \A e \in Docs : stored[e] # new
        /\ old # NoFile => \A e \in Docs \ {d} : stored[e] # old
  BY DEF StoreRow, Inductive, Serving, UploadsTyped, OneRequest
<1>2. PICK next \in OneRequest :
        next.step = "clean" /\ next.doc = d /\ next.new = new /\ next.old = old /\ Serve(r, next)
  <2>1. request[r] \in OneRequest
    BY DEF Inductive, UploadsTyped
  <2>2. [request[r] EXCEPT !.step = "clean"] \in OneRequest
    BY <2>1 DEF OneRequest
  <2>3. /\ [request[r] EXCEPT !.step = "clean"].step = "clean" /\ [request[r] EXCEPT !.step = "clean"].doc = d
        /\ [request[r] EXCEPT !.step = "clean"].new = new /\ [request[r] EXCEPT !.step = "clean"].old = old
    BY <1>1, <2>1 DEF OneRequest
  <2>4. Serve(r, [request[r] EXCEPT !.step = "clean"])
    BY DEF StoreRow
  <2>. QED
    BY <2>2, <2>3, <2>4
<1>3. /\ request' \in [Uploaders -> OneRequest] /\ request'[r] = next
      /\ \A s \in Uploaders \ {r} : request'[s] = request[s]
  BY <1>2, Moved
<1>4. /\ stored' \in Rows /\ stored'[d] = new /\ \A e \in Docs \ {d} : stored'[e] = stored[e]
      /\ UNCHANGED <<disk, issued>>
  BY <1>1 DEF StoreRow, Inductive, UploadsTyped, Rows
<1>5. UploadsTyped' /\ Sound(stored)' /\ FilesPresent'
  BY <1>1, <1>3, <1>4 DEF Inductive, UploadsTyped, AllSound, Sound, FilesPresent, Restoring, Work
<1>6. ASSUME NEW s \in Uploaders, request[s].step # "idle"
      PROVE  request[s].old # new /\ (s # r /\ request[s].step = "store" => request[s].new # new)
  BY <1>1, <1>6 DEF Inductive, Serving
<1>7. ASSUME NEW s \in Uploaders \ {r} PROVE Serving(s)'
  <2>1. Serving(s) /\ request'[s] = request[s]
    BY <1>3 DEF Inductive
  <2>. QED
    BY <1>1, <1>2, <1>3, <1>4, <1>6, <2>1 DEF Serving, Work
<1>8. Serving(r)'
  BY <1>1, <1>2, <1>3, <1>4, <1>6 DEF Serving, Work
<1>9. issued <= issued'
  BY <1>4 DEF Inductive, UploadsTyped
<1>. QED
  BY <1>5, <1>7, <1>8, <1>9, UploadStep

LEMMA DeleteRowKeeps ==
  ASSUME Inductive, UNCHANGED Work, job.step = "none", NEW r \in Uploaders, DeleteRow(r)
  PROVE  Inductive'
<1>1. PICK d \in Docs, new \in Nat, old \in Nat :
        /\ request[r].step = "delete" /\ request[r].doc = d /\ request[r].new = new /\ request[r].old = old
        /\ new <= issued /\ old <= issued
        /\ old # NoFile => \A e \in Docs \ {d} : stored[e] # old
  BY DEF DeleteRow, Inductive, Serving, UploadsTyped, OneRequest
<1>2. PICK next \in OneRequest :
        next.step = "clean" /\ next.doc = d /\ next.new = new /\ next.old = old /\ Serve(r, next)
  <2>1. request[r] \in OneRequest
    BY DEF Inductive, UploadsTyped
  <2>2. [request[r] EXCEPT !.step = "clean"] \in OneRequest
    BY <2>1 DEF OneRequest
  <2>3. /\ [request[r] EXCEPT !.step = "clean"].step = "clean" /\ [request[r] EXCEPT !.step = "clean"].doc = d
        /\ [request[r] EXCEPT !.step = "clean"].new = new /\ [request[r] EXCEPT !.step = "clean"].old = old
    BY <1>1, <2>1 DEF OneRequest
  <2>4. Serve(r, [request[r] EXCEPT !.step = "clean"])
    BY DEF DeleteRow
  <2>. QED
    BY <2>2, <2>3, <2>4
<1>3. /\ request' \in [Uploaders -> OneRequest] /\ request'[r] = next
      /\ \A s \in Uploaders \ {r} : request'[s] = request[s]
  BY <1>2, Moved
<1>4. /\ stored' \in Rows /\ \A e \in Docs \ {d} : stored'[e] = stored[e]
      /\ stored'[d] = NoFile \/ (stored'[d] = stored[d] /\ stored[d] # old)
      /\ UNCHANGED <<disk, issued>>
  BY <1>1 DEF DeleteRow, Inductive, UploadsTyped, Rows, NoFile
<1>5. UploadsTyped' /\ Sound(stored)' /\ FilesPresent'
  BY <1>1, <1>3, <1>4 DEF Inductive, UploadsTyped, AllSound, Sound, FilesPresent, Restoring, Work, NoFile
<1>6. ASSUME NEW s \in Uploaders \ {r} PROVE Serving(s)'
  <2>1. Serving(s) /\ request'[s] = request[s]
    BY <1>3 DEF Inductive
  <2>. QED
    BY <1>1, <1>2, <1>3, <1>4, <2>1 DEF Serving, Work
<1>7. Serving(r)'
  BY <1>1, <1>2, <1>3, <1>4 DEF Serving, Work
<1>8. issued <= issued'
  BY <1>4 DEF Inductive, UploadsTyped
<1>. QED
  BY <1>5, <1>6, <1>7, <1>8, UploadStep

\* A file is removed and the request ends: the file of a row that was not written,
\* or one that no row names any more.
LEMMA RemovalKeeps ==
  ASSUME Inductive, UNCHANGED Work, job.step = "none", NEW r \in Uploaders, NEW file \in Nat,
         Serve(r, NoRequest), UNCHANGED <<stored, issued>>, RemoveStoredFile(file),
         file # NoFile => \A d \in Docs : stored[d] # file,
         \A s \in Uploaders \ {r} : request[s].step = "store" => request[s].new # file
  PROVE  Inductive'
<1>1. /\ request' \in [Uploaders -> OneRequest] /\ request'[r] = NoRequest
      /\ \A s \in Uploaders \ {r} : request'[s] = request[s]
  BY Resting, Moved
<1>2. disk' = disk \ {file}
  BY DEF RemoveStoredFile
<1>3. UploadsTyped' /\ Sound(stored)'
  BY <1>1, <1>2, Listings DEF Inductive, UploadsTyped, AllSound, Sound
<1>4. FilesPresent'
  BY <1>2 DEF Inductive, FilesPresent, Restoring, Work
<1>5. ASSUME NEW s \in Uploaders PROVE Serving(s)'
  <2>1. Serving(s)
    BY DEF Inductive
  <2>. QED
    BY <1>1, <1>2, <2>1, Resting DEF Serving, Work
<1>6. issued <= issued'
  BY DEF Inductive, UploadsTyped
<1>. QED
  BY <1>3, <1>4, <1>5, <1>6, UploadStep

LEMMA UploadKeeps ==
  ASSUME Careful, Inductive, Upload
  PROVE  Inductive'
<1>1. UNCHANGED Work /\ job.step = "none"
  BY DEF Upload, Careful
<1>2. ASSUME NEW r \in Uploaders, StoreFails(r) \/ CleanUp(r) PROVE Inductive'
  <2>1. Serving(r) /\ request[r] \in OneRequest /\ request[r].step # "idle"
    BY <1>2 DEF Inductive, UploadsTyped, StoreFails, CleanUp
  <2>2. CASE StoreFails(r)
    BY <1>1, <2>1, <2>2, RemovalKeeps DEF StoreFails, Serving, OneRequest
  <2>3. CASE CleanUp(r)
    <3>1. PICK file \in Nat : file = request[r].old
      BY <2>1 DEF OneRequest
    <3>2. file # NoFile => \A d \in Docs : stored[d] # file
      BY <2>1, <2>3, <3>1 DEF CleanUp, Serving
    <3>3. \A s \in Uploaders \ {r} : request[s].step = "store" => request[s].new # file
      BY <2>1, <3>1 DEF Inductive, Serving
    <3>. QED
      BY <1>1, <2>3, <3>1, <3>2, <3>3, RemovalKeeps DEF CleanUp
  <2>. QED
    BY <1>2, <2>2, <2>3
<1>. QED
  BY <1>1, <1>2, PutFileKeeps, ReadRowKeeps, StoreRowKeeps, DeleteRowKeeps DEF Upload, Uploading

-----------------------------------------------------------------------------
(* Backups.                                                                 *)

LEMMA NobodyServed ==
  ASSUME Inductive, job.step # "none" \/ job'.step = "none",
         (request' = request /\ job.step # "none") \/ request' = [r \in Uploaders |-> NoRequest]
  PROVE  \A r \in Uploaders : Serving(r)'
<1>1. ASSUME NEW r \in Uploaders PROVE request'[r].step = "idle"
  BY Resting DEF Inductive, Serving
<1>. QED
  BY <1>1 DEF Serving

\* The directory of the run at work is written: the other runs keep theirs.
LEMMA OthersKept ==
  ASSUME Inductive, job.step \in {"dump", "save"}, NEW copy \in Copy,
         copies' = [copies EXCEPT ![runs[job.run].started] = copy],
         runs' \in Seq(OneRun), DOMAIN runs' = DOMAIN runs,
         \A i \in DOMAIN runs : runs'[i].started = runs[i].started,
         \A i \in DOMAIN runs \ {job.run} : runs'[i] = runs[i],
         runs'[job.run].status \in {"running", "failed"},
         UNCHANGED <<lost, clock, replaced>>
  PROVE  /\ Separate' /\ Kept' /\ \A i \in DOMAIN runs' : Complete(i)'
         /\ copies' \in [Clock -> Copy] /\ copies'[runs'[job.run].started] = copy
         /\ \A i \in DOMAIN runs \ {job.run} : Directory(i)' = Directory(i)
<1>1. /\ job.run \in DOMAIN runs /\ runs[job.run].status = "running"
      /\ runs \in Seq(OneRun) /\ copies \in [Clock -> Copy]
  BY DEF Inductive, Working, WorkTyped
<1>2. \A i \in DOMAIN runs : runs[i] \in OneRun /\ runs[i].started \in Clock
  <2>1. ASSUME NEW i \in DOMAIN runs PROVE runs[i] \in OneRun
    BY <1>1, ElementOfSeq
  <2>. QED
    BY <2>1 DEF OneRun
<1>3. PICK w \in DOMAIN runs : w = job.run
  BY <1>1
<1>4. copies' \in [Clock -> Copy] /\ copies'[runs'[job.run].started] = copy
  BY <1>1, <1>2
<1>5. ASSUME NEW i \in DOMAIN runs \ {job.run} PROVE Directory(i)' = Directory(i)
  <2>1. runs[i].started # runs[job.run].started /\ runs'[i] = runs[i]
    BY <1>1 DEF Inductive, Separate
  <2>2. runs[i].started \in Clock /\ runs[job.run].started \in Clock
    BY <1>1, <1>2
  <2>3. copies'[runs[i].started] = copies[runs[i].started]
    BY <1>1, <2>1, <2>2
  <2>. QED
    BY <2>1, <2>3 DEF Directory
<1>6. Separate'
  BY DEF Inductive, Separate
<1>7. \A i \in DOMAIN runs' : Complete(i)'
  <2>1. ASSUME NEW i \in DOMAIN runs \ {job.run} PROVE Complete(i)'
    <3>1. Complete(i) /\ runs'[i] = runs[i] /\ Directory(i)' = Directory(i)
      BY <1>5 DEF Inductive
    <3>. QED
      BY <3>1 DEF Complete, Present
  <2>2. Complete(w)'
    BY <1>3 DEF Complete
  <2>. QED
    BY <1>3, <2>1, <2>2
<1>8. Kept'
  <2>. SUFFICES ASSUME replaced.run # 0 PROVE Kept'
    BY DEF Kept
  <2>1. PICK k \in DOMAIN runs \ {job.run} : k = replaced.run
    BY <1>1 DEF Inductive, Kept
  <2>2. runs'[k] = runs[k] /\ Directory(k)' = Directory(k)
    BY <1>5
  <2>. QED
    BY <2>1, <2>2 DEF Inductive, Kept, Directory
<1>. QED
  BY <1>4, <1>5, <1>6, <1>7, <1>8

\* A run is recorded as finished.
LEMMA Finished ==
  ASSUME Inductive, job.step # "none", NEW status \in {"succeeded", "failed"}, FinishRun(status)
  PROVE  /\ runs' \in Seq(OneRun) /\ DOMAIN runs' = DOMAIN runs /\ runs'[job.run].status = status
         /\ \A i \in DOMAIN runs : runs'[i].started = runs[i].started
         /\ \A i \in DOMAIN runs \ {job.run} : runs'[i] = runs[i]
<1>1. job.run \in DOMAIN runs /\ runs \in Seq(OneRun) /\ runs[job.run] \in OneRun
  BY DEF Inductive, Working, WorkTyped
<1>. DEFINE done == [runs[job.run] EXCEPT !.status = status, !.path = TRUE]
<1>2. done \in OneRun
  BY <1>1 DEF OneRun
<1>3. done.status = status /\ done.started = runs[job.run].started
  BY <1>1 DEF OneRun
<1>4. runs' = [runs EXCEPT ![job.run] = done]
  BY DEF FinishRun
<1>. HIDE DEF done
<1>5. job.run \in 1..Len(runs) /\ DOMAIN runs = 1..Len(runs)
  BY <1>1
<1>6. runs' \in Seq(OneRun) /\ Len(runs') = Len(runs)
  BY <1>1, <1>2, <1>4, <1>5, ExceptSeq
<1>7. DOMAIN runs' = DOMAIN runs
  BY <1>5, <1>6
<1>8. runs'[job.run] = done /\ \A i \in DOMAIN runs \ {job.run} : runs'[i] = runs[i]
  BY <1>1, <1>4, <1>5
<1>. QED
  BY <1>3, <1>6, <1>7, <1>8
\* Rows are dumped, kept and put back: they stay sound on the way.
LEMMA SoundKept ==
  ASSUME Inductive, issued' = issued,
         stored' = stored \/ (stored' = job.dump /\ job.dump # <<>>),
         \A t \in Clock : copies'[t].dump # <<>> => copies'[t].dump = stored \/ copies'[t].dump = copies[t].dump,
         job'.dump # <<>> => job'.dump = job.dump \/ \E t \in Clock : job'.dump = copies[t].dump
  PROVE  AllSound'
<1>1. Sound(stored)'
  BY DEF Inductive, AllSound, Sound
<1>2. ASSUME NEW t \in Clock, copies'[t].dump # <<>> PROVE Sound(copies[t].dump)'
  <2>1. CASE copies'[t].dump = stored
    BY <2>1 DEF Inductive, AllSound, Sound
  <2>2. CASE copies'[t].dump = copies[t].dump
    BY <1>2, <2>2 DEF Inductive, AllSound, Sound
  <2>. QED
    BY <1>2, <2>1, <2>2
<1>3. ASSUME job'.dump # <<>> PROVE Sound(job.dump)'
  <2>1. CASE job'.dump = job.dump
    BY <1>3, <2>1 DEF Inductive, AllSound, Sound
  <2>2. ASSUME NEW t \in Clock, job'.dump = copies[t].dump PROVE Sound(job.dump)'
    BY <1>3, <2>2 DEF Inductive, AllSound, Sound
  <2>. QED
    BY <1>3, <2>1, <2>2
<1>. QED
  BY <1>1, <1>2, <1>3 DEF AllSound

\* The runs and their directories are as before.
LEMMA RunsKept ==
  ASSUME Inductive, UNCHANGED <<runs, copies, clock, replaced>>, lost \subseteq lost'
  PROVE  Separate' /\ Kept' /\ \A i \in DOMAIN runs' : Complete(i)'
<1>1. Separate' /\ Kept'
  BY DEF Inductive, Separate, Kept, Directory
<1>2. ASSUME NEW i \in DOMAIN runs PROVE Complete(i)'
  <2>1. Complete(i) /\ Directory(i)' = Directory(i)
    BY DEF Inductive, Directory
  <2>. QED
    BY <2>1 DEF Complete, Present
<1>. QED
  BY <1>1, <1>2

\* The backup or restore at work goes on, or ends.
LEMMA JobMoves ==
  ASSUME Inductive, NEW next \in {"dump", "save", "record", "replace", "files", "copy", "forget"},
         job' = [job EXCEPT !.step = next]
  PROVE  /\ job' \in OneJob /\ job'.step = next
         /\ job'.run = job.run /\ job'.source = job.source /\ job'.dump = job.dump
BY DEF Inductive, WorkTyped, OneJob

LEMMA JobEnds == NoJob \in OneJob /\ NoJob.step = "none" /\ NoJob.dump = <<>>
<1>1. NoJob.step = "none" /\ NoJob.dump = <<>> /\ NoJob.run = 0 /\ NoJob.source = 0
  BY DEF NoJob
<1>. QED
  BY <1>1 DEF NoJob, OneJob

LEMMA CopyGone == NoCopy \in Copy /\ NoCopy.dump = <<>>
BY Listings DEF NoCopy, Copy

\* The directory of the run at work, and that it may be written.
LEMMA AtWork ==
  ASSUME Inductive, job.step # "none"
  PROVE  /\ job.run \in DOMAIN runs /\ job.run \in Nat \ {0} /\ runs[job.run] \in OneRun
         /\ runs[job.run].started \in Clock
         /\ copies[runs[job.run].started] \in Copy
         /\ runs \in Seq(OneRun) /\ copies \in [Clock -> Copy]
<1>1. job.run \in DOMAIN runs /\ runs \in Seq(OneRun) /\ copies \in [Clock -> Copy]
  BY DEF Inductive, Working, WorkTyped
<1>2. runs[job.run] \in OneRun
  BY <1>1, ElementOfSeq
<1>3. job.run \in Nat \ {0}
  <2>1. DOMAIN runs = 1..Len(runs) /\ Len(runs) \in Nat
    BY <1>1
  <2>. QED
    BY <1>1, <2>1
<1>4. runs[job.run].started \in Clock
  BY <1>2 DEF OneRun
<1>. QED
  BY <1>1, <1>2, <1>3, <1>4

LEMMA DumpRowsKeeps ==
  ASSUME Careful, Inductive, DumpRows
  PROVE  Inductive'
<1>1. /\ job.step = "dump" /\ job' = [job EXCEPT !.step = "save"]
      /\ UNCHANGED <<stored, disk, issued, request, runs, aside, clock, replaced, lost>>
  BY DEF DumpRows
<1>2. stored \in Rows /\ Dump = stored
  BY Whole DEF Inductive, UploadsTyped
<1>3. PICK t \in Clock : t = runs[job.run].started /\ copies[t] \in Copy
  BY <1>1, AtWork
<1>4. PICK copy \in Copy : copy.dump = stored /\ copies' = [copies EXCEPT ![t] = copy]
  <2>1. [copies[t] EXCEPT !.dump = stored] \in Copy
    BY <1>2, <1>3 DEF Copy
  <2>2. [copies[t] EXCEPT !.dump = stored].dump = stored
    BY <1>3 DEF Copy
  <2>3. copies' = [copies EXCEPT ![t] = [copies[t] EXCEPT !.dump = stored]]
    BY <1>2, <1>3 DEF DumpRows
  <2>. QED
    BY <2>1, <2>2, <2>3
<1>5. /\ Separate' /\ Kept' /\ \A i \in DOMAIN runs' : Complete(i)'
      /\ copies' \in [Clock -> Copy] /\ copies'[t] = copy
      /\ \A i \in DOMAIN runs \ {job.run} : Directory(i)' = Directory(i)
  <2>1. runs \in Seq(OneRun) /\ runs[job.run].status = "running"
    BY <1>1 DEF Inductive, Working, WorkTyped
  <2>. QED
    BY <1>1, <1>3, <1>4, <2>1, OthersKept
<1>6. /\ job' \in OneJob /\ job'.step = "save"
      /\ job'.run = job.run /\ job'.source = job.source /\ job'.dump = job.dump
  BY <1>1, JobMoves
<1>7. UploadsTyped' /\ WorkTyped'
  BY <1>1, <1>5, <1>6 DEF Inductive, UploadsTyped, WorkTyped
<1>8. AllSound'
  <2>1. \A u \in Clock : copies'[u] = copy \/ copies'[u] = copies[u]
    BY <1>4, AtWork, <1>1
  <2>. QED
    BY <1>1, <1>4, <1>6, <2>1, SoundKept
<1>9. \A r \in Uploaders : Serving(r)'
  BY <1>1, NobodyServed
<1>10. Working'
  <2>1. copies'[runs'[job'.run].started].dump = stored'
    BY <1>1, <1>3, <1>4, <1>5, <1>6
  <2>2. job.source # 0 => job.source \in DOMAIN runs \ {job.run}
    BY <1>1 DEF Inductive, Working
  <2>3. job'.source # 0 =>
          /\ job'.source \in DOMAIN runs' /\ job'.source # job'.run /\ runs'[job'.source].status = "succeeded"
          /\ job'.dump # <<>> /\ copies'[runs'[job'.source].started].dump = job'.dump
    BY <1>1, <1>5, <1>6, <2>2 DEF Inductive, Working, Directory
  <2>4. job'.run \in DOMAIN runs' /\ runs'[job'.run].status = "running"
    BY <1>1, <1>6 DEF Inductive, Working
  <2>. QED
    BY <1>6, <2>1, <2>3, <2>4 DEF Working, Directory
<1>11. FilesPresent'
  BY <1>1, <1>6 DEF Inductive, FilesPresent, Restoring
<1>. QED
  BY <1>5, <1>7, <1>8, <1>9, <1>10, <1>11 DEF Inductive

LEMMA CopyFilesKeeps ==
  ASSUME Inductive, CopyFiles
  PROVE  Inductive'
<1>1. /\ job.step = "save" /\ job' = [job EXCEPT !.step = "record"]
      /\ UNCHANGED <<stored, disk, issued, request, runs, aside, clock, replaced, lost>>
  BY DEF CopyFiles
<1>2. disk \in Directories
  BY DEF Inductive, UploadsTyped
<1>3. PICK t \in Clock : t = runs[job.run].started /\ copies[t] \in Copy
  BY <1>1, AtWork
<1>4. copies[t].dump = stored
  BY <1>1, <1>3 DEF Inductive, Working, Directory
<1>5. PICK copy \in Copy : copy.dump = stored /\ disk \subseteq copy.files /\ copies' = [copies EXCEPT ![t] = copy]
  <2>1. [copies[t] EXCEPT !.files = @ \cup disk] \in Copy
    BY <1>2, <1>3, Listings DEF Copy
  <2>2. /\ [copies[t] EXCEPT !.files = @ \cup disk].dump = stored
        /\ disk \subseteq [copies[t] EXCEPT !.files = @ \cup disk].files
    BY <1>3, <1>4 DEF Copy
  <2>3. copies' = [copies EXCEPT ![t] = [copies[t] EXCEPT !.files = @ \cup disk]]
    BY <1>3 DEF CopyFiles
  <2>. QED
    BY <2>1, <2>2, <2>3
<1>6. /\ Separate' /\ Kept' /\ \A i \in DOMAIN runs' : Complete(i)'
      /\ copies' \in [Clock -> Copy] /\ copies'[t] = copy
      /\ \A i \in DOMAIN runs \ {job.run} : Directory(i)' = Directory(i)
  <2>1. runs \in Seq(OneRun) /\ runs[job.run].status = "running"
    BY <1>1 DEF Inductive, Working, WorkTyped
  <2>. QED
    BY <1>1, <1>3, <1>5, <2>1, OthersKept
<1>7. /\ job' \in OneJob /\ job'.step = "record"
      /\ job'.run = job.run /\ job'.source = job.source /\ job'.dump = job.dump
  BY <1>1, JobMoves
<1>8. UploadsTyped' /\ WorkTyped'
  BY <1>1, <1>6, <1>7 DEF Inductive, UploadsTyped, WorkTyped
<1>9. AllSound'
  <2>1. \A u \in Clock : copies'[u] = copy \/ copies'[u] = copies[u]
    BY <1>5, AtWork, <1>1
  <2>. QED
    BY <1>1, <1>5, <1>7, <2>1, SoundKept
<1>10. \A r \in Uploaders : Serving(r)'
  BY <1>1, NobodyServed
<1>11. Working'
  <2>1. copies'[runs'[job'.run].started].dump = stored' /\ disk' \subseteq copies'[runs'[job'.run].started].files
    BY <1>1, <1>3, <1>5, <1>6, <1>7
  <2>2. job.source # 0 => job.source \in DOMAIN runs \ {job.run}
    BY <1>1 DEF Inductive, Working
  <2>3. job'.source # 0 =>
          /\ job'.source \in DOMAIN runs' /\ job'.source # job'.run /\ runs'[job'.source].status = "succeeded"
          /\ job'.dump # <<>> /\ copies'[runs'[job'.source].started].dump = job'.dump
    BY <1>1, <1>6, <1>7, <2>2 DEF Inductive, Working, Directory
  <2>4. job'.run \in DOMAIN runs' /\ runs'[job'.run].status = "running"
    BY <1>1, <1>7 DEF Inductive, Working
  <2>. QED
    BY <1>7, <2>1, <2>3, <2>4 DEF Working, Directory
<1>12. FilesPresent'
  BY <1>1, <1>7 DEF Inductive, FilesPresent, Restoring
<1>. QED
  BY <1>6, <1>8, <1>9, <1>10, <1>11, <1>12 DEF Inductive

LEMMA BackupFailsKeeps ==
  ASSUME Inductive, BackupFails
  PROVE  Inductive'
<1>1. /\ job.step \in {"dump", "save"} /\ job' = NoJob /\ FinishRun("failed")
      /\ copies' = [copies EXCEPT ![runs[job.run].started] = NoCopy]
      /\ UNCHANGED <<stored, disk, issued, request, aside, clock, replaced, lost>>
  BY DEF BackupFails
<1>2. /\ runs' \in Seq(OneRun) /\ DOMAIN runs' = DOMAIN runs /\ runs'[job.run].status = "failed"
      /\ \A i \in DOMAIN runs : runs'[i].started = runs[i].started
      /\ \A i \in DOMAIN runs \ {job.run} : runs'[i] = runs[i]
  BY <1>1, Finished
<1>3. /\ Separate' /\ Kept' /\ \A i \in DOMAIN runs' : Complete(i)'
      /\ copies' \in [Clock -> Copy]
  BY <1>1, <1>2, CopyGone, OthersKept
<1>4. UploadsTyped' /\ WorkTyped'
  BY <1>1, <1>2, <1>3, JobEnds DEF Inductive, UploadsTyped, WorkTyped
<1>5. AllSound'
  <2>1. \A u \in Clock : copies'[u] = NoCopy \/ copies'[u] = copies[u]
    BY <1>1, AtWork
  <2>. QED
    BY <1>1, <2>1, CopyGone, JobEnds, SoundKept
<1>6. \A r \in Uploaders : Serving(r)'
  BY <1>1, NobodyServed
<1>7. Working' /\ FilesPresent'
  BY <1>1, JobEnds DEF Inductive, Working, FilesPresent, Restoring
<1>. QED
  BY <1>3, <1>4, <1>5, <1>6, <1>7 DEF Inductive

LEMMA BackupSucceedsKeeps ==
  ASSUME Inductive, BackupSucceeds
  PROVE  Inductive'
<1>1. /\ job.step = "record" /\ FinishRun("succeeded")
      /\ job' = IF job.source = 0 THEN NoJob ELSE [job EXCEPT !.step = "replace"]
      /\ UNCHANGED <<stored, disk, issued, request, copies, aside, clock, replaced, lost>>
  BY DEF BackupSucceeds
<1>2. /\ runs' \in Seq(OneRun) /\ DOMAIN runs' = DOMAIN runs /\ runs'[job.run].status = "succeeded"
      /\ \A i \in DOMAIN runs : runs'[i].started = runs[i].started
      /\ \A i \in DOMAIN runs \ {job.run} : runs'[i] = runs[i]
  BY <1>1, Finished
<1>3. PICK w \in DOMAIN runs : w = job.run /\ runs[w].status = "running"
  BY <1>1 DEF Inductive, Working
<1>4. \A i \in DOMAIN runs : Directory(i)' = Directory(i)
  BY <1>1, <1>2 DEF Directory
<1>5. Separate'
  BY <1>2 DEF Inductive, Separate
<1>6. \A i \in DOMAIN runs' : Complete(i)'
  <2>1. ASSUME NEW i \in DOMAIN runs \ {job.run} PROVE Complete(i)'
    <3>1. Complete(i) /\ runs'[i] = runs[i] /\ Directory(i)' = Directory(i)
      BY <1>2, <1>4 DEF Inductive
    <3>. QED
      BY <1>1, <3>1 DEF Complete, Present
  <2>2. Complete(w)'
    <3>1. Directory(w).dump = stored /\ disk \subseteq Directory(w).files /\ Directory(w)' = Directory(w)
      BY <1>1, <1>3, <1>4 DEF Inductive, Working
    <3>2. \A d \in Docs : stored[d] \in disk \cup lost \cup {NoFile}
      BY <1>1 DEF Inductive, FilesPresent, Restoring
    <3>. QED
      BY <1>1, <3>1, <3>2 DEF Complete, Present
  <2>. QED
    BY <1>2, <1>3, <2>1, <2>2
<1>7. Kept'
  <2>. SUFFICES ASSUME replaced.run # 0 PROVE Kept'
    BY <1>1 DEF Kept
  <2>1. PICK k \in DOMAIN runs \ {job.run} : k = replaced.run
    BY <1>3 DEF Inductive, Kept
  <2>2. runs'[k] = runs[k] /\ Directory(k)' = Directory(k)
    BY <1>2, <1>4
  <2>. QED
    BY <1>1, <1>2, <2>1, <2>2 DEF Inductive, Kept, Directory
<1>8. \A r \in Uploaders : Serving(r)'
  BY <1>1, NobodyServed
<1>9. CASE job.source = 0
  <2>1. job' = NoJob
    BY <1>1, <1>9
  <2>2. UploadsTyped' /\ WorkTyped' /\ Working' /\ FilesPresent'
    BY <1>1, <1>2, <2>1, JobEnds DEF Inductive, UploadsTyped, WorkTyped, Working, FilesPresent, Restoring
  <2>3. AllSound'
    BY <1>1, <2>1, JobEnds, SoundKept
  <2>. QED
    BY <1>5, <1>6, <1>7, <1>8, <2>2, <2>3 DEF Inductive
<1>10. CASE job.source # 0
  <2>1. /\ job' \in OneJob /\ job'.step = "replace"
        /\ job'.run = job.run /\ job'.source = job.source /\ job'.dump = job.dump
    BY <1>1, <1>10, JobMoves
  <2>2. UploadsTyped' /\ WorkTyped'
    BY <1>1, <1>2, <2>1 DEF Inductive, UploadsTyped, WorkTyped
  <2>3. AllSound'
    BY <1>1, <2>1, SoundKept
  <2>4. Working'
    <3>1. PICK s \in DOMAIN runs \ {w} :
            s = job.source /\ runs[s].status = "succeeded" /\ job.dump # <<>> /\ Directory(s).dump = job.dump
      BY <1>1, <1>3, <1>10 DEF Inductive, Working
    <3>2. runs'[s] = runs[s] /\ copies'[runs'[s].started].dump = job.dump
      BY <1>1, <1>2, <1>3, <3>1 DEF Directory
    <3>3. copies'[runs'[w].started].dump = stored /\ disk \subseteq copies'[runs'[w].started].files
      BY <1>1, <1>2, <1>3 DEF Inductive, Working, Directory
    <3>. QED
      BY <1>1, <1>2, <1>3, <2>1, <3>1, <3>2, <3>3 DEF Working, Directory
  <2>5. FilesPresent'
    BY <1>1, <2>1 DEF Inductive, FilesPresent, Restoring
  <2>. QED
    BY <1>5, <1>6, <1>7, <1>8, <2>2, <2>3, <2>4, <2>5 DEF Inductive
<1>. QED
  BY <1>9, <1>10
\* A run is recorded before its backup starts: nobody is being served then.
LEMMA RecordKeeps ==
  ASSUME Careful, Inductive, job.step = "none", Idle, NEW source \in Nat, NEW dump \in Rows \cup {<<>>},
         source # 0 => source \in DOMAIN runs /\ runs[source].status = "succeeded"
                       /\ dump # <<>> /\ Directory(source).dump = dump,
         source = 0 => dump = <<>>,
         Record(source, dump)
  PROVE  Inductive'
<1>. DEFINE run == [status |-> "running", path |-> FALSE, started |-> clock]
            next == [step |-> "dump", run |-> Len(runs) + 1, source |-> source, dump |-> dump]
<1>1. /\ runs' = Append(runs, run) /\ job' = next
      /\ \A i \in DOMAIN runs : runs[i].started # clock
      /\ UNCHANGED <<stored, disk, issued, request, copies, aside, clock, replaced, lost>>
  BY DEF Record, Careful
<1>2. runs \in Seq(OneRun) /\ clock \in Clock
  BY DEF Inductive, WorkTyped
<1>3. run \in OneRun /\ run.status = "running" /\ run.started = clock
  BY <1>2 DEF OneRun
<1>4. /\ next \in OneJob /\ next.step = "dump" /\ next.run = Len(runs) + 1
      /\ next.source = source /\ next.dump = dump
  <2>1. Len(runs) + 1 \in Nat
    BY <1>2
  <2>. QED
    BY <2>1 DEF OneJob
<1>. HIDE DEF run, next
<1>5. /\ runs' \in Seq(OneRun) /\ Len(runs') = Len(runs) + 1
      /\ \A i \in 1..Len(runs) : runs'[i] = runs[i]
      /\ runs'[Len(runs) + 1] = run
  BY <1>1, <1>2, <1>3, AppendProperties
<1>6. PICK n \in Nat : n = Len(runs) /\ DOMAIN runs = 1..n /\ DOMAIN runs' = 1..(n + 1)
  <2>1. Len(runs) \in Nat /\ DOMAIN runs = 1..Len(runs)
    BY <1>2
  <2>2. DOMAIN runs' = 1..Len(runs')
    BY <1>5
  <2>. QED
    BY <1>5, <2>1, <2>2
<1>7. DOMAIN runs' = DOMAIN runs \cup {n + 1} /\ n + 1 \notin DOMAIN runs
  BY <1>6
<1>8. runs'[n + 1] = run /\ \A i \in DOMAIN runs : runs'[i] = runs[i]
  BY <1>5, <1>6
<1>9. Separate'
  BY <1>1, <1>3, <1>7, <1>8 DEF Inductive, Separate
<1>10. \A i \in DOMAIN runs : Directory(i)' = Directory(i)
  BY <1>1, <1>8 DEF Directory
<1>11. \A i \in DOMAIN runs' : Complete(i)'
  <2>1. ASSUME NEW i \in DOMAIN runs PROVE Complete(i)'
    <3>1. Complete(i) /\ runs'[i] = runs[i] /\ Directory(i)' = Directory(i)
      BY <1>8, <1>10 DEF Inductive
    <3>. QED
      BY <1>1, <3>1 DEF Complete, Present
  <2>2. Complete(n + 1)'
    BY <1>3, <1>8 DEF Complete
  <2>. QED
    BY <1>7, <2>1, <2>2
<1>12. Kept'
  <2>. SUFFICES ASSUME replaced.run # 0 PROVE Kept'
    BY <1>1 DEF Kept
  <2>1. PICK k \in DOMAIN runs : k = replaced.run
    BY DEF Inductive, Kept
  <2>2. runs'[k] = runs[k] /\ Directory(k)' = Directory(k)
    BY <1>8, <1>10
  <2>. QED
    BY <1>1, <1>7, <2>1, <2>2 DEF Inductive, Kept, Directory
<1>13. UploadsTyped' /\ WorkTyped'
  BY <1>1, <1>4, <1>5 DEF Inductive, UploadsTyped, WorkTyped
<1>14. AllSound'
  <2>1. dump # <<>> => \E t \in Clock : dump = copies[t].dump
    <3>. SUFFICES ASSUME dump # <<>> PROVE \E t \in Clock : dump = copies[t].dump
      OBVIOUS
    <3>1. source \in DOMAIN runs
      OBVIOUS
    <3>2. runs[source] \in OneRun
      BY <1>2, <3>1, ElementOfSeq
    <3>. QED
      BY <3>1, <3>2 DEF Directory, OneRun
  <2>. QED
    BY <1>1, <1>4, <2>1, SoundKept
<1>15. \A r \in Uploaders : Serving(r)'
  BY <1>1 DEF Idle, Serving
<1>16. Working'
  <2>1. next.run = n + 1 /\ runs'[next.run].status = "running" /\ next.run \in DOMAIN runs'
    BY <1>3, <1>4, <1>6, <1>7, <1>8
  <2>2. source # 0 =>
          /\ source \in DOMAIN runs' /\ source # n + 1 /\ runs'[source].status = "succeeded"
          /\ dump # <<>> /\ copies'[runs'[source].started].dump = dump
    BY <1>1, <1>7, <1>8 DEF Directory
  <2>. QED
    BY <1>1, <1>4, <2>1, <2>2 DEF Working, Directory
<1>17. FilesPresent'
  BY <1>1, <1>4 DEF Inductive, FilesPresent, Restoring
<1>. QED
  BY <1>9, <1>11, <1>12, <1>13, <1>14, <1>15, <1>16, <1>17 DEF Inductive

LEMMA StartsKeep ==
  ASSUME Careful, Inductive,
         StartBackup \/ \E i \in DOMAIN runs : StartRestore(i)
  PROVE  Inductive'
<1>1. CASE StartBackup
  BY <1>1, RecordKeeps DEF StartBackup, Careful
<1>2. ASSUME NEW i \in DOMAIN runs, StartRestore(i) PROVE Inductive'
  <2>1. runs \in Seq(OneRun) /\ copies \in [Clock -> Copy]
    BY DEF Inductive, WorkTyped
  <2>2. runs[i] \in OneRun /\ i \in Nat \ {0}
    <3>1. DOMAIN runs = 1..Len(runs) /\ Len(runs) \in Nat
      BY <2>1
    <3>. QED
      BY <2>1, <3>1, ElementOfSeq
  <2>3. Directory(i).dump \in Rows \cup {<<>>}
    BY <2>1, <2>2 DEF Directory, OneRun, Copy
  <2>. QED
    BY <1>2, <2>2, <2>3, RecordKeeps DEF StartRestore, Careful
<1>. QED
  BY <1>1, <1>2

-----------------------------------------------------------------------------
(* Restores.                                                                *)

LEMMA ReplaceRowsKeeps ==
  ASSUME Careful, Inductive, ReplaceRows
  PROVE  Inductive'
<1>1. /\ job.step = "replace" /\ job' = [job EXCEPT !.step = "files"]
      /\ UNCHANGED <<disk, issued, request, runs, copies, aside, clock, lost>>
  BY DEF ReplaceRows
<1>2. Dumped = Docs /\ Dump = stored /\ stored \in Rows
  BY Whole DEF Inductive, UploadsTyped
<1>3. job.dump # <<>> /\ job.dump \in Rows
  BY <1>1 DEF Inductive, Working, WorkTyped, OneJob
<1>4. stored' = job.dump
  BY <1>2, <1>3 DEF ReplaceRows, Rows
<1>5. PICK files \in SUBSET disk : replaced' = [dump |-> stored, files |-> files, run |-> job.run]
  BY <1>2 DEF ReplaceRows
<1>6. PICK w \in DOMAIN runs :
        /\ w = job.run /\ w \in Nat \ {0} /\ runs[w].status = "succeeded"
        /\ Directory(w).dump = stored /\ disk \subseteq Directory(w).files
  BY <1>1, AtWork DEF Inductive, Working
<1>7. replaced' \in Replacement /\ replaced'.run = w /\ replaced'.dump = stored /\ replaced'.files = files
  <2>1. files \in SUBSET (Nat \cup {Folder})
    BY DEF Inductive, UploadsTyped, Directories
  <2>. QED
    BY <1>2, <1>5, <1>6, <2>1 DEF Replacement
<1>8. /\ job' \in OneJob /\ job'.step = "files"
      /\ job'.run = job.run /\ job'.source = job.source /\ job'.dump = job.dump
  BY <1>1, JobMoves
<1>9. UploadsTyped' /\ WorkTyped'
  BY <1>1, <1>3, <1>4, <1>7, <1>8 DEF Inductive, UploadsTyped, WorkTyped
<1>10. AllSound'
  BY <1>1, <1>3, <1>4, <1>8, SoundKept
<1>11. \A r \in Uploaders : Serving(r)'
  BY <1>1, NobodyServed
<1>12. Separate'
  BY <1>1 DEF Inductive, Separate
<1>13. \A i \in DOMAIN runs' : Complete(i)'
  BY <1>1 DEF Inductive, Complete, Directory, Present
<1>14. Kept'
  BY <1>1, <1>6, <1>7 DEF Kept, Directory
<1>15. Working'
  BY <1>1, <1>4, <1>8 DEF Inductive, Working, Directory
<1>16. FilesPresent'
  BY <1>8 DEF FilesPresent, Restoring
<1>. QED
  BY <1>9, <1>10, <1>11, <1>12, <1>13, <1>14, <1>15, <1>16 DEF Inductive

\* The files are put aside, or copied from the backup.
LEMMA FilesMove ==
  ASSUME Inductive, job.step \in {"files", "copy"}, NEW next \in {"copy", "forget"},
         job' = [job EXCEPT !.step = next],
         disk' \in Directories, aside' \in Directories,
         next = "forget" => Present(stored, disk'),
         UNCHANGED <<stored, issued, request, runs, copies, clock, replaced, lost>>
  PROVE  Inductive'
<1>1. /\ job' \in OneJob /\ job'.step = next
      /\ job'.run = job.run /\ job'.source = job.source /\ job'.dump = job.dump
  BY JobMoves
<1>2. UploadsTyped' /\ WorkTyped'
  BY <1>1 DEF Inductive, UploadsTyped, WorkTyped
<1>3. AllSound'
  BY <1>1, SoundKept
<1>4. \A r \in Uploaders : Serving(r)'
  BY NobodyServed
<1>5. Separate' /\ Kept' /\ \A i \in DOMAIN runs' : Complete(i)'
  BY RunsKept
<1>6. Working'
  <2>1. next = "forget" => Present(stored, disk)'
    BY DEF Present
  <2>. QED
    BY <1>1, <2>1 DEF Inductive, Working, Directory
<1>7. FilesPresent'
  BY <1>1 DEF FilesPresent, Restoring
<1>. QED
  BY <1>2, <1>3, <1>4, <1>5, <1>6, <1>7 DEF Inductive

\* The job ends, and the files of the rows are there, or are recorded as lost.
LEMMA JobEndsKeeps ==
  ASSUME Inductive, job.step # "none", job' = NoJob,
         request' = request \/ request' = [r \in Uploaders |-> NoRequest],
         disk' \in Directories, aside' \in Directories, lost' \in SUBSET Nat, lost \subseteq lost',
         \A d \in Docs : stored[d] \in disk' \cup lost' \cup {NoFile},
         UNCHANGED <<stored, issued, runs, copies, clock, replaced>>
  PROVE  Inductive'
<1>1. request' \in [Uploaders -> OneRequest]
  BY Resting DEF Inductive, UploadsTyped
<1>2. UploadsTyped' /\ WorkTyped'
  BY <1>1, JobEnds DEF Inductive, UploadsTyped, WorkTyped
<1>3. AllSound'
  BY JobEnds, SoundKept
<1>4. \A r \in Uploaders : Serving(r)'
  BY NobodyServed
<1>5. Separate' /\ Kept' /\ \A i \in DOMAIN runs' : Complete(i)'
  BY RunsKept
<1>6. Working' /\ FilesPresent'
  BY JobEnds DEF Working, FilesPresent
<1>. QED
  BY <1>2, <1>3, <1>4, <1>5, <1>6 DEF Inductive

LEMMA RestoreKeeps ==
  ASSUME Inductive, ReplaceFails \/ SetAside \/ CopyBack \/ CopyBackFails \/ ForgetAside
  PROVE  Inductive'
<1>1. /\ disk \in Directories /\ aside \in Directories /\ lost \in SUBSET Nat /\ stored \in Rows
      /\ copies \in [Clock -> Copy]
  BY DEF Inductive, UploadsTyped, WorkTyped
<1>2. CASE ReplaceFails
  <2>1. \A d \in Docs : stored[d] \in disk \cup lost \cup {NoFile}
    BY <1>2 DEF ReplaceFails, Inductive, FilesPresent, Restoring
  <2>. QED
    BY <1>1, <1>2, <2>1, JobEndsKeeps DEF ReplaceFails
<1>3. ASSUME SetAside \/ CopyBack
      PROVE  /\ Directory(job.source).files \in Directories /\ stored = job.dump
             /\ Present(stored, Directory(job.source).files)
  <2>1. PICK s \in DOMAIN runs :
          /\ s = job.source /\ runs[s].status = "succeeded" /\ job.dump # <<>>
          /\ Directory(s).dump = job.dump /\ stored = job.dump
    BY <1>3 DEF SetAside, CopyBack, Inductive, Working
  <2>2. Present(stored, Directory(s).files)
    BY <2>1 DEF Inductive, Complete
  <2>3. Directory(s).files \in Directories
    <3>1. runs \in Seq(OneRun)
      BY DEF Inductive, WorkTyped
    <3>2. runs[s] \in OneRun
      BY <3>1, ElementOfSeq
    <3>. QED
      BY <1>1, <3>2 DEF Directory, OneRun, Copy
  <2>. QED
    BY <2>1, <2>2, <2>3
<1>4. CASE SetAside
  <2>1. CASE Folder \in Directory(job.source).files
    <3>1. /\ aside' = disk /\ disk' = {} /\ job' = [job EXCEPT !.step = "copy"] /\ job.step = "files"
          /\ UNCHANGED <<stored, issued, request, runs, copies, clock, replaced, lost>>
      BY <1>4, <2>1 DEF SetAside
    <3>. QED
      BY <1>1, <3>1, Listings, FilesMove
  <2>2. CASE Folder \notin Directory(job.source).files
    <3>1. Directory(job.source).files = {}
      BY <1>3, <1>4, <2>2 DEF Directories
    <3>2. \A d \in Docs : stored[d] \in disk \cup lost \cup {NoFile}
      BY <1>3, <1>4, <3>1 DEF Present
    <3>3. /\ job' = NoJob /\ job.step = "files"
          /\ UNCHANGED <<stored, disk, aside, issued, request, runs, copies, clock, replaced, lost>>
      BY <1>4, <2>2 DEF SetAside
    <3>. QED
      BY <1>1, <3>2, <3>3, JobEndsKeeps
  <2>. QED
    BY <2>1, <2>2
<1>7. CASE CopyBack
  <2>1. disk' = disk \cup Directory(job.source).files
    BY <1>7 DEF CopyBack
  <2>2. disk' \in Directories /\ Present(stored, disk')
    BY <1>1, <1>3, <1>7, <2>1, Listings DEF Present
  <2>. QED
    BY <1>1, <1>7, <2>2, FilesMove DEF CopyBack
<1>5. CASE CopyBackFails
  <2>1. /\ lost' = lost \cup ({stored[d] : d \in Docs} \ (disk' \cup {NoFile}))
        /\ job.step = "copy" /\ disk' = aside /\ aside' = {} /\ job' = NoJob
        /\ UNCHANGED <<stored, issued, request, runs, copies, clock, replaced>>
    BY <1>5 DEF CopyBackFails, BreakOff
  <2>2. lost' \in SUBSET Nat /\ lost \subseteq lost'
    BY <1>1, <2>1 DEF Rows
  <2>3. \A d \in Docs : stored[d] \in disk' \cup lost' \cup {NoFile}
    BY <2>1
  <2>. QED
    BY <1>1, <2>1, <2>2, <2>3, Listings, JobEndsKeeps
<1>6. CASE ForgetAside
  <2>1. \A d \in Docs : stored[d] \in disk \cup lost \cup {NoFile}
    BY <1>6 DEF ForgetAside, Inductive, Working, Present
  <2>. QED
    BY <1>1, <1>6, <2>1, Listings, JobEndsKeeps DEF ForgetAside
<1>. QED
  BY <1>2, <1>4, <1>5, <1>6, <1>7

-----------------------------------------------------------------------------
(* Faults, time and pruning.                                                *)

LEMMA StopKeeps ==
  ASSUME Inductive, Stop
  PROVE  Inductive'
<1>1. /\ request' = [r \in Uploaders |-> NoRequest] /\ job' = NoJob
      /\ UNCHANGED <<stored, disk, issued, runs, copies, aside, clock, replaced>>
  BY DEF Stop, StopServing
<1>2. disk \in Directories /\ aside \in Directories /\ lost \in SUBSET Nat /\ stored \in Rows
  BY DEF Inductive, UploadsTyped, WorkTyped
<1>3. lost' \in SUBSET Nat /\ lost \subseteq lost'
  BY <1>2 DEF Stop, BreakOff, Rows
<1>4. \A d \in Docs : stored[d] \in disk' \cup lost' \cup {NoFile}
  <2>1. CASE Restoring
    BY <1>1, <2>1 DEF Stop, BreakOff
  <2>2. CASE ~Restoring
    BY <1>1, <2>2 DEF Stop, Inductive, FilesPresent
  <2>. QED
    BY <2>1, <2>2
<1>5. UploadsTyped' /\ WorkTyped'
  <2>1. request' \in [Uploaders -> OneRequest]
    BY <1>1, Resting
  <2>. QED
    BY <1>1, <1>3, <2>1, JobEnds DEF Inductive, UploadsTyped, WorkTyped
<1>6. AllSound'
  BY <1>1, JobEnds, SoundKept
<1>7. \A r \in Uploaders : Serving(r)'
  BY <1>1, Resting DEF Serving
<1>8. Separate' /\ Kept' /\ \A i \in DOMAIN runs' : Complete(i)'
  BY <1>1, <1>3, RunsKept
<1>9. Working' /\ FilesPresent'
  BY <1>1, <1>4, JobEnds DEF Working, FilesPresent
<1>. QED
  BY <1>5, <1>6, <1>7, <1>8, <1>9 DEF Inductive

\* The age of a backup.
LEMMA Older ==
  ASSUME Inductive, NEW i \in DOMAIN runs, NEW now \in Nat, now >= clock, clock - runs[i].started > Retention
  PROVE  now - runs[i].started > Retention
<1>1. runs \in Seq(OneRun) /\ clock \in Clock
  BY DEF Inductive, WorkTyped
<1>2. runs[i] \in OneRun
  BY <1>1, ElementOfSeq
<1>3. runs[i].started \in Int /\ clock \in Int /\ Retention \in Int
  BY <1>1, <1>2, BackupsAssumption DEF OneRun, Clock
<1>. QED
  BY <1>3

LEMMA PassTimeKeeps ==
  ASSUME Inductive, PassTime
  PROVE  Inductive'
<1>1. /\ clock < MaxClock /\ clock' = clock + 1 /\ clock \in Clock
      /\ UNCHANGED <<stored, disk, issued, request, runs, copies, job, aside, replaced, lost>>
  BY DEF PassTime, Inductive, WorkTyped
<1>2. clock' \in Clock /\ clock' >= clock /\ clock' \in Nat
  BY <1>1, BackupsAssumption DEF Clock
<1>3. UploadsTyped' /\ WorkTyped' /\ AllSound' /\ Separate' /\ Working'
  BY <1>1, <1>2 DEF Inductive, UploadsTyped, WorkTyped, AllSound, Sound, Separate, Working, Directory, Present
<1>4. (\A r \in Uploaders : Serving(r)') /\ FilesPresent'
  BY <1>1 DEF Inductive, Serving, FilesPresent, Restoring
<1>5. \A i \in DOMAIN runs' : Complete(i)'
  BY <1>1 DEF Inductive, Complete, Directory, Present
<1>6. Kept'
  <2>. SUFFICES ASSUME replaced.run # 0 PROVE Kept'
    BY <1>1 DEF Kept
  <2>1. PICK k \in DOMAIN runs : k = replaced.run
    BY DEF Inductive, Kept
  <2>2. clock - runs[k].started > Retention => clock' - runs[k].started > Retention
    BY <1>2, Older
  <2>. QED
    BY <1>1, <2>1, <2>2 DEF Inductive, Kept, Directory
<1>. QED
  BY <1>3, <1>4, <1>5, <1>6 DEF Inductive

LEMMA PruneKeeps ==
  ASSUME Careful, Inductive, NEW i \in DOMAIN runs, Prune(i)
  PROVE  Inductive'
<1>1. /\ clock - runs[i].started > Retention
      /\ job.step # "none" => i # job.run /\ i # job.source
      /\ runs' = [runs EXCEPT ![i].status = "gone"]
      /\ copies' = IF runs[i].path THEN [copies EXCEPT ![runs[i].started] = NoCopy] ELSE copies
      /\ UNCHANGED <<stored, disk, issued, request, job, aside, clock, replaced, lost>>
  BY DEF Prune, Careful
<1>2. runs \in Seq(OneRun) /\ copies \in [Clock -> Copy]
  BY DEF Inductive, WorkTyped
<1>3. runs[i] \in OneRun
  BY <1>2, ElementOfSeq
<1>. DEFINE gone == [runs[i] EXCEPT !.status = "gone"]
<1>4. gone \in OneRun
  BY <1>3 DEF OneRun
<1>5. gone.status = "gone" /\ gone.started = runs[i].started
  BY <1>3 DEF OneRun
<1>6. runs' = [runs EXCEPT ![i] = gone]
  BY <1>1
<1>. HIDE DEF gone
<1>7. i \in 1..Len(runs) /\ DOMAIN runs = 1..Len(runs)
  BY <1>2
<1>8. runs' \in Seq(OneRun) /\ Len(runs') = Len(runs)
  BY <1>2, <1>4, <1>6, <1>7, ExceptSeq
<1>9. DOMAIN runs' = DOMAIN runs
  BY <1>7, <1>8
<1>10. runs'[i] = gone /\ \A j \in DOMAIN runs \ {i} : runs'[j] = runs[j]
  BY <1>2, <1>6, <1>7
<1>11. \A j \in DOMAIN runs : runs'[j].started = runs[j].started
  BY <1>5, <1>10
<1>12. copies' \in [Clock -> Copy] /\ \A t \in Clock : copies'[t] = copies[t] \/ copies'[t] = NoCopy
  BY <1>1, <1>2, <1>3, CopyGone
<1>13. ASSUME NEW j \in DOMAIN runs \ {i} PROVE Directory(j)' = Directory(j) /\ runs'[j] = runs[j]
  <2>1. runs[j] \in OneRun
    BY <1>2, ElementOfSeq
  <2>2. runs[j].started \in Clock /\ runs[i].started \in Clock
    BY <1>3, <2>1 DEF OneRun
  <2>3. runs[j].started # runs[i].started
    BY DEF Inductive, Separate
  <2>4. copies'[runs[j].started] = copies[runs[j].started]
    BY <1>1, <1>2, <2>2, <2>3
  <2>. QED
    BY <1>10, <2>4 DEF Directory
<1>14. Separate'
  BY <1>9, <1>11 DEF Inductive, Separate
<1>15. \A j \in DOMAIN runs' : Complete(j)'
  <2>1. ASSUME NEW j \in DOMAIN runs \ {i} PROVE Complete(j)'
    <3>1. Complete(j) /\ runs'[j] = runs[j] /\ Directory(j)' = Directory(j)
      BY <1>13 DEF Inductive
    <3>. QED
      BY <1>1, <3>1 DEF Complete, Present
  <2>2. Complete(i)'
    BY <1>5, <1>10 DEF Complete
  <2>. QED
    BY <1>9, <2>1, <2>2
<1>16. Kept'
  <2>. SUFFICES ASSUME replaced.run # 0 PROVE Kept'
    BY <1>1 DEF Kept
  <2>1. PICK k \in DOMAIN runs : k = replaced.run
    BY DEF Inductive, Kept
  <2>2. CASE k = i
    BY <1>1, <1>5, <1>9, <1>10, <2>1, <2>2 DEF Kept
  <2>3. CASE k # i
    <3>1. runs'[k] = runs[k] /\ Directory(k)' = Directory(k)
      BY <1>13, <2>3
    <3>. QED
      BY <1>1, <1>9, <2>1, <3>1 DEF Inductive, Kept, Directory
  <2>. QED
    BY <2>2, <2>3
<1>17. UploadsTyped' /\ WorkTyped'
  BY <1>1, <1>8, <1>12 DEF Inductive, UploadsTyped, WorkTyped
<1>18. AllSound'
  BY <1>1, <1>12, CopyGone, SoundKept
<1>19. (\A r \in Uploaders : Serving(r)') /\ FilesPresent'
  BY <1>1 DEF Inductive, Serving, FilesPresent, Restoring
<1>20. Working'
  <2>. SUFFICES ASSUME job.step # "none" PROVE Working'
    BY <1>1 DEF Working
  <2>1. PICK w \in DOMAIN runs \ {i} : w = job.run
    BY <1>1 DEF Inductive, Working
  <2>2. runs'[w] = runs[w] /\ Directory(w)' = Directory(w)
    BY <1>13
  <2>3. job.source # 0 => \E s \in DOMAIN runs \ {i} :
          s = job.source /\ runs'[s] = runs[s] /\ copies'[runs'[s].started] = copies[runs[s].started]
    BY <1>1, <1>13 DEF Inductive, Working, Directory
  <2>. QED
    BY <1>1, <1>9, <2>1, <2>2, <2>3 DEF Inductive, Working, Directory, Present
<1>. QED
  BY <1>14, <1>15, <1>16, <1>17, <1>18, <1>19, <1>20 DEF Inductive

-----------------------------------------------------------------------------
LEMMA InitHolds == BackupsInit => Inductive
<1>. SUFFICES ASSUME BackupsInit PROVE Inductive
  OBVIOUS
<1>1. UploadsTyped
  BY Resting, Listings DEF BackupsInit, UploadsInit, UploadsTyped, Rows, NoFile
<1>2. WorkTyped
  <2>1. 0 \in Clock /\ <<>> \in Seq(OneRun)
    BY BackupsAssumption DEF Clock
  <2>2. NothingReplaced \in Replacement
    BY DEF NothingReplaced, Replacement
  <2>. QED
    BY <2>1, <2>2, JobEnds, CopyGone DEF BackupsInit, WorkTyped
<1>3. AllSound
  BY CopyGone, JobEnds DEF BackupsInit, UploadsInit, AllSound, Sound, NoFile
<1>4. \A r \in Uploaders : Serving(r)
  BY Resting DEF BackupsInit, UploadsInit, Serving
<1>5. DOMAIN runs = {}
  BY DEF BackupsInit
<1>6. Separate /\ \A i \in DOMAIN runs : Complete(i)
  BY <1>5 DEF Separate
<1>7. Kept
  <2>1. replaced.run = 0
    BY DEF BackupsInit, NothingReplaced
  <2>. QED
    BY <2>1 DEF Kept
<1>8. Working /\ FilesPresent
  BY JobEnds DEF BackupsInit, UploadsInit, Working, FilesPresent
<1>. QED
  BY <1>1, <1>2, <1>3, <1>4, <1>6, <1>7, <1>8 DEF Inductive

LEMMA StepKeeps ==
  ASSUME Careful, Inductive, [BackupsNext]_backupVars
  PROVE  Inductive'
<1>1. CASE UNCHANGED backupVars
  <2>1. UploadsTyped' /\ WorkTyped' /\ AllSound' /\ Separate' /\ Working' /\ FilesPresent'
    BY <1>1 DEF backupVars, Inductive, UploadsTyped, WorkTyped, AllSound, Sound, Separate, Working,
                Directory, Present, FilesPresent, Restoring
  <2>2. (\A r \in Uploaders : Serving(r)') /\ (\A i \in DOMAIN runs' : Complete(i)') /\ Kept'
    BY <1>1 DEF backupVars, Inductive, Serving, Complete, Directory, Present, Kept
  <2>. QED
    BY <2>1, <2>2 DEF Inductive
<1>2. CASE Upload
  BY <1>2, UploadKeeps
<1>3. CASE StartBackup \/ \E i \in DOMAIN runs : StartRestore(i)
  BY <1>3, StartsKeep
<1>4. CASE DumpRows
  BY <1>4, DumpRowsKeeps
<1>5. CASE CopyFiles
  BY <1>5, CopyFilesKeeps
<1>6. CASE BackupSucceeds
  BY <1>6, BackupSucceedsKeeps
<1>7. CASE BackupFails
  BY <1>7, BackupFailsKeeps
<1>8. CASE ReplaceRows
  BY <1>8, ReplaceRowsKeeps
<1>9. CASE ReplaceFails \/ SetAside \/ CopyBack \/ CopyBackFails \/ ForgetAside
  BY <1>9, RestoreKeeps
<1>10. CASE Stop
  BY <1>10, StopKeeps
<1>11. CASE PassTime
  BY <1>11, PassTimeKeeps
<1>12. CASE \E i \in DOMAIN runs : Prune(i)
  BY <1>12, PruneKeeps
<1>. QED
  BY <1>1, <1>2, <1>3, <1>4, <1>5, <1>6, <1>7, <1>8, <1>9, <1>10, <1>11, <1>12 DEF BackupsNext

\* While nobody uploads during a backup or a restore, no two backups start in the
\* same second and a backup holds every table, no row names a file that is not
\* there, unless a restore is at work on the files or broke off there: not after
\* uploads that stopped halfway, and not after restoring any backup
\* (storeInvoiceFile, removeStoredFile, Run, RestoreBand, restoreFiles, Prune).
THEOREM RowsHaveTheirFiles == Careful => (BackupsSpec => []FilesPresent)
<1>. SUFFICES ASSUME Careful PROVE BackupsSpec => []FilesPresent
  OBVIOUS
<1>1. BackupsInit => Inductive
  BY InitHolds
<1>2. Inductive /\ [BackupsNext]_backupVars => Inductive'
  BY StepKeeps
<1>3. Inductive => FilesPresent
  BY DEF Inductive
<1>. QED
  BY <1>1, <1>2, <1>3, PTL DEF BackupsSpec

\* Under the same conditions the safety backup of the last restore holds the rows
\* and the files that were replaced until it is old enough to be pruned
\* (RestoreBand, Run, Prune).
THEOREM RestoreCanBeUndone == Careful => (BackupsSpec => []SafetyPoint)
<1>. SUFFICES ASSUME Careful PROVE BackupsSpec => []SafetyPoint
  OBVIOUS
<1>1. BackupsInit => Inductive
  BY InitHolds
<1>2. Inductive /\ [BackupsNext]_backupVars => Inductive'
  BY StepKeeps
<1>3. Inductive => SafetyPoint
  <2>. SUFFICES ASSUME Inductive, replaced.run # 0, clock - runs[replaced.run].started <= Retention
                PROVE  Directory(replaced.run).dump = replaced.dump
                       /\ replaced.files \subseteq Directory(replaced.run).files
    BY DEF SafetyPoint
  <2>1. PICK k \in DOMAIN runs : k = replaced.run
    BY DEF Inductive, Kept
  <2>2. runs \in Seq(OneRun) /\ clock \in Clock
    BY DEF Inductive, WorkTyped
  <2>3. runs[k] \in OneRun
    BY <2>2, ElementOfSeq
  <2>4. clock \in Int /\ runs[k].started \in Int /\ Retention \in Int
    BY <2>2, <2>3, BackupsAssumption DEF OneRun, Clock
  <2>5. ~(clock - runs[k].started > Retention)
    BY <2>1, <2>4
  <2>. QED
    BY <2>1, <2>5 DEF Inductive, Kept
<1>. QED
  BY <1>1, <1>2, <1>3, PTL DEF BackupsSpec
=============================================================================
