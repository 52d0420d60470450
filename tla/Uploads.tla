------------------------------- MODULE Uploads -------------------------------
(***************************************************************************)
(* The files of one band: invoices, attachments and photos.  A row holds   *)
(* the key of its file, the file lies in the band's directory of the       *)
(* store.  The two are written one after the other by every request, and   *)
(* the process may stop in between.                                        *)
(***************************************************************************)
EXTENDS Integers, FiniteSets

CONSTANTS
  Docs,      \* rows that hold a file
  Invoices,  \* those whose file is replaced: purchases with an invoice
  Uploaders, \* slots for requests served at the same time
  MaxStored  \* bound: files ever stored

ASSUME UploadsAssumption == Invoices \subseteq Docs /\ MaxStored \in Nat

VARIABLES
  stored,  \* the file of a row, NoFile where there is none
  disk,    \* the band's directory: its files, and Folder when there is one
  issued,  \* how many keys the store has given out, each once
  request  \* the requests being served

uploadVars == <<stored, disk, issued, request>>

NoFile == 0

\* A directory is the set of its files with Folder, a missing one is empty: a band
\* that never stored anything has none.
Folder == -1

NoRequest == [step |-> "idle", doc |-> CHOOSE d \in Docs : TRUE, new |-> NoFile, old |-> NoFile]

Serve(r, next) == request' = [request EXCEPT ![r] = next]

\* removeStoredFile: a missing file is no error.
RemoveStoredFile(file) == disk' = disk \ {file}

\* Put under a fresh key, in one step: the directory is made if need be, and the file
\* appears by a rename.  An invoice
\* remembers the file its row had before, any other upload makes a row of its own.
PutFile(r, d) ==
  /\ request[r].step = "idle"
  /\ issued < MaxStored /\ issued' = issued + 1
  /\ d \in Invoices \/ stored[d] = NoFile
  /\ disk' = disk \cup {Folder, issued'}
  /\ Serve(r, [step |-> "store", doc |-> d, new |-> issued', old |-> stored[d]])
  /\ UNCHANGED stored

\* The row is written: the file it superseded is removed next.
StoreRow(r) ==
  LET q == request[r]
  IN  /\ q.step = "store"
      /\ q.doc \in Invoices \/ stored[q.doc] = NoFile
      /\ stored' = [stored EXCEPT ![q.doc] = q.new]
      /\ Serve(r, [q EXCEPT !.step = "clean"])
      /\ UNCHANGED <<disk, issued>>

\* The row cannot be written: the new file goes again.
StoreFails(r) ==
  /\ request[r].step = "store"
  /\ RemoveStoredFile(request[r].new)
  /\ Serve(r, NoRequest)
  /\ UNCHANGED <<stored, issued>>

\* A row is to be deleted, or an invoice taken off: its file is looked up.
ReadRow(r, d) ==
  /\ request[r].step = "idle" /\ stored[d] # NoFile
  /\ Serve(r, [step |-> "delete", doc |-> d, new |-> NoFile, old |-> stored[d]])
  /\ UNCHANGED <<stored, disk, issued>>

\* Fault: the file is removed before its row.
DeleteFileFirst(r) ==
  LET q == request[r]
  IN  /\ q.step = "delete"
      /\ RemoveStoredFile(q.old)
      /\ Serve(r, NoRequest)
      /\ UNCHANGED <<stored, issued>>

\* A photo or attachment is deleted by its id, an invoice is cleared whatever it
\* is by now.
DeleteRow(r) ==
  LET q == request[r]
  IN  /\ q.step = "delete"
      /\ stored' = [stored EXCEPT ![q.doc] = IF q.doc \in Invoices \/ @ = q.old THEN NoFile ELSE @]
      /\ Serve(r, [q EXCEPT !.step = "clean"])
      /\ UNCHANGED <<disk, issued>>

CleanUp(r) ==
  /\ request[r].step = "clean"
  /\ RemoveStoredFile(request[r].old)
  /\ Serve(r, NoRequest)
  /\ UNCHANGED <<stored, issued>>

UploadsInit ==
  /\ stored = [d \in Docs |-> NoFile] /\ disk = {} /\ issued = 0
  /\ request = [r \in Uploaders |-> NoRequest]

Uploading(r) ==
  \/ \E d \in Docs : PutFile(r, d)
  \/ \E d \in Docs : ReadRow(r, d)
  \/ StoreRow(r) \/ StoreFails(r) \/ DeleteRow(r) \/ CleanUp(r)

\* The process stops: requests are gone, rows and files stay.
StopServing == request' = [r \in Uploaders |-> NoRequest]
=============================================================================
