\* A photo of the packing list and an invoice, one upload at a time, two backups that
\* leave the rows of the packing list out.
CONSTANTS
  Docs = {inv, pic}
  Invoices = {inv}
  MaxStored = 2
  Uploaders = {u1}
  Unbacked = {pic}
  Retention = 0
  Quiet = TRUE
  Apart = TRUE
  MaxRuns = 2
  MaxClock = 1
SPECIFICATION BackupsSpec
INVARIANT FilesPresent
CHECK_DEADLOCK FALSE
