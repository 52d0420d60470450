--------------------------- MODULE PackingDevices ---------------------------
(***************************************************************************)
(* Devices that keep the packing list of PackingList at hand.  A change is *)
(* shown at once and queued; a run of synchronizePacking transmits the     *)
(* queue in order, fetches the list and lays what is still queued over it. *)
(* A device has one open tab.  Signed out is as good as out of reach: the  *)
(* queue waits until the next sign-in resumes it.                          *)
(***************************************************************************)
EXTENDS PackingList

CONSTANTS
  Devices,
  NoCall,       \* no request in flight
  MaxClosings,  \* bound: how often a page is closed or reloaded during a run
  MaxShown      \* bound: how far a list shown without the server may grow

ASSUME DevicesAssumption ==
  /\ NoCall \notin PackingRequests
  /\ MaxClosings \in Nat
  /\ MaxShown \in Nat

VARIABLES
  online,    \* devices whose requests reach the server
  maker,     \* events made on each device
  based,     \* base_generation of an event
  queue,     \* object store packing_queue of each device, read in order of creation
  failed,    \* entries with failedPermanently
  local,     \* the snapshot a device shows
  run,       \* synchronizePacking, one run per device
  closings,  \* closings so far
  retried,   \* failed entries the user sent again (observation)
  dropped    \* entries removed with a message or by the user (observation)

deviceVars == <<maker, based, queue, failed, local, run, closings, retried, dropped>>
devicesVars == <<packingVars, online, deviceVars>>

Snapshot(g, bags) == [generation |-> g, list |-> bags]
NoRun == [pc |-> "idle", todo |-> {}, event |-> 0, slot |-> NoCall,
          override |-> 0, server |-> Snapshot(0, <<>>)]

\* queueEntries: failed ones only where they are asked for.
Waiting(d) == queue[d] \ failed
Earliest(e, entries) == e \in entries /\ \A f \in entries : e <= f

\* sort by the order: rows it does not name stay in place behind the others.
Sorted(rows, order) ==
  FlattenSeq(Each(order, LAMBDA id : SelectSeq(rows, LAMBDA row : row.id = id)))
    \o SelectSeq(rows, LAMBDA row : row.id \notin ToSet(order))

\* applyPackingOperation of the app: what it does not find it leaves alone, a new
\* row it appends without looking, it deletes every row of an id and orders what
\* it has, and deleting an item recomputes every bag.
Shown(bags, e, c) ==
  LET others(rows) == SelectSeq(rows, LAMBDA row : row.id # c.target)
  IN  CASE c.kind = "delete_bag"   -> others(bags)
        [] c.kind = "delete_item"  -> Each(bags, LAMBDA b : Recomputed([b EXCEPT !.items = others(@)]))
        [] c.kind = "reorder_bags" -> Sorted(bags, c.order)
        [] c.kind = "reorder_items" ->
             IF c.target \notin Ids(bags) THEN bags
             ELSE With(bags, [RowOf(bags, c.target) EXCEPT !.items = Sorted(@, c.order)])
        [] OTHER -> IF Target(bags, c) THEN Applied(bags, e, c) ELSE bags

ShownOn(snapshot, e, c) == Snapshot(GenerationAfter(snapshot.generation, c), Shown(snapshot.list, e, c))

\* overlayQueue: every entry that is still queued, failed or not, the newest last.
Overlay(d, snapshot) ==
  LET newest(entries) == CHOOSE e \in entries : \A f \in entries : f <= e
  IN  MapThenFoldSet(LAMBDA e, s : ShownOn(s, e, asked[e]), snapshot, LAMBDA e : e, newest, queue[d])

-----------------------------------------------------------------------------
\* Changes are numbered as they are made.
NextChange(e) == asked[e] = NoChange /\ \A f \in Changes : f < e => asked[f] # NoChange

\* mutate: the entry and what the list looks like with it are stored together.
Mutate(d, e) ==
  /\ NextChange(e)
  /\ \E c \in Offered(local[d].list) :
       /\ asked' = [asked EXCEPT ![e] = c]
       /\ local' = [local EXCEPT ![d] = ShownOn(@, e, c)]
       /\ based' = [based EXCEPT ![e] = IF c.kind = "upload_photo" THEN 0 ELSE local[d].generation]
  /\ maker' = [maker EXCEPT ![d] = @ \cup {e}]
  /\ queue' = [queue EXCEPT ![d] = @ \cup {e}]
  /\ UNCHANGED <<listVars, storeVars, calls, online, failed, run, closings, retried, dropped>>

\* sync: after a change, when the browser is online again or in front, on a hint
\* of the server, and every ten seconds while the page is open; the browser may
\* not know that the server is out of reach.
StartRun(d) ==
  /\ run[d].pc = "idle"
  /\ run' = [run EXCEPT ![d] = [NoRun EXCEPT !.pc = "next", !.todo = Waiting(d), !.server = local[d]]]
  /\ UNCHANGED <<packingVars, online, maker, based, queue, failed, local, closings, retried, dropped>>

\* A status change queued behind a reset of this run is of the list after it.
Base(d, e) ==
  IF run[d].override # 0 /\ asked[e].kind \in StatusKinds THEN run[d].override ELSE based[e]

\* The next entry is sent; without a connection the run stops.
Transmit(d) ==
  /\ run[d].pc = "next"
  /\ \E e \in Changes :
       /\ Earliest(e, run[d].todo)
       /\ \/ /\ d \in online
             /\ \E r \in PackingRequests :
                  /\ ReceiveChange(r, e, asked[e], Base(d, e))
                  /\ run' = [run EXCEPT ![d].pc = "sent", ![d].todo = @ \ {e}, ![d].event = e, ![d].slot = r]
          \/ /\ d \notin online
             /\ run' = [run EXCEPT ![d].todo = {}]
             /\ UNCHANGED calls
  /\ UNCHANGED <<asked, listVars, storeVars, online, maker, based, queue, failed, local, closings, retried, dropped>>

\* Fault: after an error the run goes on with the next entry.
AfterErrorNext(s) == [s EXCEPT !.pc = "next"]

\* Fault: the flag of the run stays set after an error.
AfterErrorHung(s) == [s EXCEPT !.pc = "hung", !.todo = {}]

\* An error that may pass ends the run.
AfterError(s) == [s EXCEPT !.pc = "next", !.todo = {}]

\* Fault: an entry whose change was refused is removed like one that was applied.
SettledByRefusal(answer) == answer \in Answers \ {"generation_conflict", "unsupported", "error"}

SettledBy(answer) == answer \in {"applied", "replayed"}

\* The answer to the entry that was sent.
Answered(d) ==
  /\ run[d].pc = "sent" /\ d \in online
  /\ calls[run[d].slot].status \in Answers
  /\ LET r == run[d].slot
         e == run[d].event
         answer == calls[r].status
         n == calls[r].answer
         left == [run[d] EXCEPT !.pc = "next", !.event = 0, !.slot = NoCall]
     IN  /\ FinishChange(r)
         /\ \/ /\ SettledBy(answer)
               /\ queue' = [queue EXCEPT ![d] = @ \ {e}]
               /\ run' = [run EXCEPT ![d] =
                    [left EXCEPT !.server = Snapshot(GenerationAt(n), ListAt(n)),
                                 !.override = IF asked[e].kind = "reset" THEN GenerationAt(n) ELSE @]]
               /\ UNCHANGED <<failed, dropped>>
            \/ /\ answer = "generation_conflict"
               /\ queue' = [queue EXCEPT ![d] = @ \ {e}]
               /\ dropped' = dropped \cup {e}
               /\ run' = [run EXCEPT ![d] = left]
               /\ UNCHANGED failed
            \/ /\ answer \in {"sync_conflict", "target_deleted", "forbidden", "quota"} /\ ~SettledBy(answer)
               /\ failed' = failed \cup {e}
               /\ run' = [run EXCEPT ![d] = left]
               /\ UNCHANGED <<queue, dropped>>
            \/ /\ answer \in {"unsupported", "error"}
               /\ run' = [run EXCEPT ![d] = AfterError(left)]
               /\ UNCHANGED <<queue, failed, dropped>>
  /\ UNCHANGED <<asked, listVars, storeVars, online, maker, based, local, closings, retried>>

\* The connection breaks before the answer: the server may have the change.
Lost(d) ==
  /\ run[d].pc = "sent" /\ d \notin online
  /\ run' = [run EXCEPT ![d] = AfterError([@ EXCEPT !.event = 0, !.slot = NoCall])]
  /\ UNCHANGED <<packingVars, online, maker, based, queue, failed, local, closings, retried, dropped>>

Size(snapshot) ==
  snapshot.generation + Len(snapshot.list)
  + FoldLeft(LAMBDA sum, bag : sum + Len(bag.items), 0, snapshot.list)

Lay(d, snapshot) ==
  /\ run' = [run EXCEPT ![d] = [NoRun EXCEPT !.pc = "save", !.server = Overlay(d, snapshot)]]
  /\ UNCHANGED <<packingVars, online, maker, based, queue, failed, local, closings, retried, dropped>>

\* The end of the queue, or of the run: GET /packing-list reads the generation ...
FetchState(d) ==
  /\ run[d].pc = "next" /\ run[d].todo = {}
  /\ d \in online
  /\ run' = [run EXCEPT ![d].pc = "rows", ![d].server.generation = generation]
  /\ UNCHANGED <<packingVars, online, maker, based, queue, failed, local, closings, retried, dropped>>

\* ... and then the rows.  overlayQueue reads the queue: what is changed from
\* here on is not in it ...
FetchRows(d) ==
  /\ run[d].pc = "rows"
  /\ Lay(d, Snapshot(run[d].server.generation, list))

\* A failed fetch leaves the run its last snapshot, which may be the one the
\* device shows, queue and all.
FetchFails(d) ==
  /\ run[d].pc = "next" /\ run[d].todo = {} /\ d \notin online
  /\ Lay(d, run[d].server)
  /\ Size(run'[d].server) <= MaxShown

\* ... and is not shown again before the next run.
Save(d) ==
  /\ run[d].pc = "save"
  /\ local' = [local EXCEPT ![d] = run[d].server]
  /\ run' = [run EXCEPT ![d] = NoRun]
  /\ UNCHANGED <<packingVars, online, maker, based, queue, failed, closings, retried, dropped>>

\* resolvePackingFailure: the user sends a failed entry again, or removes it.
Retry(d, e) ==
  /\ e \in failed /\ e \notin retried
  /\ e \in queue[d]
  /\ failed' = failed \ {e}
  /\ retried' = retried \cup {e}
  /\ UNCHANGED <<packingVars, online, maker, based, queue, local, run, closings, dropped>>

Dismiss(d, e) ==
  /\ e \in failed
  /\ e \in queue[d]
  /\ queue' = [queue EXCEPT ![d] = @ \ {e}]
  /\ failed' = failed \ {e}
  /\ dropped' = dropped \cup {e}
  /\ UNCHANGED <<packingVars, online, maker, based, local, run, closings, retried>>

\* The page is closed or reloaded: its run is forgotten, IndexedDB is not.
ClosePage(d) ==
  /\ run[d].pc # "idle" /\ closings < MaxClosings
  /\ closings' = closings + 1
  /\ run' = [run EXCEPT ![d] = NoRun]
  /\ UNCHANGED <<packingVars, online, maker, based, queue, failed, local, retried, dropped>>

Connection(d) ==
  /\ online' = IF d \in online THEN online \ {d} ELSE online \cup {d}
  /\ UNCHANGED <<packingVars, deviceVars>>

\* Another member changes the list while it is at rest.
Elsewhere(e) ==
  /\ NextChange(e)
  /\ \E c \in Offered(list) :
       /\ asked' = [asked EXCEPT ![e] = c]
       /\ list' = Applied(list, e, c)
       /\ generation' = GenerationAfter(generation, c)
       /\ log' = Append(log, [event |-> e, change |-> c, base |-> generation,
                              generation |-> generation', list |-> list'])
       /\ files' = IF c.kind = "upload_photo" THEN files \cup {e} ELSE files \ FilesOf(c)
       /\ c.kind = "upload_photo" => QuotaLeft /\ e \notin Unreadable
  /\ UNCHANGED <<orphans, calls, online, deviceVars>>

\* Nobody waits for the answer any more.
ForgetAnswer(r) ==
  /\ \A d \in Devices : run[d].slot # r
  /\ calls[r].status \in Answers
  /\ FinishChange(r)
  /\ UNCHANGED <<asked, listVars, storeVars, online, deviceVars>>

-----------------------------------------------------------------------------
DevicesInit ==
  /\ PackingInit
  /\ online = Devices
  /\ maker = [d \in Devices |-> {}]
  /\ based = [e \in Changes |-> 0]
  /\ queue = [d \in Devices |-> {}]
  /\ failed = {}
  /\ local = [d \in Devices |-> Snapshot(1, FirstList)]
  /\ run = [d \in Devices |-> NoRun]
  /\ closings = 0
  /\ retried = {}
  /\ dropped = {}

\* One step of a run that has begun.
Running(d) ==
  Transmit(d) \/ Answered(d) \/ Lost(d) \/ FetchState(d) \/ FetchRows(d) \/ FetchFails(d) \/ Save(d)

Answering == (Restart \/ \E r \in PackingRequests : PackingServe(r)) /\ UNCHANGED <<online, deviceVars>>

DevicesNext ==
  \/ \E d \in Devices :
       \/ \E e \in Changes : Mutate(d, e) \/ Retry(d, e) \/ Dismiss(d, e)
       \/ StartRun(d) \/ Running(d) \/ ClosePage(d) \/ Connection(d)
  \/ \E e \in Changes : Elsewhere(e)
  \/ \E r \in PackingRequests : ForgetAnswer(r)
  \/ Answering

DevicesSpec == DevicesInit /\ [][DevicesNext]_devicesVars

\* A request is answered, and a server that is asked again and again does not
\* fail every time; the poller starts a run every ten seconds while the page is
\* open, and the browser runs it.
Fairness ==
  /\ \A r \in PackingRequests :
       /\ WF_devicesVars(PackingServe(r) /\ UNCHANGED <<online, deviceVars>>)
       /\ WF_devicesVars(ForgetAnswer(r))
       /\ SF_devicesVars((ReplayChange(r) \/ Store(r)) /\ UNCHANGED <<online, deviceVars>>)
       /\ SF_devicesVars(Look(r) /\ UNCHANGED <<online, deviceVars>>)
       /\ SF_devicesVars((CommitChange(r) \/ RefuseChange(r)) /\ UNCHANGED <<online, deviceVars>>)
  /\ \A d \in Devices : WF_devicesVars(StartRun(d)) /\ WF_devicesVars(Running(d))

FairDevicesSpec == DevicesSpec /\ Fairness

-----------------------------------------------------------------------------
(* Properties.                                                              *)

\* What somebody changed is on the server, or waits on the device, or was given
\* up with a message or by the user: through lost answers, reloads and restarts
\* nothing disappears silently (packing.ts:300-340).
NoChangeLost ==
  \A d \in Devices : \A e \in maker[d] :
    Recorded(e) # {} \/ e \in queue[d] \/ e \in dropped

\* What one device changed reaches the list in the order it was made, but for
\* what was refused: an error stops the run, it never lets younger changes overtake,
\* whatever deliveries of the older ones are still on their way (packing.ts:386-387).
Refused == failed \cup retried \cup dropped
MadeInOrder ==
  \A d \in Devices : \A e, f \in maker[d] :
    e < f /\ e \notin Refused => \A n \in Recorded(f) : \E m \in Recorded(e) : m < n

\* A device whose connection stays is rid of every change that can be decided,
\* and then shows the server's list with what was refused on top.  (An unreadable
\* photo is refused with a status the device does not count as final.)
Settles ==
  \A d \in Devices :
    <>[](d \in online) => <>[](Waiting(d) = {} /\ local[d] = Overlay(d, Snapshot(generation, list)))
=============================================================================
