---------------------------- MODULE PackingList ----------------------------
(***************************************************************************)
(* The band's packing list on the server.  A change carries an event id;   *)
(* its transaction looks the event up (which opens its snapshot), locks    *)
(* the list's state row, changes the list, advances the revision and       *)
(* records its answer.  With innodb_snapshot_isolation the lock fails when *)
(* the row was changed after the snapshot, so the step that applies the    *)
(* change sees what its snapshot saw or nothing at all.  Until the commit  *)
(* nobody else passes the lock, and only its holder writes to the list.    *)
(***************************************************************************)
EXTENDS Naturals, SequencesExt

CONSTANTS
  PackingRequests, \* slots for requests served at the same time
  Changes,         \* bound: numbers of the changes, also the ids of what they create
  FirstList,       \* the list before them, with ids beyond Changes
  Kinds,           \* the operations people use
  Marks,           \* the statuses people give to bags and items
  Unreadable,      \* changes whose photo photos.Normalize cannot decode
  MaxFiles,        \* the band's storage quota, in photos
  MaxOrphans       \* bound: photos a crash may leave behind in the store

ASSUME PackingAssumption ==
  /\ Changes \subseteq Nat \ {0}
  /\ MaxFiles \in Nat
  /\ MaxOrphans \in Nat

VARIABLES
  asked,      \* what every event asks for: the payload the device fixed
  list,       \* packing_bags, packing_items and packing_photos, in position order
  generation, \* packing_list_states.generation
  log,        \* packing_sync_events with the recorded answers, in order of commit
  files,      \* photos whose file is in the store
  orphans,    \* files in the store that no row will ever name
  calls       \* the requests being served

listVars == <<list, generation, log>>
storeVars == <<files, orphans>>
packingVars == <<asked, listVars, storeVars, calls>>

PackingStatuses == {"open", "packed", "stays_here"}
ASSUME MarksAssumption == Marks \subseteq PackingStatuses
StatusKinds == {"set_bag_status", "set_item_status"}

\* A change names a bag, an item, a photo or the owner of a new photo; what it
\* creates or names anew is told by its event.
Change(kind, target, status, order) ==
  [kind |-> kind, target |-> target, status |-> status, order |-> order]
NoChange == Change("none", 0, "open", <<>>)

-----------------------------------------------------------------------------
(* The list: a sequence of bags, each with its items and photos.            *)

NewItem(id) == [id |-> id, name |-> 0, status |-> "open", photos |-> {}]
NewBag(id) == [id |-> id, name |-> 0, status |-> "open", photos |-> {}, items |-> <<>>]

\* The rows of packing_items and packing_bags, whose photos are among those given;
\* a bag is stored as packed only if none of its items is open.
ItemsOver(P) == [id : Nat, name : Nat, status : PackingStatuses, photos : SUBSET P]
BagsOver(P) ==
  {bag \in [id : Nat, name : Nat, status : PackingStatuses, photos : SUBSET P, items : Seq(ItemsOver(P))] :
     bag.status = "packed" => \A i \in DOMAIN bag.items : bag.items[i].status # "open"}

\* What the list starts with was made like the rest, by changes before these.
ASSUME FirstListAssumption == FirstList \in Seq(BagsOver(Nat \ Changes))

Ids(rows) == {rows[i].id : i \in DOMAIN rows}
First(rows, P(_)) == CHOOSE i \in DOMAIN rows : P(rows[i]) /\ \A j \in DOMAIN rows : P(rows[j]) => i <= j
PlaceOf(rows, id) == First(rows, LAMBDA row : row.id = id)
RowOf(rows, id) == rows[PlaceOf(rows, id)]
With(rows, row) == [rows EXCEPT ![PlaceOf(rows, row.id)] = row]
Without(rows, id) == RemoveAt(rows, PlaceOf(rows, id))
Each(rows, F(_)) == [i \in DOMAIN rows |-> F(rows[i])]

\* reorder: every row takes the place its id has in the order.
Reordered(rows, order) == Each(order, LAMBDA id : RowOf(rows, id))

ItemIds(bags) == UNION {Ids(bags[i].items) : i \in DOMAIN bags}
Home(bags, item) == bags[First(bags, LAMBDA bag : item \in Ids(bag.items))]
PhotosOf(bag) == bag.photos \cup UNION {bag.items[i].photos : i \in DOMAIN bag.items}
PhotoIds(bags) == UNION {PhotosOf(bags[i]) : i \in DOMAIN bags}

WithItem(bag, item) == [bag EXCEPT !.items = With(@, item)]
EachItem(bag, F(_)) == [bag EXCEPT !.items = Each(@, F)]

\* Fault: what stays here does not count as open, nor as packed.
RecomputedByPacked(bag) ==
  LET open == bag.items # <<>> /\ \A i \in DOMAIN bag.items : bag.items[i].status # "packed"
  IN  IF bag.status = "stays_here" THEN bag ELSE [bag EXCEPT !.status = IF open THEN "open" ELSE "packed"]

\* recomputeBag: packed unless an item is open; an excluded bag stays excluded.
Recomputed(bag) ==
  LET open == \E i \in DOMAIN bag.items : bag.items[i].status = "open"
  IN  IF bag.status = "stays_here" THEN bag ELSE [bag EXCEPT !.status = IF open THEN "open" ELSE "packed"]

\* OpCreateItem appends the item and opens its bag unless that stays here.
ItemAdded(bag, id) ==
  [bag EXCEPT !.items = Append(@, NewItem(id)), !.status = IF @ = "stays_here" THEN @ ELSE "open"]

\* OpSetBagStatus: packing a bag packs what does not stay here; opening it opens
\* what was packed, unless the whole bag was excluded before.
BagSet(bag, status) ==
  LET set == [bag EXCEPT !.status = status]
      moved(from, to) == EachItem(set, LAMBDA item : IF item.status \in from THEN [item EXCEPT !.status = to] ELSE item)
  IN  CASE status = "packed" -> moved({"open"}, "packed")
        [] status = "open" /\ bag.status = "stays_here" -> Recomputed(set)
        [] status = "open" /\ bag.status # "stays_here" -> moved({"packed"}, "open")
        [] OTHER -> set

\* OpReset opens every bag and every item.
Reopened(bag) == EachItem([bag EXCEPT !.status = "open"], LAMBDA item : [item EXCEPT !.status = "open"])

PhotoDeleted(bag, photo) ==
  EachItem([bag EXCEPT !.photos = @ \ {photo}], LAMBDA item : [item EXCEPT !.photos = @ \ {photo}])

\* UploadPhoto adds the photo to its bag or its item.
PhotoAdded(bag, owner, photo) ==
  LET on(row) == IF row.id = owner THEN [row EXCEPT !.photos = @ \cup {photo}] ELSE row
  IN  EachItem(on(bag), on)

\* applyOperation: the list after change c of event e, whose target exists.
Applied(bags, e, c) ==
  LET bag  == RowOf(bags, c.target)
      home == Home(bags, c.target)
      item == RowOf(home.items, c.target)
  IN  CASE c.kind = "create_bag"      -> Append(bags, NewBag(e))
        [] c.kind = "rename_bag"      -> With(bags, [bag EXCEPT !.name = e])
        [] c.kind = "delete_bag"      -> Without(bags, c.target)
        [] c.kind = "reorder_bags"    -> Reordered(bags, c.order)
        [] c.kind = "create_item"     -> With(bags, ItemAdded(bag, e))
        [] c.kind = "rename_item"     -> With(bags, WithItem(home, [item EXCEPT !.name = e]))
        [] c.kind = "delete_item"     -> With(bags, Recomputed([home EXCEPT !.items = Without(@, c.target)]))
        [] c.kind = "reorder_items"   -> With(bags, [bag EXCEPT !.items = Reordered(@, c.order)])
        [] c.kind = "set_item_status" -> With(bags, Recomputed(WithItem(home, [item EXCEPT !.status = c.status])))
        [] c.kind = "set_bag_status"  -> With(bags, BagSet(bag, c.status))
        [] c.kind = "delete_photo"    -> Each(bags, LAMBDA b : PhotoDeleted(b, c.target))
        [] c.kind = "upload_photo"    -> Each(bags, LAMBDA b : PhotoAdded(b, c.target, e))
        [] c.kind = "reset"           -> Each(bags, Reopened)

\* reorder takes an order that names every row once, of at least one.
Orders(order, rows) == order # <<>> /\ Len(order) = Len(rows) /\ ToSet(order) = Ids(rows)

\* What a change names is there.
Target(bags, c) ==
  CASE c.kind \in {"rename_bag", "delete_bag", "create_item", "set_bag_status"} -> c.target \in Ids(bags)
    [] c.kind \in {"rename_item", "delete_item", "set_item_status"} -> c.target \in ItemIds(bags)
    [] c.kind = "delete_photo"  -> c.target \in PhotoIds(bags)
    [] c.kind = "upload_photo"  -> c.target \in Ids(bags) \cup ItemIds(bags)
    [] c.kind = "reorder_bags"  -> Orders(c.order, bags)
    [] c.kind = "reorder_items" -> c.target \in Ids(bags) /\ Orders(c.order, RowOf(bags, c.target).items)
    [] OTHER -> TRUE

GenerationAfter(g, c) == IF c.kind = "reset" THEN g + 1 ELSE g

\* The changes somebody may ask for who looks at a list; to reorder is shown by
\* the reverse order.
Offered(bags) ==
  LET reversed(rows) == [i \in DOMAIN rows |-> rows[Len(rows) + 1 - i].id]
      on(kinds, targets) == {Change(k, t, "open", <<>>) : k \in kinds, t \in targets}
      to(kind, targets) == {Change(kind, t, s, <<>>) : t \in targets, s \in Marks}
      all == on({"create_bag", "reset"}, {0})
             \cup on({"rename_bag", "delete_bag", "create_item"}, Ids(bags))
             \cup on({"rename_item", "delete_item"}, ItemIds(bags))
             \cup on({"delete_photo"}, PhotoIds(bags))
             \cup on({"upload_photo"}, Ids(bags) \cup ItemIds(bags))
             \cup to("set_bag_status", Ids(bags)) \cup to("set_item_status", ItemIds(bags))
             \cup {Change("reorder_bags", 0, "open", reversed(bags)) : x \in 1..(IF Len(bags) > 1 THEN 1 ELSE 0)}
             \cup {Change("reorder_items", b, "open", reversed(RowOf(bags, b).items)) :
                     b \in {id \in Ids(bags) : Len(RowOf(bags, id).items) > 1}}
  IN  {c \in all : c.kind \in Kinds}

-----------------------------------------------------------------------------
(* Requests.                                                                *)

Revision == Len(log)

\* Fault: events are purged once others came after them.
PriorUnpurged(e) == {n \in DOMAIN log : log[n].event = e /\ n = Revision}

\* The events of that id; there is at most one.
Prior(e) == {n \in DOMAIN log : log[n].event = e}

IdleRequest == [status |-> "idle", event |-> 0, change |-> NoChange, base |-> 0,
                view |-> 0, stored |-> FALSE, doomed |-> {}, answer |-> 0]
Answers == {"applied", "replayed", "generation_conflict", "sync_conflict",
            "target_deleted", "forbidden", "quota", "unsupported", "error"}

\* A request arrives: POST .../operations or POST .../photos.
ReceiveChange(r, e, c, base) ==
  /\ calls[r].status = "idle"
  /\ calls' = [calls EXCEPT ![r] = [IdleRequest EXCEPT !.status = "received", !.event = e,
                                  !.change = c, !.base = base]]

\* The answer; an object that was stored in vain is deleted with it.
Reply(r, answer, n) == calls' = [calls EXCEPT ![r].status = answer, ![r].stored = FALSE, ![r].answer = n]

\* A seller may set statuses; whoever lost the role of a member may do no more.
Forbid(r) ==
  /\ calls[r].status = "received" /\ calls[r].change.kind \notin StatusKinds
  /\ Reply(r, "forbidden", 0)
  /\ UNCHANGED <<asked, listVars, storeVars>>

\* The prior event answers, if it was the same operation: the payload's hash
\* covers the generation it was based on.
Same(n, r) == log[n].change = calls[r].change /\ log[n].base = calls[r].base

ReplayChange(r) ==
  /\ calls[r].status \in {"received", "stored"}
  /\ \E n \in Prior(calls[r].event) :
       IF Same(n, r) THEN Reply(r, "replayed", n) ELSE Reply(r, "sync_conflict", 0)
  /\ UNCHANGED <<asked, listVars, storeVars>>

Usage == Cardinality(files) + orphans + Cardinality({r \in PackingRequests : calls[r].stored})

\* checkStorageQuota: no quota is no limit.
QuotaLeft == MaxFiles = 0 \/ Usage + 1 <= MaxFiles

\* uploadPackingPhoto and UploadPhoto before the transaction: the image must be
\* one, there is no prior event, the quota, the owner, and the object is stored.
Store(r) ==
  /\ calls[r].status = "received" /\ calls[r].change.kind = "upload_photo"
  /\ Prior(calls[r].event) = {}
  /\ \/ calls[r].event \in Unreadable /\ Reply(r, "unsupported", 0)
     \/ calls[r].event \notin Unreadable /\ ~QuotaLeft /\ Reply(r, "quota", 0)
     \/ calls[r].event \notin Unreadable /\ QuotaLeft /\ ~Target(list, calls[r].change) /\ Reply(r, "target_deleted", 0)
     \/ /\ calls[r].event \notin Unreadable /\ QuotaLeft /\ Target(list, calls[r].change)
        /\ calls' = [calls EXCEPT ![r].status = "stored", ![r].stored = TRUE]
  /\ UNCHANGED <<asked, listVars, storeVars>>

\* The transaction finds no prior event: its snapshot is of this revision.
Look(r) ==
  /\ calls[r].status = IF calls[r].change.kind = "upload_photo" THEN "stored" ELSE "received"
  /\ Prior(calls[r].event) = {}
  /\ calls' = [calls EXCEPT ![r].status = "looked", ![r].view = Revision]
  /\ UNCHANGED <<asked, listVars, storeVars>>

\* Fault: the lock does not compare the row with the snapshot.
LockedAnyway(r) == TRUE

\* SELECT ... FOR UPDATE of the state row.
Locked(r) == calls[r].view = Revision

Current(r) == calls[r].change.kind \in StatusKinds => calls[r].base = generation

\* The list that revision n left behind.
ListAt(n) == IF n = 0 THEN FirstList ELSE log[n].list
GenerationAt(n) == IF n = 0 THEN 1 ELSE log[n].generation

\* Fault: with an item go the files of its whole bag.
FilesOfBag(c) ==
  CASE c.kind = "delete_item"  -> PhotosOf(Home(list, c.target))
    [] c.kind = "upload_photo" -> {}
    [] OTHER -> PhotoIds(list) \ PhotoIds(Applied(list, 0, c))

\* The files whose rows a change deletes.
FilesOf(c) == IF c.kind = "upload_photo" THEN {} ELSE PhotoIds(list) \ PhotoIds(Applied(list, 0, c))

\* applyOperation, the revision, the event with its answer, COMMIT.  The updates
\* act on the rows as they are, the answer is read from the snapshot.  (The unique
\* index on the event is never met, as the lock fails first.)
CommitChange(r) ==
  LET e == calls[r].event
      c == calls[r].change
  IN  /\ calls[r].status = "looked"
      /\ Locked(r) /\ Current(r) /\ Target(list, c)
      /\ list' = Applied(list, e, c)
      /\ generation' = GenerationAfter(generation, c)
      /\ log' = Append(log, [event |-> e, change |-> c, base |-> calls[r].base,
                             generation |-> generation', list |-> Applied(ListAt(calls[r].view), e, c)])
      /\ files' = IF calls[r].stored THEN files \cup {e} ELSE files
      /\ calls' = [calls EXCEPT ![r].status = "cleaning", ![r].stored = FALSE,
                            ![r].doomed = FilesOf(c), ![r].answer = Len(log')]
      /\ UNCHANGED <<asked, orphans>>

\* The lock fails, the list was reset, or the target is gone: ROLLBACK.
RefuseChange(r) ==
  /\ calls[r].status = "looked"
  /\ \/ ~Locked(r) /\ Reply(r, "error", 0)
     \/ Locked(r) /\ ~Current(r) /\ Reply(r, "generation_conflict", 0)
     \/ Locked(r) /\ Current(r) /\ ~Target(list, calls[r].change) /\ Reply(r, "target_deleted", 0)
  /\ UNCHANGED <<asked, listVars, storeVars>>

\* applyPackingOperation removes the files whose rows are gone, and answers.
Clean(r) ==
  /\ calls[r].status = "cleaning"
  /\ files' = files \ calls[r].doomed
  /\ calls' = [calls EXCEPT ![r].status = "applied", ![r].doomed = {}]
  /\ UNCHANGED <<asked, listVars, orphans>>

\* A database error before the commit.
FailChange(r) ==
  /\ calls[r].status \in {"received", "stored", "looked"}
  /\ Reply(r, "error", 0)
  /\ UNCHANGED <<asked, listVars, storeVars>>

\* The server stops: what it had stored without a row, and what it had not yet
\* removed, stays in the store.
Restart ==
  LET lost == Cardinality({r \in PackingRequests : calls[r].stored})
  IN  /\ orphans + lost <= MaxOrphans
      /\ \E r \in PackingRequests : calls[r].status \in {"received", "stored", "looked", "cleaning"}
      /\ orphans' = orphans + lost
      /\ calls' = [r \in PackingRequests |->
                   IF calls[r].status = "idle" THEN calls[r] ELSE [IdleRequest EXCEPT !.status = "error", !.event = calls[r].event]]
      /\ UNCHANGED <<asked, listVars, files>>

FinishChange(r) ==
  /\ calls[r].status \in Answers
  /\ calls' = [calls EXCEPT ![r] = IdleRequest]

PackingServe(r) ==
  Forbid(r) \/ ReplayChange(r) \/ Store(r) \/ Look(r) \/ CommitChange(r) \/ RefuseChange(r) \/ Clean(r) \/ FailChange(r)

PackingInit ==
  /\ asked = [e \in Changes |-> NoChange]
  /\ list = FirstList
  /\ generation = 1
  /\ log = <<>>
  /\ files = PhotoIds(FirstList)
  /\ orphans = 0
  /\ calls = [r \in PackingRequests |-> IdleRequest]

\* Devices that know the server's present list or none of its later generations:
\* an event asks for one change, sent any number of times.
Submit(r, e) ==
  /\ \E c \in IF asked[e] = NoChange THEN Offered(list) ELSE {asked[e]}, base \in 1..generation :
       /\ asked' = [asked EXCEPT ![e] = c]
       /\ ReceiveChange(r, e, c, base)
  /\ UNCHANGED <<listVars, storeVars>>

PackingNext ==
  \/ \E r \in PackingRequests :
       \/ \E e \in Changes : Submit(r, e)
       \/ PackingServe(r)
       \/ FinishChange(r) /\ UNCHANGED <<asked, listVars, storeVars>>
  \/ Restart

PackingSpec == PackingInit /\ [][PackingNext]_packingVars

-----------------------------------------------------------------------------
(* Properties.                                                              *)

\* Each recorded answer is the list of its revision: the one before it with the
\* recorded change applied, whatever requests overlapped, and the rows are those
\* of the last revision (Apply and UploadPhoto under the lock).
AnswersAreRevisions ==
  /\ \A n \in DOMAIN log :
       /\ Target(ListAt(n - 1), log[n].change)
       /\ log[n].list = Applied(ListAt(n - 1), log[n].event, log[n].change)
       /\ log[n].generation = GenerationAfter(GenerationAt(n - 1), log[n].change)
  /\ list = ListAt(Revision)
  /\ generation = GenerationAt(Revision)

\* A bag shown as packed holds nothing that still has to be packed, through
\* every way of setting, adding, deleting, excluding and resetting.
PackedMeansPacked ==
  \A i \in DOMAIN list : list[i].status = "packed" =>
    \A j \in DOMAIN list[i].items : list[i].items[j].status # "open"

\* Every photo on the list has its file, through deletions, lost answers,
\* overlapping uploads of one photo and crashes of the server.
PhotosHaveFiles == PhotoIds(list) \subseteq files

Recorded(e) == {n \in DOMAIN log : log[n].event = e}

\* An event changes the list once, and its record stays: BookedOnce of the log.
Entered == INSTANCE BookedOnce WITH Events <- Changes, booked <- [e \in Changes |-> Recorded(e)]
AppliedOnce == Entered!Spec
=============================================================================
