--------------------------- MODULE OfflineProofs ---------------------------
(***************************************************************************)
(* Theorems about OfflineSales: a device with any number of tabs and sales *)
(* and the server it books on.  The server's part is SalesBooking, and     *)
(* what is proved of it there is carried over: the device's requests are   *)
(* requests like any other.                                                *)
(***************************************************************************)
EXTENDS OfflineSales, SalesBookingProofs

-----------------------------------------------------------------------------
(* The server.                                                              *)

\* The device sends what it proposed when the sale was made, on another day too.
Received ==
  \E r \in Requests, e \in Events, supplied \in Receipt \cup {NoReceipt} :
    ReceiveSale(r, e, NoToken, supplied)

LEMMA ServerStaysCorrect ==
  ASSUME Idempotent, [Next]_vars \/ Received
  PROVE  Idempotent'
<1>1. ASSUME NEW r \in Requests, NEW e \in Events, NEW supplied \in Receipt \cup {NoReceipt},
             ReceiveSale(r, e, NoToken, supplied)
      PROVE  Idempotent'
  <2>1. Typed'
    BY <1>1, ReceiveSaleTyped DEF Idempotent
  <2>2. EventBookedOnce' /\ SyncNamesBasket' /\ AnswersNameTheBasket'
    BY <1>1, ReceiveSaleIdempotent
  <2> QED
    BY <2>1, <2>2 DEF Idempotent
<1> QED
  BY <1>1, StepIdempotent DEF Received

\* An event stays booked.
LEMMA BookedForGood ==
  ASSUME [Next]_vars \/ Received
  PROVE  Booked \subseteq Booked'
<1>1. syncEvents \subseteq syncEvents'
  <2>1. ASSUME NEW r \in Requests, Commit(r) PROVE syncEvents \subseteq syncEvents'
    BY <2>1 DEF Commit
  <2>2. ASSUME NEW r \in Requests, Receive(r) \/ Serve(r) \/ Finish(r)
        PROVE  syncEvents \subseteq syncEvents'
    BY <2>1, <2>2 DEF Receive, ReceiveSale, ReceiveHistorical, ReceiveReservation, Serve,
       Replay, Begin, Allocate, Reserve, Fail, Finish
  <2>3. Background => UNCHANGED syncEvents
    BY DEF Background, CancelIntent, Expire, PurgeExpired, Midnight
  <2>4. Received => UNCHANGED syncEvents
    BY DEF Received, ReceiveSale
  <2> QED
    BY <2>2, <2>3, <2>4 DEF Next, vars
<1> QED
  BY <1>1 DEF Booked

\* A success the device hears of is a booking.
LEMMA SuccessIsBooked ==
  ASSUME Idempotent, NEW r \in Requests, NEW e \in Events, req[r].event = e,
         Succeeded(req[r].status)
  PROVE  e \in Booked
BY DeviceAssumption DEF Succeeded, Idempotent, AnswersNameTheBasket, EventBookedOnce

-----------------------------------------------------------------------------
(* The device.                                                              *)

First == [state : {"unsold", "sent", "done"}, tab : Tabs \cup {NoSlot},
          slot : Requests \cup {NoSlot}]
Flush == [pc : {"idle", "next", "sent", "read", "write"}, todo : SUBSET Events,
          event : Events \cup {NoEvent}, slot : Requests \cup {NoSlot},
          permanent : BOOLEAN]

\* A flush that has an entry in hand.
InHand(f) == f.pc \in {"sent", "read", "write"}

FirstTyped ==
  /\ first \in [Events -> First]
  /\ \A e \in Events : first[e].state = "sent" => first[e].tab \in Tabs /\ first[e].slot \in Requests

\* A record of a flush, complete for the point it got to.
Complete(f) ==
  /\ f \in Flush
  /\ InHand(f) => f.event \in Events
  /\ f.pc = "sent" => f.slot \in Requests

FlushTyped == flush \in [Tabs -> Flush] /\ \A t \in Tabs : Complete(flush[t])

DeviceTyped ==
  /\ sold \in [Events -> Receipt \cup {NoReceipt}]
  /\ outbox \in [Events -> {"none", "pending", "failed"}]
  /\ told \in [Events -> {"nothing", "booked", "queued", "refused"}]
  /\ FirstTyped /\ FlushTyped

\* The records of the device keep their shape.
LEMMA FlushMoves ==
  ASSUME FlushTyped, NEW t \in Tabs, NEW f, Complete(f),
         flush' = [flush EXCEPT ![t] = f]
  PROVE  FlushTyped'
BY DEF FlushTyped, Complete

LEMMA RestingComplete == Complete(Resting)
BY DEF Resting, Flush, Complete, InHand

LEMMA StartComplete ==
  ASSUME NEW f, Complete(f)
  PROVE  Complete(StartFlush(f))
<1>1. Pending \in SUBSET Events
  BY DEF Pending
<1> QED
  BY <1>1 DEF StartFlush, Resting, Flush, Complete, InHand

LEMMA AfterMarkComplete ==
  ASSUME NEW f, Complete(f)
  PROVE  Complete(AfterMark(f))
BY DEF AfterMark, Resting, Flush, Complete, InHand

LEMMA OldestIsOldest ==
  ASSUME NEW todo \in SUBSET Events, todo # {}
  PROVE  Oldest(todo) \in todo /\ \A d \in todo : Oldest(todo) <= d
<1>1. todo \in SUBSET Nat
  BY DeviceAssumption
<1>2. PICK e \in todo : \A d \in todo : ~ (<<d, e>> \in OpToRel(<, Nat))
  BY <1>1, NatLessThanWellFounded, WFMin
<1>3. \A d \in todo : ~ (d < e)
  BY <1>1, <1>2 DEF OpToRel
<1>4. \A d \in todo : e <= d
  BY <1>1, <1>3
<1> QED
  BY <1>4 DEF Oldest

\* The sales page.
LEMMA SellingTyped ==
  ASSUME Idempotent, DeviceTyped, Selling
  PROVE  DeviceTyped'
<1> USE DEF DeviceTyped, FirstTyped, FlushTyped
<1>0. Previews(today) \subseteq Receipt \cup {NoReceipt}
  BY PreviewsTyped DEF Idempotent, Typed, TypeOK
<1>1. ASSUME NEW e \in Events, Queue(e)
      PROVE  /\ outbox' \in [Events -> {"none", "pending", "failed"}]
             /\ told' \in [Events -> {"nothing", "booked", "queued", "refused"}]
  BY <1>1 DEF Queue
<1>2. ASSUME NEW e \in Events, NEW state \in {"sent", "done"}, NEW t \in Tabs,
             NEW slot \in Requests \cup {NoSlot}, state = "sent" => slot \in Requests,
             first' = [first EXCEPT ![e] = [state |-> state, tab |-> t, slot |-> slot]]
      PROVE  FirstTyped'
  BY <1>2 DEF First
<1>3. ASSUME NEW t \in Tabs, NEW e \in Events, Sell(t, e)
      PROVE  DeviceTyped'
  <2>1. sold' \in [Events -> Receipt \cup {NoReceipt}] /\ UNCHANGED flush
    BY <1>0, <1>3 DEF Sell
  <2>2. FirstTyped'
    BY <1>2, <1>3 DEF Sell
  <2>3. /\ outbox' \in [Events -> {"none", "pending", "failed"}]
        /\ told' \in [Events -> {"nothing", "booked", "queued", "refused"}]
    BY <1>1, <1>3 DEF Sell
  <2> QED
    BY <2>1, <2>2, <2>3
<1>4. ASSUME NEW t \in Tabs, NEW e \in Events, SellPractice(t, e)
      PROVE  DeviceTyped'
  <2>1. sold' \in [Events -> Receipt \cup {NoReceipt}] /\ UNCHANGED flush
    BY <1>0, <1>4 DEF SellPractice
  <2>2. FirstTyped'
    BY <1>2, <1>4 DEF SellPractice
  <2>3. /\ outbox' \in [Events -> {"none", "pending", "failed"}]
        /\ told' \in [Events -> {"nothing", "booked", "queued", "refused"}]
    BY <1>1, <1>4 DEF SellPractice
  <2> QED
    BY <2>1, <2>2, <2>3
<1>5. ASSUME NEW e \in Events, ViewAnswer(e) \/ ViewLost(e)
      PROVE  DeviceTyped'
  <2>1. UNCHANGED <<flush, sold>>
    BY <1>5 DEF ViewAnswer, ViewLost
  <2>2. FirstTyped'
    BY <1>5 DEF ViewAnswer, ViewLost, First
  <2>3. /\ outbox' \in [Events -> {"none", "pending", "failed"}]
        /\ told' \in [Events -> {"nothing", "booked", "queued", "refused"}]
    BY <1>1, <1>5 DEF ViewAnswer, ViewLost
  <2> QED
    BY <2>1, <2>2, <2>3
<1> QED
  BY <1>3, <1>4, <1>5 DEF Selling

\* The flushes.
LEMMA FlushingTyped ==
  ASSUME DeviceTyped, NEW t \in Tabs, Flushing(t)
  PROVE  DeviceTyped'
<1> DEFINE f == flush[t]
<1>0. f \in Flush /\ Complete(f) /\ UNCHANGED <<sold, first, told>>
  BY DEF DeviceTyped, FlushTyped, Flushing, TakeNext, FlushAnswer, FlushLost, MarkRead, MarkWrite
<1>1. ASSUME NEW g, Complete(g), flush' = [flush EXCEPT ![t] = g],
             outbox' \in [Events -> {"none", "pending", "failed"}]
      PROVE  DeviceTyped'
  <2>1. FlushTyped'
    BY <1>1, FlushMoves DEF DeviceTyped
  <2> QED
    BY <1>0, <1>1, <2>1 DEF DeviceTyped, FirstTyped
<1>2. outbox \in [Events -> {"none", "pending", "failed"}]
  BY DEF DeviceTyped
<1>3. CASE TakeNext(t)
  <2>1. CASE f.todo = {}
    BY <1>1, <1>2, <1>3, <2>1, RestingComplete DEF TakeNext
  <2>2. CASE f.todo # {}
    <3> DEFINE e == Oldest(f.todo)
               taken == [f EXCEPT !.todo = @ \ {e}, !.event = e]
               marked(permanent) == [taken EXCEPT !.pc = "read", !.permanent = permanent]
               sent(r) == [taken EXCEPT !.pc = "sent", !.slot = r]
    <3>1. e \in Events
      BY <1>0, <2>2, OldestIsOldest DEF Flush
    <3>2. taken \in Flush /\ taken.event = e /\ taken.pc = "next"
      BY <1>0, <1>3, <3>1 DEF Flush, TakeNext
    <3>3. Complete(taken)
      BY <3>1, <3>2 DEF Complete, InHand
    <3>4. \A permanent \in BOOLEAN : Complete(marked(permanent))
      BY <3>1, <3>2 DEF Flush, Complete, InHand
    <3>5. \A r \in Requests : Complete(sent(r))
      BY <3>1, <3>2 DEF Flush, Complete, InHand
    <3>6. \/ \E r \in Requests : flush' = [flush EXCEPT ![t] = sent(r)] /\ UNCHANGED outbox
          \/ flush' = [flush EXCEPT ![t] = taken] /\ outbox' = [outbox EXCEPT ![e] = "none"]
          \/ \E permanent \in BOOLEAN :
               flush' = [flush EXCEPT ![t] = marked(permanent)] /\ UNCHANGED outbox
      BY <1>3, <2>2 DEF TakeNext
    <3> HIDE DEF taken, e, sent, marked
    <3> QED
      BY <1>1, <1>2, <3>1, <3>3, <3>4, <3>5, <3>6
  <2> QED
    BY <2>1, <2>2
<1>4. CASE FlushAnswer(t)
  <2> DEFINE status == req[f.slot].status
             settled == [f EXCEPT !.pc = "next", !.slot = NoSlot]
             refused == [f EXCEPT !.pc = "read", !.slot = NoSlot, !.permanent = Final(status)]
  <2>1. f.event \in Events
    BY <1>0, <1>4 DEF FlushAnswer, Complete, InHand
  <2>2. Complete(settled)
    BY <1>0, <2>1 DEF Flush, Complete, InHand
  <2>3. Complete(refused)
    <3>1. Final(status) \in BOOLEAN
      BY DEF Final
    <3> QED
      BY <1>0, <2>1, <3>1 DEF Flush, Complete, InHand
  <2>4. \/ outbox' = [outbox EXCEPT ![f.event] = "none"] /\ flush' = [flush EXCEPT ![t] = settled]
        \/ outbox' = outbox /\ flush' = [flush EXCEPT ![t] = refused]
    BY <1>4 DEF FlushAnswer
  <2> HIDE DEF settled, refused, f
  <2> QED
    BY <1>1, <1>2, <2>1, <2>2, <2>3, <2>4
<1>5. CASE FlushLost(t)
  <2> DEFINE g == [f EXCEPT !.pc = "read", !.slot = NoSlot, !.permanent = FALSE]
  <2>1. Complete(g)
    BY <1>0, <1>5 DEF FlushLost, Flush, Complete, InHand
  <2>2. flush' = [flush EXCEPT ![t] = g] /\ UNCHANGED outbox
    BY <1>5 DEF FlushLost
  <2> HIDE DEF g
  <2> QED
    BY <1>1, <1>2, <2>1, <2>2
<1>6. CASE MarkRead(t)
  <2> DEFINE g == IF outbox[f.event] = "none" THEN AfterMark(f) ELSE [f EXCEPT !.pc = "write"]
  <2>1. Complete([f EXCEPT !.pc = "write"])
    BY <1>0, <1>6 DEF MarkRead, Flush, Complete, InHand
  <2>2. Complete(g)
    BY <1>0, <2>1, AfterMarkComplete
  <2>3. flush' = [flush EXCEPT ![t] = g] /\ UNCHANGED outbox
    BY <1>6 DEF MarkRead
  <2> HIDE DEF g
  <2> QED
    BY <1>1, <1>2, <2>2, <2>3
<1>7. CASE MarkWrite(t)
  <2>1. /\ flush' = [flush EXCEPT ![t] = AfterMark(f)]
        /\ outbox' \in [Events -> {"none", "pending", "failed"}]
    BY <1>0, <1>2, <1>7 DEF MarkWrite
  <2> QED
    BY <1>0, <1>1, <2>1, AfterMarkComplete
<1> QED
  BY <1>3, <1>4, <1>5, <1>6, <1>7 DEF Flushing

LEMMA ReloadTyped ==
  ASSUME DeviceTyped, NEW t \in Tabs, Reload(t)
  PROVE  DeviceTyped'
<1>1. FirstTyped'
  BY DEF Reload, DeviceTyped, FirstTyped, First
<1>2. Complete(Resting) /\ Complete(StartFlush(Resting))
  BY RestingComplete, StartComplete
<1>3. FlushTyped'
  BY <1>2, FlushMoves DEF Reload, DeviceTyped
<1> QED
  BY <1>1, <1>3 DEF DeviceTyped, Reload

LEMMA LinkTyped ==
  ASSUME DeviceTyped, LinkChanges
  PROVE  DeviceTyped'
<1>1. \A t \in Tabs : Complete(StartFlush(flush[t]))
  BY StartComplete DEF DeviceTyped, FlushTyped
<1>2. flush' = flush \/ flush' = [t \in Tabs |-> StartFlush(flush[t])]
  BY DEF LinkChanges
<1>3. FlushTyped'
  <2>1. CASE flush' = flush
    BY <2>1 DEF DeviceTyped, FlushTyped
  <2>2. CASE flush' = [t \in Tabs |-> StartFlush(flush[t])]
    <3>1. flush' \in [Tabs -> Flush]
      BY <1>1, <2>2 DEF Complete
    <3> QED
      BY <1>1, <2>2, <3>1 DEF FlushTyped
  <2> QED
    BY <1>2, <2>1, <2>2
<1> QED
  BY <1>3 DEF LinkChanges, DeviceTyped, FirstTyped

LEMMA TapTyped ==
  ASSUME DeviceTyped, NEW t \in Tabs, Tap(t)
  PROVE  DeviceTyped'
<1>1. Complete(StartFlush(flush[t]))
  BY StartComplete DEF DeviceTyped, FlushTyped
<1>2. FlushTyped'
  BY <1>1, FlushMoves DEF Tap, DeviceTyped
<1> QED
  BY <1>2 DEF DeviceTyped, FirstTyped, Tap

LEMMA DeviceStaysTyped ==
  ASSUME Idempotent, DeviceTyped, [SystemNext]_systemVars
  PROVE  DeviceTyped'
<1>1. CASE UNCHANGED <<sold, first, told, outbox, flush>>
  BY <1>1 DEF DeviceTyped, FirstTyped, FlushTyped
<1>2. ASSUME NEW t \in Tabs, SwitchMode(t) PROVE DeviceTyped'
  BY <1>1, <1>2 DEF SwitchMode
<1>3. ASSUME NEW r \in Requests, Discard(r) PROVE DeviceTyped'
  BY <1>1, <1>3 DEF Discard, device
<1>4. CASE Serving \/ UNCHANGED systemVars
  BY <1>1, <1>4 DEF Serving, device, systemVars
<1> QED
  BY <1>2, <1>3, <1>4, SellingTyped, TapTyped, FlushingTyped, ReloadTyped, LinkTyped DEF SystemNext

\* A step of the system is a step of the server, or one of the device alone.
LEMMA ServerSteps ==
  ASSUME Idempotent, DeviceTyped, [SystemNext]_systemVars
  PROVE  [Next]_vars \/ Received
<1>1. ASSUME NEW r \in Requests, Finish(r)
      PROVE  [Next]_vars \/ Received
  BY <1>1 DEF Next
<1>2. ASSUME UNCHANGED vars
      PROVE  [Next]_vars \/ Received
  BY <1>2
<1>3. CASE Selling
  <2>1. Previews(today) \subseteq Receipt \cup {NoReceipt}
    BY PreviewsTyped DEF Idempotent, Typed, TypeOK
  <2>2. ASSUME NEW t \in Tabs, NEW e \in Events, Sell(t, e)
        PROVE  [Next]_vars \/ Received
    BY <1>2, <2>1, <2>2 DEF Sell, Received
  <2>3. ASSUME NEW e \in Events, ViewAnswer(e)
        PROVE  [Next]_vars \/ Received
    BY <1>1, <2>3 DEF ViewAnswer, DeviceTyped, FirstTyped
  <2> QED
    BY <1>2, <1>3, <2>2, <2>3 DEF Selling, SellPractice, ViewLost
<1>4. ASSUME NEW t \in Tabs, Flushing(t)
      PROVE  [Next]_vars \/ Received
  <2>1. CASE TakeNext(t)
    <3>1. CASE flush[t].todo = {}
      BY <1>2, <2>1, <3>1 DEF TakeNext
    <3>2. CASE flush[t].todo # {}
      <4>1. Oldest(flush[t].todo) \in Events
        BY <3>2, OldestIsOldest DEF DeviceTyped, FlushTyped, Flush
      <4>2. sold[Oldest(flush[t].todo)] \in Receipt \cup {NoReceipt}
        BY <4>1 DEF DeviceTyped
      <4> QED
        BY <1>2, <2>1, <3>2, <4>1, <4>2 DEF TakeNext, Received
    <3> QED
      BY <3>1, <3>2
  <2>2. CASE FlushAnswer(t)
    BY <1>1, <2>2 DEF FlushAnswer, DeviceTyped, FlushTyped, Complete
  <2> QED
    BY <1>2, <1>4, <2>1, <2>2 DEF Flushing, FlushLost, MarkRead, MarkWrite
<1>5. CASE Serving
  BY <1>5 DEF Serving, Next
<1>6. ASSUME NEW t \in Tabs, Tap(t) \/ Reload(t) \/ SwitchMode(t)
      PROVE  [Next]_vars \/ Received
  BY <1>2, <1>6 DEF Tap, Reload, SwitchMode
<1>7. ASSUME NEW r \in Requests, Discard(r)
      PROVE  [Next]_vars \/ Received
  BY <1>1, <1>7 DEF Discard
<1>8. CASE LinkChanges \/ UNCHANGED systemVars
  BY <1>2, <1>8 DEF LinkChanges, systemVars
<1> QED
  BY <1>3, <1>4, <1>5, <1>6, <1>7, <1>8 DEF SystemNext

\* The server and the device, each in order.
Sound == Idempotent /\ DeviceTyped

LEMMA InitSound == SystemInit => Sound
<1> SUFFICES ASSUME SystemInit PROVE Sound
  OBVIOUS
<1>1. FirstTyped
  BY DEF SystemInit, FirstTyped, First, Unsold
<1>2. FlushTyped
  BY RestingComplete DEF SystemInit, FlushTyped, Complete
<1> QED
  BY <1>1, <1>2, InitIdempotent DEF SystemInit, Sound, DeviceTyped

LEMMA StepSound == Sound /\ [SystemNext]_systemVars => Sound'
BY DeviceStaysTyped, ServerSteps, ServerStaysCorrect DEF Sound

-----------------------------------------------------------------------------
(* The order of the queue.  With one tab a flush meets no other flush, and   *)
(* what is queued while it runs was sold after everything it has to decide.  *)

OneTab == \A t, u \in Tabs : t = u

Sold(e) == first[e].state # "unsold"

\* The entries a flush has still to decide.
Turn(f) == f.todo \cup (IF InHand(f) THEN {f.event} ELSE {})

\* Sales are made in their order, one delivery at a time, and only what was sold
\* is queued.
SoldInOrder ==
  /\ \A d, e \in Events : d < e /\ Sold(e) => Sold(d)
  /\ \A d, e \in Events : first[e].state = "sent" /\ Sold(d) => d <= e
  /\ \A e \in Events : outbox[e] # "none" => Sold(e)
  /\ \A t \in Tabs : \A e \in Turn(flush[t]) : Sold(e)

\* The entry in hand is the oldest of its flush, and what waits without the flush
\* knowing of it is younger than all it has to decide.
Ordered(f, pending) ==
  /\ InHand(f) => \A e \in f.todo : f.event <= e
  /\ f.pc # "idle" =>
       \A d \in pending : d \in Turn(f) \/ \A e \in Turn(f) : e <= d

TakenInOrder == \A t \in Tabs : Ordered(flush[t], Pending)

Orderly == Sound /\ SoldInOrder /\ TakenInOrder

LEMMA TurnTyped ==
  ASSUME NEW f, Complete(f)
  PROVE  Turn(f) \in SUBSET Nat /\ Turn(f) \subseteq Events /\ f.todo \subseteq Turn(f)
<1>1. f.todo \in SUBSET Events
  BY DEF Complete, Flush
<1>2. InHand(f) => f.event \in Events
  BY DEF Complete
<1> QED
  BY <1>1, <1>2, DeviceAssumption DEF Turn

\* The page queues what is younger than anything sold before.
LEMMA YoungerQueued ==
  ASSUME Orderly, NEW e \in Events, UNCHANGED flush, Pending' \subseteq Pending \cup {e},
         \A t \in Tabs : \A x \in Turn(flush[t]) : x <= e
  PROVE  TakenInOrder'
BY DEF Orderly, TakenInOrder, Ordered

\* A sale begins: everything sold before is older.
LEMMA SaleBegins ==
  ASSUME OneTab, Orderly, NEW t \in Tabs, NEW e \in Events, ~Busy(t), NextSale(e),
         NEW q \in First, q.state # "unsold",
         first' = [first EXCEPT ![e] = q],
         UNCHANGED flush, \A d \in Events : d # e => outbox'[d] = outbox[d]
  PROVE  SoldInOrder' /\ TakenInOrder'
<1>0. /\ Events \subseteq Nat /\ first \in [Events -> First]
      /\ \A u \in Tabs : Complete(flush[u])
  BY DeviceAssumption DEF Orderly, Sound, DeviceTyped, FirstTyped, FlushTyped
<1>1. \A d \in Events : Sold(d)' <=> Sold(d) \/ d = e
  BY <1>0 DEF Sold
<1>2. \A d \in Events : Sold(d) => d < e
  BY <1>0 DEF NextSale, Sold, Orderly, SoldInOrder
<1>3. \A d \in Events : first[d].state # "sent"
  BY DEF Busy, OneTab, Orderly, Sound, DeviceTyped, FirstTyped
<1>4. \A d, c \in Events : d < c /\ Sold(c)' => Sold(d)'
  BY <1>0, <1>1, <1>2 DEF NextSale, Sold, Orderly, SoldInOrder
<1>5. \A d, c \in Events : first'[c].state = "sent" /\ Sold(d)' => d <= c
  <2>1. SUFFICES ASSUME NEW d \in Events, NEW c \in Events,
                        first'[c].state = "sent", Sold(d)'
                 PROVE  d <= c
    OBVIOUS
  <2>2. first'[c].state = first[c].state \/ c = e
    BY <1>0
  <2>3. c = e
    BY <1>3, <2>1, <2>2
  <2>4. d < e \/ d = e
    BY <1>1, <1>2, <2>1
  <2>5. d \in Nat /\ e \in Nat
    BY <1>0
  <2> QED
    BY <2>3, <2>4, <2>5
<1>6. \A d \in Events : outbox'[d] # "none" => Sold(d)'
  BY <1>1 DEF Orderly, SoldInOrder
<1>7. \A u \in Tabs : \A x \in Turn(flush[u]) : x \in Events /\ Sold(x)
  BY <1>0, TurnTyped DEF Orderly, SoldInOrder
<1>8. \A u \in Tabs : \A x \in Turn(flush'[u]) : Sold(x)'
  BY <1>1, <1>7
<1>9. SoldInOrder'
  BY <1>4, <1>5, <1>6, <1>8 DEF SoldInOrder
<1>10. Pending' \subseteq Pending \cup {e}
  BY DEF Pending
<1>11. \A u \in Tabs : \A x \in Turn(flush[u]) : x <= e
  <2>1. \A x \in Events : x < e => x <= e
    BY <1>0
  <2> QED
    BY <1>2, <1>7, <2>1
<1> QED
  BY <1>9, <1>10, <1>11, YoungerQueued

\* A delivery ends: it was the last sale made.
LEMMA SaleEnds ==
  ASSUME Orderly, NEW e \in Events, first[e].state = "sent",
         first' = [first EXCEPT ![e].state = "done", ![e].slot = NoSlot],
         UNCHANGED flush, \A d \in Events : d # e => outbox'[d] = outbox[d]
  PROVE  SoldInOrder' /\ TakenInOrder'
<1>0. first \in [Events -> First] /\ \A u \in Tabs : Complete(flush[u])
  BY DEF Orderly, Sound, DeviceTyped, FirstTyped, FlushTyped
<1>1. \A d \in Events : Sold(d)' <=> Sold(d)
  BY <1>0 DEF Sold, First
<1>2. \A d \in Events : first'[d].state = "sent" => first[d].state = "sent"
  BY <1>0 DEF First
<1>3. \A u \in Tabs : \A x \in Turn(flush[u]) : x \in Events /\ Sold(x)
  BY <1>0, TurnTyped DEF Orderly, SoldInOrder
<1>4. Sold(e)
  BY DEF Sold
<1>5. \A d \in Events : outbox'[d] # "none" => Sold(d)'
  BY <1>1, <1>4 DEF Orderly, SoldInOrder
<1>6. SoldInOrder'
  BY <1>1, <1>2, <1>3, <1>5 DEF Orderly, SoldInOrder
<1>7. Pending' \subseteq Pending \cup {e}
  BY DEF Pending
<1>8. \A u \in Tabs : \A x \in Turn(flush[u]) : x <= e
  BY <1>3 DEF Orderly, SoldInOrder
<1> QED
  BY <1>6, <1>7, <1>8, YoungerQueued

\* The only flush moves on, and decides at most entries it has to.
LEMMA FlushOrdered ==
  ASSUME OneTab, Orderly, NEW t \in Tabs, NEW g, flush' = [flush EXCEPT ![t] = g],
         \A e \in Events : Sold(e) => Sold(e)',
         \A e \in Events : first'[e].state = "sent" => first[e].state = "sent",
         \A e \in Events : Sold(e)' => Sold(e),
         \A e \in Events : outbox'[e] # "none" => Sold(e),
         \A e \in Turn(g) : e \in Events /\ Sold(e),
         Ordered(g, Pending')
  PROVE  SoldInOrder' /\ TakenInOrder'
<1>1. \A u \in Tabs : flush'[u] = g
  BY DEF OneTab, Orderly, Sound, DeviceTyped, FlushTyped
<1>2. TakenInOrder'
  BY <1>1 DEF TakenInOrder
<1>3. \A u \in Tabs : \A x \in Turn(flush'[u]) : Sold(x)'
  BY <1>1
<1>4. SoldInOrder'
  BY <1>3 DEF Orderly, SoldInOrder
<1> QED
  BY <1>2, <1>4

\* A flush starts with everything that waits.
LEMMA StartOrdered ==
  ASSUME Orderly, NEW f, Ordered(f, Pending), \A e \in Turn(f) : e \in Events /\ Sold(e)
  PROVE  /\ Ordered(StartFlush(f), Pending)
         /\ \A e \in Turn(StartFlush(f)) : e \in Events /\ Sold(e)
<1>1. CASE f.pc # "idle"
  BY <1>1 DEF StartFlush
<1>2. CASE f.pc = "idle"
  <2>1. StartFlush(f).pc = "next" /\ StartFlush(f).todo = Pending
    BY <1>2 DEF StartFlush, Resting
  <2>2. \A e \in Pending : e \in Events /\ Sold(e)
    BY DEF Pending, Orderly, SoldInOrder
  <2> HIDE DEF StartFlush
  <2> QED
    BY <2>1, <2>2 DEF Ordered, Turn, InHand
<1> QED
  BY <1>1, <1>2

LEMMA RestingOrdered ==
  ASSUME NEW pending
  PROVE  Ordered(Resting, pending) /\ Turn(Resting) = {}
BY DEF Ordered, Turn, Resting, InHand

LEMMA SellingOrderly ==
  ASSUME OneTab, Orderly, Selling
  PROVE  SoldInOrder' /\ TakenInOrder'
<1>1. ASSUME NEW t \in Tabs, NEW e \in Events, Sell(t, e) \/ SellPractice(t, e)
      PROVE  SoldInOrder' /\ TakenInOrder'
  <2>1. /\ ~Busy(t) /\ NextSale(e) /\ UNCHANGED flush
        /\ \A d \in Events : d # e => outbox'[d] = outbox[d]
    BY <1>1 DEF Sell, SellPractice, Queue, Orderly, Sound, DeviceTyped
  <2>2. \E r \in Requests \cup {NoSlot}, state \in {"sent", "done"} :
          first' = [first EXCEPT ![e] = [state |-> state, tab |-> t, slot |-> r]]
    BY <1>1 DEF Sell, SellPractice
  <2>3. \A r \in Requests \cup {NoSlot}, state \in {"sent", "done"} :
          [state |-> state, tab |-> t, slot |-> r] \in First
    BY DEF First
  <2> QED
    BY <2>1, <2>2, <2>3, SaleBegins
<1>2. ASSUME NEW e \in Events, ViewAnswer(e) \/ ViewLost(e)
      PROVE  SoldInOrder' /\ TakenInOrder'
  <2>1. /\ first[e].state = "sent" /\ UNCHANGED flush
        /\ first' = [first EXCEPT ![e].state = "done", ![e].slot = NoSlot]
        /\ \A d \in Events : d # e => outbox'[d] = outbox[d]
    BY <1>2 DEF ViewAnswer, ViewLost, Queue, Orderly, Sound, DeviceTyped
  <2> QED
    BY <2>1, SaleEnds
<1> QED
  BY <1>1, <1>2 DEF Selling

\* One entry after the other: each step of a flush takes the oldest entry in hand,
\* or lets it go.
LEMMA FlushingOrderly ==
  ASSUME OneTab, Orderly, NEW t \in Tabs, Flushing(t)
  PROVE  SoldInOrder' /\ TakenInOrder'
<1> DEFINE f == flush[t]
<1>0. /\ f \in Flush /\ Complete(f) /\ Ordered(f, Pending) /\ UNCHANGED first
      /\ f.pc \in {"next", "sent", "read", "write"}
      /\ outbox \in [Events -> {"none", "pending", "failed"}]
  BY DEF Orderly, Sound, DeviceTyped, FlushTyped, TakenInOrder, Flushing, TakeNext, FlushAnswer,
         FlushLost, MarkRead, MarkWrite
<1>1. \A e \in Turn(f) : e \in Events /\ Sold(e)
  BY <1>0, TurnTyped DEF Orderly, SoldInOrder
<1>2. ASSUME NEW g, flush' = [flush EXCEPT ![t] = g], Turn(g) \subseteq Turn(f),
             Ordered(g, Pending'), \A e \in Events : outbox'[e] # "none" => Sold(e)
      PROVE  SoldInOrder' /\ TakenInOrder'
  <2>1. \A e \in Events : Sold(e)' <=> Sold(e)
    BY <1>0 DEF Sold
  <2>2. \A e \in Turn(g) : e \in Events /\ Sold(e)
    BY <1>1, <1>2
  <2> QED
    BY <1>0, <1>2, <2>1, <2>2, FlushOrdered
<1>3. ASSUME NEW e \in Turn(f), NEW state \in {"none", "pending", "failed"},
             outbox' = [outbox EXCEPT ![e] = state]
      PROVE  /\ \A d \in Events : outbox'[d] # "none" => Sold(d)
             /\ state # "pending" => Pending' = Pending \ {e}
  <2>1. e \in Events /\ Sold(e)
    BY <1>1
  <2> QED
    BY <1>0, <1>3, <2>1 DEF Pending, Orderly, SoldInOrder
<1>4. ASSUME UNCHANGED outbox
      PROVE  /\ \A d \in Events : outbox'[d] # "none" => Sold(d)
             /\ Pending' = Pending
  BY <1>4 DEF Pending, Orderly, SoldInOrder
\* The entry in hand is decided and does not wait any more.
<1>5. ASSUME NEW g \in Flush, InHand(f), g.pc = "next", g.todo = f.todo,
             flush' = [flush EXCEPT ![t] = g],
             Pending' \subseteq Pending, f.event \notin Pending',
             \A d \in Events : outbox'[d] # "none" => Sold(d)
      PROVE  SoldInOrder' /\ TakenInOrder'
  <2>1. Turn(g) = f.todo /\ Turn(f) = f.todo \cup {f.event}
    BY <1>5 DEF Turn, InHand
  <2>2. Ordered(g, Pending')
    BY <1>0, <1>5, <2>1 DEF Ordered, InHand
  <2> QED
    BY <1>2, <1>5, <2>1, <2>2
\* The flush goes on with the entry in hand.
<1>6. ASSUME NEW g \in Flush, InHand(f), InHand(g), g.todo = f.todo, g.event = f.event,
             flush' = [flush EXCEPT ![t] = g], UNCHANGED outbox
      PROVE  SoldInOrder' /\ TakenInOrder'
  <2>1. Turn(g) = Turn(f)
    BY <1>6 DEF Turn
  <2>2. Ordered(g, Pending')
    BY <1>0, <1>4, <1>6, <2>1 DEF Ordered
  <2> QED
    BY <1>2, <1>4, <1>6, <2>1, <2>2
\* The flush stops.
<1>7. ASSUME flush' = [flush EXCEPT ![t] = Resting],
             \A e \in Events : outbox'[e] # "none" => Sold(e)
      PROVE  SoldInOrder' /\ TakenInOrder'
  BY <1>2, <1>7, RestingOrdered
<1>8. InHand(f) => f.event \in Turn(f)
  BY DEF Turn
<1>9. CASE TakeNext(t)
  <2>0. f.pc = "next" /\ Turn(f) = f.todo
    BY <1>9 DEF TakeNext, Turn, InHand
  <2>1. CASE f.todo = {}
    BY <1>4, <1>7, <1>9, <2>1 DEF TakeNext
  <2>2. CASE f.todo # {}
    <3> DEFINE e == Oldest(f.todo)
               taken == [f EXCEPT !.todo = @ \ {e}, !.event = e]
               marked(permanent) == [taken EXCEPT !.pc = "read", !.permanent = permanent]
               sent(r) == [taken EXCEPT !.pc = "sent", !.slot = r]
    <3>1. e \in f.todo /\ \A d \in f.todo : e <= d
      BY <1>0, <2>2, OldestIsOldest DEF Flush
    <3>2. /\ taken.todo = f.todo \ {e} /\ taken.event = e /\ taken.pc = "next"
      BY <1>0, <2>0 DEF Flush
    <3>3. ASSUME NEW g, InHand(g), g.todo = f.todo \ {e}, g.event = e,
                 flush' = [flush EXCEPT ![t] = g], UNCHANGED outbox
          PROVE  SoldInOrder' /\ TakenInOrder'
      <4>1. Turn(g) = Turn(f)
        BY <2>0, <3>1, <3>3 DEF Turn
      <4>2. Ordered(g, Pending')
        BY <1>0, <1>4, <2>0, <3>1, <3>3, <4>1 DEF Ordered
      <4> QED
        BY <1>2, <1>4, <3>3, <4>1, <4>2
    <3>4. \A permanent \in BOOLEAN :
            /\ InHand(marked(permanent)) /\ marked(permanent).todo = f.todo \ {e}
            /\ marked(permanent).event = e
      BY <1>0, <3>2 DEF Flush, InHand
    <3>5. \A r \in Requests :
            InHand(sent(r)) /\ sent(r).todo = f.todo \ {e} /\ sent(r).event = e
      BY <1>0, <3>2 DEF Flush, InHand
    <3>6. ASSUME flush' = [flush EXCEPT ![t] = taken], outbox' = [outbox EXCEPT ![e] = "none"]
          PROVE  SoldInOrder' /\ TakenInOrder'
      <4>1. Turn(taken) = f.todo \ {e}
        BY <3>2 DEF Turn, InHand
      <4>2. e \in Turn(f)
        BY <2>0, <3>1
      <4>3. Pending' = Pending \ {e} /\ \A d \in Events : outbox'[d] # "none" => Sold(d)
        BY <1>3, <3>6, <4>2
      <4> HIDE DEF taken, e
      <4>4. Ordered(taken, Pending')
        BY <1>0, <2>0, <3>2, <4>1, <4>3 DEF Ordered, InHand
      <4> QED
        BY <1>2, <2>0, <3>6, <4>1, <4>3, <4>4
    <3>7. \/ \E r \in Requests : flush' = [flush EXCEPT ![t] = sent(r)] /\ UNCHANGED outbox
          \/ flush' = [flush EXCEPT ![t] = taken] /\ outbox' = [outbox EXCEPT ![e] = "none"]
          \/ \E permanent \in BOOLEAN :
               flush' = [flush EXCEPT ![t] = marked(permanent)] /\ UNCHANGED outbox
      BY <1>9, <2>2 DEF TakeNext
    <3> HIDE DEF taken, e, sent, marked
    <3> QED
      BY <3>3, <3>4, <3>5, <3>6, <3>7
  <2> QED
    BY <2>1, <2>2
<1>10. CASE FlushAnswer(t)
  <2> DEFINE settled == [f EXCEPT !.pc = "next", !.slot = NoSlot]
             refused == [f EXCEPT !.pc = "read", !.slot = NoSlot,
                           !.permanent = Final(req[f.slot].status)]
  <2>0. InHand(f)
    BY <1>10 DEF FlushAnswer, InHand
  <2>1. settled \in Flush /\ settled.pc = "next" /\ settled.todo = f.todo
    BY <1>0 DEF Flush
  <2>2. Final(req[f.slot].status) \in BOOLEAN
    BY DEF Final
  <2>3. refused \in Flush /\ InHand(refused) /\ refused.todo = f.todo /\ refused.event = f.event
    BY <1>0, <2>2 DEF Flush, InHand
  <2>4. \/ outbox' = [outbox EXCEPT ![f.event] = "none"] /\ flush' = [flush EXCEPT ![t] = settled]
        \/ UNCHANGED outbox /\ flush' = [flush EXCEPT ![t] = refused]
    BY <1>10 DEF FlushAnswer
  <2> HIDE DEF settled, refused, f
  <2> QED
    BY <1>3, <1>5, <1>6, <1>8, <2>0, <2>1, <2>3, <2>4
<1>11. CASE FlushLost(t)
  <2> DEFINE g == [f EXCEPT !.pc = "read", !.slot = NoSlot, !.permanent = FALSE]
  <2>1. InHand(f) /\ flush' = [flush EXCEPT ![t] = g] /\ UNCHANGED outbox
    BY <1>11 DEF FlushLost, InHand
  <2>2. g \in Flush /\ InHand(g) /\ g.todo = f.todo /\ g.event = f.event
    BY <1>0 DEF Flush, InHand
  <2> HIDE DEF g, f
  <2> QED
    BY <1>6, <2>1, <2>2
\* After the mark: the next entry, when this one is rejected for good.
<1>12. ASSUME InHand(f), f.permanent, flush' = [flush EXCEPT ![t] = AfterMark(f)],
              Pending' \subseteq Pending, f.event \notin Pending',
              \A d \in Events : outbox'[d] # "none" => Sold(d)
       PROVE  SoldInOrder' /\ TakenInOrder'
  <2>1. AfterMark(f) \in Flush /\ AfterMark(f).pc = "next" /\ AfterMark(f).todo = f.todo
    BY <1>0, <1>12 DEF AfterMark, Flush
  <2> HIDE DEF f
  <2> QED
    BY <1>5, <1>12, <2>1
<1>13. ASSUME ~f.permanent, flush' = [flush EXCEPT ![t] = AfterMark(f)],
              \A d \in Events : outbox'[d] # "none" => Sold(d)
       PROVE  SoldInOrder' /\ TakenInOrder'
  BY <1>7, <1>13 DEF AfterMark
<1>14. CASE MarkRead(t)
  <2> DEFINE g == [f EXCEPT !.pc = "write"]
  <2>1. InHand(f) /\ UNCHANGED outbox
    BY <1>14 DEF MarkRead, InHand
  <2>2. g \in Flush /\ InHand(g) /\ g.todo = f.todo /\ g.event = f.event
    BY <1>0 DEF Flush, InHand
  <2>3. outbox[f.event] = "none" => f.event \notin Pending'
    BY <2>1 DEF Pending
  <2>4. IF outbox[f.event] = "none" THEN flush' = [flush EXCEPT ![t] = AfterMark(f)]
                                    ELSE flush' = [flush EXCEPT ![t] = g]
    BY <1>14 DEF MarkRead
  <2> HIDE DEF g, f
  <2> QED
    BY <1>4, <1>6, <1>12, <1>13, <2>1, <2>2, <2>3, <2>4
<1>15. CASE MarkWrite(t)
  <2>1. /\ InHand(f) /\ flush' = [flush EXCEPT ![t] = AfterMark(f)]
        /\ outbox' = [outbox EXCEPT ![f.event] = IF f.permanent THEN "failed" ELSE "pending"]
    BY <1>15 DEF MarkWrite, InHand
  <2> HIDE DEF f
  <2>2. CASE f.permanent
    <3>1. outbox' = [outbox EXCEPT ![f.event] = "failed"]
      BY <2>1, <2>2
    <3> QED
      BY <1>3, <1>8, <1>12, <2>1, <2>2, <3>1
  <2>3. CASE ~f.permanent
    <3>1. outbox' = [outbox EXCEPT ![f.event] = "pending"]
      BY <2>1, <2>3
    <3> QED
      BY <1>3, <1>8, <1>13, <2>1, <2>3, <3>1
  <2> QED
    BY <2>2, <2>3
<1> QED
  BY <1>9, <1>10, <1>11, <1>14, <1>15 DEF Flushing

LEMMA StartsOrderly ==
  ASSUME OneTab, Orderly, NEW t \in Tabs, Tap(t) \/ Reload(t) \/ LinkChanges
  PROVE  SoldInOrder' /\ TakenInOrder'
<1> DEFINE f == flush[t]
<1>0. /\ Ordered(f, Pending) /\ flush \in [Tabs -> Flush] /\ first \in [Events -> First]
      /\ Complete(f) /\ UNCHANGED outbox
  BY DEF Orderly, Sound, DeviceTyped, FirstTyped, FlushTyped, TakenInOrder, Tap, Reload, LinkChanges
<1>1. \A e \in Turn(f) : e \in Events /\ Sold(e)
  BY <1>0, TurnTyped DEF Orderly, SoldInOrder
<1>2. /\ \A e \in Events : Sold(e)' <=> Sold(e)
      /\ \A e \in Events : first'[e].state = "sent" => first[e].state = "sent"
  BY <1>0 DEF Sold, Tap, Reload, LinkChanges, First
<1>3. \E g : /\ flush' = [flush EXCEPT ![t] = g] /\ Ordered(g, Pending)
             /\ \A e \in Turn(g) : e \in Events /\ Sold(e)
  <2>1. Ordered(Resting, Pending) /\ \A e \in Turn(Resting) : e \in Events /\ Sold(e)
    BY RestingOrdered
  <2>2. \/ flush' = [flush EXCEPT ![t] = f]
        \/ flush' = [flush EXCEPT ![t] = StartFlush(f)]
        \/ flush' = [flush EXCEPT ![t] = Resting]
        \/ flush' = [flush EXCEPT ![t] = StartFlush(Resting)]
    <3>1. LinkChanges => flush' = flush \/ flush' = [u \in Tabs |-> StartFlush(flush[u])]
      BY DEF LinkChanges
    <3>2. flush = [flush EXCEPT ![t] = f]
      BY <1>0
    <3>3. [u \in Tabs |-> StartFlush(flush[u])] = [flush EXCEPT ![t] = StartFlush(f)]
      BY <1>0 DEF OneTab
    <3> QED
      BY <3>1, <3>2, <3>3 DEF Tap, Reload
  <2> QED
    BY <1>0, <1>1, <2>1, <2>2, StartOrdered
<1>4. Pending' = Pending /\ \A e \in Events : outbox'[e] # "none" => Sold(e)
  BY <1>0 DEF Pending, Orderly, SoldInOrder
<1> QED
  BY <1>2, <1>3, <1>4, FlushOrdered

LEMMA StepOrderly ==
  ASSUME OneTab
  PROVE  Orderly /\ [SystemNext]_systemVars => Orderly'
<1> SUFFICES ASSUME Orderly, [SystemNext]_systemVars PROVE Orderly'
  OBVIOUS
<1>1. Sound'
  BY StepSound DEF Orderly
<1>2. ASSUME UNCHANGED <<first, outbox, flush>>
      PROVE  SoldInOrder' /\ TakenInOrder'
  BY <1>2 DEF Orderly, SoldInOrder, TakenInOrder, Sold, Pending
<1>3. ASSUME NEW t \in Tabs, SwitchMode(t)
      PROVE  SoldInOrder' /\ TakenInOrder'
  BY <1>2, <1>3 DEF SwitchMode
<1>4. ASSUME NEW r \in Requests, Discard(r)
      PROVE  SoldInOrder' /\ TakenInOrder'
  BY <1>2, <1>4 DEF Discard, device
<1>5. ASSUME Serving \/ UNCHANGED systemVars
      PROVE  SoldInOrder' /\ TakenInOrder'
  BY <1>2, <1>5 DEF Serving, device, systemVars
<1>6. ASSUME LinkChanges
      PROVE  SoldInOrder' /\ TakenInOrder'
  <2>1. CASE Tabs = {}
    BY <2>1, <1>6 DEF Orderly, SoldInOrder, TakenInOrder, Sold, LinkChanges
  <2> QED
    BY <1>6, <2>1, StartsOrderly
<1>7. SoldInOrder' /\ TakenInOrder'
  BY <1>3, <1>4, <1>5, <1>6, SellingOrderly, FlushingOrderly, StartsOrderly DEF SystemNext
<1> QED
  BY <1>1, <1>7 DEF Orderly

LEMMA InitOrderly == SystemInit => Orderly
<1> SUFFICES ASSUME SystemInit PROVE Orderly
  OBVIOUS
<1>1. \A t \in Tabs : flush[t] = Resting
  BY DEF SystemInit
<1>2. TakenInOrder
  BY <1>1, RestingOrdered DEF TakenInOrder
<1>3. \A e \in Events : ~Sold(e) /\ first[e].state # "sent" /\ outbox[e] = "none"
  BY DEF SystemInit, Unsold, Sold
<1>4. SoldInOrder
  BY <1>1, <1>3, RestingOrdered DEF SoldInOrder
<1> QED
  BY <1>2, <1>4, InitSound DEF Orderly

\* With one tab open a flush never transmits an entry while an older one waits.
THEOREM OldestFirst ==
  ASSUME OneTab
  PROVE  SystemSpec => []QueueInOrder
<1>1. Orderly /\ [SystemNext]_systemVars => Orderly'
  BY StepOrderly
<1>2. Orderly => QueueInOrder
  <2> SUFFICES ASSUME Orderly, NEW t \in Tabs, flush[t].pc = "sent", NEW d \in Pending
               PROVE  d >= flush[t].event
    BY DEF QueueInOrder
  <2>1. InHand(flush[t]) /\ flush[t].event \in Turn(flush[t]) /\ Complete(flush[t])
    BY DEF InHand, Turn, Orderly, Sound, DeviceTyped, FlushTyped
  <2>2. flush[t].event \in Nat /\ d \in Nat
    BY <2>1, TurnTyped, DeviceAssumption DEF Pending
  <2>3. Ordered(flush[t], Pending)
    BY DEF Orderly, TakenInOrder
  <2> QED
    BY <2>1, <2>2, <2>3 DEF Ordered, Turn
<1> QED
  BY <1>1, <1>2, InitOrderly, PTL DEF SystemSpec

-----------------------------------------------------------------------------
(* Answers and whom they reach.  A slot is given away only after its answer *)
(* was taken or nobody waits for it, so an answer is about the event of the  *)
(* one who waits.                                                           *)

\* The request slot r still works on the event e, or holds the answer.
Serves(r, e) == req[r].pc # "idle" /\ req[r].event = e

\* Everyone waits for an answer about its own event, and nobody else does.
SlotsAwaited ==
  /\ \A e \in Events : IF first[e].state = "sent" THEN Serves(first[e].slot, e)
                                                  ELSE first[e].slot = NoSlot
  /\ \A t \in Tabs : IF flush[t].pc = "sent" THEN Serves(flush[t].slot, flush[t].event)
                                             ELSE flush[t].slot = NoSlot
  /\ \A t, u \in Tabs : flush[t].slot = flush[u].slot => t = u \/ flush[t].slot = NoSlot
  /\ \A t \in Tabs, e \in Events : flush[t].slot = first[e].slot => flush[t].slot = NoSlot

\* The slot r goes on with its request.
GoesOn(r) == req[r].pc # "idle" => req'[r].pc # "idle" /\ req'[r].event = req[r].event

\* A server at work loses no request.
LEMMA ServeGoesOn ==
  ASSUME Typed, NEW r \in Requests, Serve(r) \/ Background \/ UNCHANGED req
  PROVE  \A s \in Requests : GoesOn(s)
<1>0. req \in [Requests -> Request]
  BY DEF Typed, TypeOK
<1>1. ASSUME NEW q, req' = [req EXCEPT ![r] = q], q.pc # "idle", q.event = req[r].event
      PROVE  \A s \in Requests : GoesOn(s)
  BY <1>0, <1>1 DEF GoesOn
<1>2. ASSUME NEW status, NEW receipt, Answer(r, status, receipt)
      PROVE  \A s \in Requests : GoesOn(s)
  <2> DEFINE q == [Idle EXCEPT !.pc = "answered", !.status = status,
                               !.event = req[r].event, !.receipt = receipt]
  <2>1. q.pc # "idle" /\ q.event = req[r].event
    BY DEF Idle
  <2>2. req' = [req EXCEPT ![r] = q]
    BY <1>2 DEF Answer
  <2> HIDE DEF q
  <2> QED
    BY <1>1, <2>1, <2>2
<1>3. CASE UNCHANGED req
  BY <1>3 DEF GoesOn
<1>4. CASE Background
  BY <1>3, <1>4 DEF Background, CancelIntent, Expire, PurgeExpired, Midnight
<1>5. CASE Replay(r)
  <2>1. ASSUME req' = [req EXCEPT ![r].pc = "begin"]
        PROVE  \A s \in Requests : GoesOn(s)
    BY <1>0, <2>1 DEF GoesOn, Request
  <2> QED
    BY <1>2, <1>5, <2>1 DEF Replay, Refuse
<1>6. CASE Begin(r)
  <2>1. ASSUME NEW receipt, NEW redeem, NEW withdraw,
               \/ req' = [req EXCEPT ![r].pc = "commit", ![r].receipt = receipt,
                            ![r].withdraw = withdraw]
               \/ req' = [req EXCEPT ![r].pc = "commit", ![r].redeem = redeem,
                            ![r].receipt = receipt, ![r].withdraw = withdraw]
        PROVE  \A s \in Requests : GoesOn(s)
    BY <1>0, <2>1 DEF GoesOn, Request
  <2> QED
    BY <1>2, <1>6, <2>1 DEF Begin, Refuse
<1>7. CASE Commit(r) \/ Fail(r)
  BY <1>2, <1>7 DEF Commit, Fail, Refuse
<1>8. CASE Allocate(r)
  BY <1>0, <1>8 DEF Allocate, GoesOn, Request
<1>9. ASSUME NEW token \in Tokens, Reserve(r, token)
      PROVE  \A s \in Requests : GoesOn(s)
  <2>1. ASSUME req' = [req EXCEPT ![r].pc = "allocate"]
        PROVE  \A s \in Requests : GoesOn(s)
    BY <1>0, <2>1 DEF GoesOn, Request
  <2> QED
    BY <1>2, <1>9, <2>1 DEF Reserve, Refuse
<1> QED
  BY <1>3, <1>4, <1>5, <1>6, <1>7, <1>8, <1>9 DEF Serve

\* A request that arrives takes a slot nobody waits for.
LEMMA ReceiveGoesOn ==
  ASSUME Typed, NEW r \in Requests, NEW e \in Events, NEW supplied,
         ReceiveSale(r, e, NoToken, supplied)
  PROVE  /\ \A s \in Requests : GoesOn(s)
         /\ Serves(r, e)'
         /\ req[r].pc = "idle"
<1> DEFINE q == [Idle EXCEPT !.pc = IF e = NoEvent THEN "begin" ELSE "replay",
                   !.event = e, !.token = NoToken, !.day = today, !.supplied = supplied]
<1>1. q.pc # "idle" /\ q.event = e
  BY DEF Idle
<1>2. req' = [req EXCEPT ![r] = q] /\ req[r].pc = "idle"
  BY DEF ReceiveSale
<1>3. req \in [Requests -> Request]
  BY DEF Typed, TypeOK
<1> HIDE DEF q
<1> QED
  BY <1>1, <1>2, <1>3 DEF GoesOn, Serves

LEMMA FinishGoesOn ==
  ASSUME Typed, NEW r \in Requests, Finish(r)
  PROVE  \A s \in Requests \ {r} : GoesOn(s)
BY DEF Typed, TypeOK, Finish, GoesOn

Connected == Sound /\ SlotsAwaited

\* Whoever still waits has waited before, for a slot that goes on.
LEMMA SlotsStay ==
  ASSUME Connected,
         \A e \in Events : IF first'[e].state = "sent"
           THEN first[e].state = "sent" /\ first'[e].slot = first[e].slot /\ GoesOn(first[e].slot)
           ELSE first'[e].slot = NoSlot,
         \A t \in Tabs : IF flush'[t].pc = "sent"
           THEN /\ flush[t].pc = "sent" /\ flush'[t].slot = flush[t].slot
                /\ flush'[t].event = flush[t].event /\ GoesOn(flush[t].slot)
           ELSE flush'[t].slot = NoSlot
  PROVE  SlotsAwaited'
BY DEF Connected, SlotsAwaited, Serves, GoesOn

\* A slot that was free is nobody's.
LEMMA FreeSlot ==
  ASSUME Connected, NEW r \in Requests, req[r].pc = "idle"
  PROVE  /\ \A e \in Events : first[e].slot # r
         /\ \A t \in Tabs : flush[t].slot # r
BY DeviceAssumption DEF Connected, SlotsAwaited, Serves

\* The sales page sends a sale.
LEMMA PageWaits ==
  ASSUME Connected, NEW e \in Events, NEW r \in Requests, NEW q,
         q.state = "sent", q.slot = r, first' = [first EXCEPT ![e] = q], UNCHANGED flush,
         \A s \in Requests : GoesOn(s), Serves(r, e)', req[r].pc = "idle"
  PROVE  SlotsAwaited'
<1>1. /\ \A d \in Events : first[d].slot # r
      /\ \A t \in Tabs : flush[t].slot # r
  BY FreeSlot
<1>2. /\ first'[e] = q /\ \A d \in Events \ {e} : first'[d] = first[d]
      /\ \A d \in Events : first[d].state = "sent" => first[d].slot \in Requests
      /\ \A t \in Tabs : flush[t].pc = "sent" => flush[t].slot \in Requests
  BY DEF Connected, Sound, DeviceTyped, FirstTyped, FlushTyped, Complete
<1>3. \A d \in Events : IF first'[d].state = "sent" THEN Serves(first[d].slot, d)'
                                                    ELSE first'[d].slot = NoSlot
  BY <1>2 DEF Connected, SlotsAwaited, Serves, GoesOn
<1>4. \A t \in Tabs : IF flush'[t].pc = "sent" THEN Serves(flush[t].slot, flush[t].event)'
                                                ELSE flush'[t].slot = NoSlot
  BY <1>2 DEF Connected, SlotsAwaited, Serves, GoesOn
<1> QED
  BY <1>1, <1>2, <1>3, <1>4 DEF Connected, SlotsAwaited

\* A flush sends an entry.
LEMMA FlushWaits ==
  ASSUME Connected, NEW t \in Tabs, NEW e \in Events, NEW r \in Requests, NEW g,
         g.pc = "sent", g.slot = r, g.event = e, flush' = [flush EXCEPT ![t] = g], UNCHANGED first,
         \A s \in Requests : GoesOn(s), Serves(r, e)', req[r].pc = "idle"
  PROVE  SlotsAwaited'
<1>1. /\ \A d \in Events : first[d].slot # r
      /\ \A u \in Tabs : flush[u].slot # r
  BY FreeSlot
<1>2. /\ flush'[t] = g /\ \A u \in Tabs \ {t} : flush'[u] = flush[u]
      /\ \A d \in Events : first[d].state = "sent" => first[d].slot \in Requests
      /\ \A u \in Tabs : flush[u].pc = "sent" => flush[u].slot \in Requests
  BY DEF Connected, Sound, DeviceTyped, FirstTyped, FlushTyped, Complete
<1>3. \A d \in Events : IF first'[d].state = "sent" THEN Serves(first[d].slot, d)'
                                                    ELSE first'[d].slot = NoSlot
  BY <1>2 DEF Connected, SlotsAwaited, Serves, GoesOn
<1>4. \A u \in Tabs : IF flush'[u].pc = "sent" THEN Serves(flush[u].slot, flush[u].event)'
                                                ELSE flush'[u].slot = NoSlot
  BY <1>2 DEF Connected, SlotsAwaited, Serves, GoesOn
<1> QED
  BY <1>1, <1>2, <1>3, <1>4 DEF Connected, SlotsAwaited

\* A flush that does not wait afterwards.
LEMMA FlushLetsGo ==
  ASSUME Connected, NEW t \in Tabs, NEW g, g.pc # "sent", g.slot = NoSlot,
         flush' = [flush EXCEPT ![t] = g], UNCHANGED first,
         \A s \in Requests : GoesOn(s) \/ (flush[t].pc = "sent" /\ s = flush[t].slot)
  PROVE  SlotsAwaited'
<1>1. flush'[t] = g /\ \A u \in Tabs \ {t} : flush'[u] = flush[u]
  BY DEF Connected, Sound, DeviceTyped, FlushTyped
<1>2. /\ \A d \in Events : first[d].state = "sent" => first[d].slot \in Requests
      /\ \A u \in Tabs : flush[u].pc = "sent" => flush[u].slot \in Requests
  BY DEF Connected, Sound, DeviceTyped, FirstTyped, FlushTyped, Complete
<1>3. \A d \in Events : first[d].state = "sent" => GoesOn(first[d].slot)
  BY <1>2, DeviceAssumption DEF Connected, SlotsAwaited
<1>4. \A u \in Tabs \ {t} : flush[u].pc = "sent" => GoesOn(flush[u].slot)
  BY <1>2, DeviceAssumption DEF Connected, SlotsAwaited
<1>5. /\ \A d \in Events : first[d].state # "sent" => first[d].slot = NoSlot
      /\ \A u \in Tabs : flush[u].pc # "sent" => flush[u].slot = NoSlot
  BY DEF Connected, SlotsAwaited
<1> QED
  BY <1>1, <1>3, <1>4, <1>5, SlotsStay

\* Nobody starts or stops waiting.
LEMMA NobodyMoves ==
  ASSUME Connected, UNCHANGED <<first, flush>>,
         \A s \in Requests : GoesOn(s) \/ s \notin Awaited
  PROVE  SlotsAwaited'
<1>1. /\ \A d \in Events : first[d].state = "sent" => first[d].slot \in Requests \cap Awaited
      /\ \A u \in Tabs : flush[u].pc = "sent" => flush[u].slot \in Requests \cap Awaited
  BY DEF Connected, Sound, DeviceTyped, FirstTyped, FlushTyped, Complete, Awaited
<1>2. /\ \A d \in Events : first[d].state # "sent" => first[d].slot = NoSlot
      /\ \A u \in Tabs : flush[u].pc # "sent" => flush[u].slot = NoSlot
  BY DEF Connected, SlotsAwaited
<1> QED
  BY <1>1, <1>2, SlotsStay

LEMMA SellingConnected ==
  ASSUME Connected, Selling
  PROVE  SlotsAwaited'
<1>0. Typed /\ first \in [Events -> First]
  BY DEF Connected, Sound, Idempotent, DeviceTyped, FirstTyped
<1>1. ASSUME NEW e \in Events, NEW q, q.state = "done", q.slot = NoSlot,
             first' = [first EXCEPT ![e] = q], UNCHANGED flush,
             \A s \in Requests : GoesOn(s) \/ (first[e].state = "sent" /\ s = first[e].slot)
      PROVE  SlotsAwaited'
  <2>1. first'[e] = q /\ \A d \in Events \ {e} : first'[d] = first[d]
    BY <1>0, <1>1
  <2>2. /\ \A d \in Events : first[d].state = "sent" => first[d].slot \in Requests
        /\ \A u \in Tabs : flush[u].pc = "sent" => flush[u].slot \in Requests
    BY DEF Connected, Sound, DeviceTyped, FirstTyped, FlushTyped, Complete
  <2>3. \A d \in Events \ {e} : first[d].state = "sent" => GoesOn(first[d].slot)
    BY <1>1, <2>2 DEF Connected, SlotsAwaited, Serves
  <2>4. \A u \in Tabs : flush[u].pc = "sent" => GoesOn(flush[u].slot)
    BY <1>1, <2>2, DeviceAssumption DEF Connected, SlotsAwaited
  <2>5. /\ \A d \in Events : first[d].state # "sent" => first[d].slot = NoSlot
        /\ \A u \in Tabs : flush[u].pc # "sent" => flush[u].slot = NoSlot
    BY DEF Connected, SlotsAwaited
  <2> QED
    BY <1>1, <2>1, <2>3, <2>4, <2>5, SlotsStay
<1>2. ASSUME NEW t \in Tabs, NEW e \in Events, Sell(t, e)
      PROVE  SlotsAwaited'
  <2>1. ASSUME NEW r \in Requests, NEW supplied, ReceiveSale(r, e, NoToken, supplied),
               first' = [first EXCEPT ![e] = [state |-> "sent", tab |-> t, slot |-> r]]
        PROVE  SlotsAwaited'
    <3>1. UNCHANGED flush
      BY <1>2 DEF Sell
    <3> QED
      BY <1>0, <2>1, <3>1, ReceiveGoesOn, PageWaits
  <2>2. ASSUME UNCHANGED vars,
               first' = [first EXCEPT ![e] = [state |-> "done", tab |-> t, slot |-> NoSlot]]
        PROVE  SlotsAwaited'
    <3>1. UNCHANGED flush /\ \A s \in Requests : GoesOn(s)
      BY <1>2, <2>2 DEF Sell, vars, GoesOn
    <3> QED
      BY <1>1, <2>2, <3>1
  <2> QED
    BY <1>2, <2>1, <2>2 DEF Sell
<1>3. ASSUME NEW t \in Tabs, NEW e \in Events, SellPractice(t, e)
      PROVE  SlotsAwaited'
  <2>1. /\ UNCHANGED flush /\ \A s \in Requests : GoesOn(s)
        /\ first' = [first EXCEPT ![e] = [state |-> "done", tab |-> t, slot |-> NoSlot]]
    BY <1>3 DEF SellPractice, vars, GoesOn
  <2> QED
    BY <1>1, <2>1
<1>4. ASSUME NEW e \in Events, ViewAnswer(e) \/ ViewLost(e)
      PROVE  SlotsAwaited'
  <2> DEFINE q == [first[e] EXCEPT !.state = "done", !.slot = NoSlot]
  <2>1. q.state = "done" /\ q.slot = NoSlot
    BY <1>0 DEF First
  <2>2. first' = [first EXCEPT ![e] = q] /\ UNCHANGED flush
    BY <1>4 DEF ViewAnswer, ViewLost
  <2>3. \A s \in Requests : GoesOn(s) \/ (first[e].state = "sent" /\ s = first[e].slot)
    <3>1. CASE ViewAnswer(e)
      <4>1. first[e].state = "sent" /\ first[e].slot \in Requests /\ Finish(first[e].slot)
        BY <3>1 DEF ViewAnswer, Connected, Sound, DeviceTyped, FirstTyped
      <4> QED
        BY <1>0, <4>1, FinishGoesOn
    <3>2. CASE ViewLost(e)
      BY <3>2 DEF ViewLost, vars, GoesOn
    <3> QED
      BY <1>4, <3>1, <3>2
  <2> HIDE DEF q
  <2> QED
    BY <1>1, <2>1, <2>2, <2>3
<1> QED
  BY <1>2, <1>3, <1>4 DEF Selling

LEMMA FlushingConnected ==
  ASSUME Connected, NEW t \in Tabs, Flushing(t)
  PROVE  SlotsAwaited'
<1> DEFINE f == flush[t]
<1>0. /\ Typed /\ f \in Flush /\ Complete(f) /\ UNCHANGED first
      /\ (f.pc # "sent" => f.slot = NoSlot)
  BY DEF Connected, SlotsAwaited, Sound, Idempotent, DeviceTyped, FlushTyped, Flushing, TakeNext,
         FlushAnswer, FlushLost, MarkRead, MarkWrite
<1>1. Resting.pc # "sent" /\ Resting.slot = NoSlot
  BY DEF Resting
<1>2. ASSUME UNCHANGED vars
      PROVE  \A s \in Requests : GoesOn(s)
  BY <1>2 DEF vars, GoesOn
<1>3. CASE TakeNext(t)
  <2>1. CASE f.todo = {}
    BY <1>0, <1>1, <1>2, <1>3, <2>1, FlushLetsGo DEF TakeNext
  <2>2. CASE f.todo # {}
    <3> DEFINE e == Oldest(f.todo)
               taken == [f EXCEPT !.todo = @ \ {e}, !.event = e]
               marked(permanent) == [taken EXCEPT !.pc = "read", !.permanent = permanent]
               sent(r) == [taken EXCEPT !.pc = "sent", !.slot = r]
    <3>1. e \in Events
      BY <1>0, <2>2, OldestIsOldest DEF Flush
    <3>2. /\ taken \in Flush /\ taken.event = e /\ taken.pc = "next" /\ taken.slot = NoSlot
      BY <1>0, <1>3, <3>1 DEF Flush, TakeNext
    <3>3. \A permanent \in BOOLEAN :
            marked(permanent).pc # "sent" /\ marked(permanent).slot = NoSlot
      BY <3>2 DEF Flush
    <3>4. \A r \in Requests : sent(r).pc = "sent" /\ sent(r).slot = r /\ sent(r).event = e
      BY <3>2 DEF Flush
    <3>5. \/ \E r \in Requests : /\ ReceiveSale(r, e, NoToken, sold[e])
                                 /\ flush' = [flush EXCEPT ![t] = sent(r)]
          \/ flush' = [flush EXCEPT ![t] = taken] /\ UNCHANGED vars
          \/ \E permanent \in BOOLEAN :
               flush' = [flush EXCEPT ![t] = marked(permanent)] /\ UNCHANGED vars
      BY <1>3, <2>2 DEF TakeNext
    <3> HIDE DEF taken, e, sent, marked
    <3>6. ASSUME NEW r \in Requests, ReceiveSale(r, e, NoToken, sold[e]),
                 flush' = [flush EXCEPT ![t] = sent(r)]
          PROVE  SlotsAwaited'
      BY <1>0, <3>1, <3>4, <3>6, ReceiveGoesOn, FlushWaits
    <3> QED
      BY <1>0, <1>2, <3>2, <3>3, <3>5, <3>6, FlushLetsGo
  <2> QED
    BY <2>1, <2>2
<1>4. CASE FlushAnswer(t)
  <2> DEFINE settled == [f EXCEPT !.pc = "next", !.slot = NoSlot]
             refused == [f EXCEPT !.pc = "read", !.slot = NoSlot,
                           !.permanent = Final(req[f.slot].status)]
  <2>1. f.pc = "sent" /\ f.slot \in Requests /\ Finish(f.slot)
    BY <1>0, <1>4 DEF FlushAnswer, Complete
  <2>2. \A s \in Requests : GoesOn(s) \/ (flush[t].pc = "sent" /\ s = flush[t].slot)
    BY <1>0, <2>1, FinishGoesOn
  <2>3. settled.pc # "sent" /\ settled.slot = NoSlot /\ refused.pc # "sent" /\ refused.slot = NoSlot
    BY <1>0 DEF Flush
  <2>4. flush' = [flush EXCEPT ![t] = settled] \/ flush' = [flush EXCEPT ![t] = refused]
    BY <1>4 DEF FlushAnswer
  <2> HIDE DEF settled, refused, f
  <2> QED
    BY <1>0, <2>2, <2>3, <2>4, FlushLetsGo
<1>5. CASE FlushLost(t)
  <2> DEFINE g == [f EXCEPT !.pc = "read", !.slot = NoSlot, !.permanent = FALSE]
  <2>1. g.pc # "sent" /\ g.slot = NoSlot
    BY <1>0 DEF Flush
  <2>2. flush' = [flush EXCEPT ![t] = g] /\ UNCHANGED vars
    BY <1>5 DEF FlushLost
  <2> HIDE DEF g
  <2> QED
    BY <1>0, <1>2, <2>1, <2>2, FlushLetsGo
<1>6. CASE MarkRead(t) \/ MarkWrite(t)
  <2> DEFINE g == [f EXCEPT !.pc = "write"]
  <2>1. f.pc # "sent" /\ f.slot = NoSlot /\ UNCHANGED vars
    BY <1>0, <1>6 DEF MarkRead, MarkWrite
  <2>2. /\ g.pc # "sent" /\ g.slot = NoSlot
        /\ AfterMark(f).pc # "sent" /\ AfterMark(f).slot = NoSlot
    BY <1>0, <1>1, <2>1 DEF Flush, AfterMark
  <2>3. flush' = [flush EXCEPT ![t] = AfterMark(f)] \/ flush' = [flush EXCEPT ![t] = g]
    BY <1>6 DEF MarkRead, MarkWrite
  <2> HIDE DEF g, f
  <2> QED
    BY <1>0, <1>2, <2>1, <2>2, <2>3, FlushLetsGo
<1> QED
  BY <1>3, <1>4, <1>5, <1>6 DEF Flushing

LEMMA StartsConnected ==
  ASSUME Connected, NEW t \in Tabs, Tap(t) \/ Reload(t) \/ LinkChanges
  PROVE  SlotsAwaited'
<1>1. /\ \A s \in Requests : GoesOn(s)
      /\ \A d \in Events : first[d].state = "sent" => first[d].slot \in Requests
      /\ \A u \in Tabs : flush[u].pc = "sent" => flush[u].slot \in Requests
  BY DEF Connected, Sound, DeviceTyped, FirstTyped, FlushTyped, Complete, Tap, Reload, LinkChanges,
         vars, GoesOn
<1>2. /\ \A d \in Events : first[d].state # "sent" => first[d].slot = NoSlot
      /\ \A u \in Tabs : flush[u].pc # "sent" => flush[u].slot = NoSlot
  BY DEF Connected, SlotsAwaited
<1>3. \A d \in Events : \/ first'[d] = first[d]
                        \/ first'[d].state = "done" /\ first'[d].slot = NoSlot
  BY DEF Tap, Reload, LinkChanges
<1>4. \A f : StartFlush(f) = f \/ (StartFlush(f).pc = "next" /\ StartFlush(f).slot = NoSlot)
  BY DEF StartFlush, Resting
<1>5. /\ Resting.pc = "idle" /\ Resting.slot = NoSlot
      /\ StartFlush(Resting).pc = "next" /\ StartFlush(Resting).slot = NoSlot
  BY DEF StartFlush, Resting
<1>6. \A u \in Tabs : \/ flush'[u] = flush[u]
                      \/ flush'[u].pc # "sent" /\ flush'[u].slot = NoSlot
  <2>1. flush \in [Tabs -> Flush]
    BY DEF Connected, Sound, DeviceTyped, FlushTyped
  <2> HIDE DEF StartFlush, Resting
  <2> QED
    BY <1>4, <1>5, <2>1 DEF Tap, Reload, LinkChanges
<1> QED
  BY <1>1, <1>2, <1>3, <1>6, SlotsStay

LEMMA StepConnected ==
  ASSUME Connected, [SystemNext]_systemVars
  PROVE  Connected'
<1>0. Typed
  BY DEF Connected, Sound, Idempotent
<1>1. ASSUME NEW t \in Tabs, SwitchMode(t)
      PROVE  SlotsAwaited'
  BY <1>1, NobodyMoves DEF SwitchMode, vars, GoesOn
<1>2. ASSUME NEW r \in Requests, Discard(r)
      PROVE  SlotsAwaited'
  <2>1. \A s \in Requests : GoesOn(s) \/ s \notin Awaited
    BY <1>0, <1>2, FinishGoesOn DEF Discard
  <2> QED
    BY <1>2, <2>1, NobodyMoves DEF Discard, device
<1>3. ASSUME UNCHANGED systemVars
      PROVE  SlotsAwaited'
  BY <1>3, NobodyMoves DEF systemVars, vars, device, GoesOn
<1>4. ASSUME Serving
      PROVE  SlotsAwaited'
  <2>1. \A s \in Requests : GoesOn(s)
    <3>1. CASE Background
      BY <3>1 DEF Background, CancelIntent, Expire, PurgeExpired, Midnight, GoesOn
    <3> QED
      BY <1>0, <1>4, <3>1, ServeGoesOn DEF Serving
  <2> QED
    BY <1>4, <2>1, NobodyMoves DEF Serving, device
<1>5. ASSUME LinkChanges
      PROVE  SlotsAwaited'
  <2>1. CASE Tabs = {}
    <3>1. UNCHANGED first /\ UNCHANGED req
      BY <1>5 DEF LinkChanges, vars
    <3> QED
      BY <2>1, <3>1 DEF Connected, SlotsAwaited, Serves
  <2> QED
    BY <1>5, <2>1, StartsConnected
<1>6. SlotsAwaited'
  BY <1>1, <1>2, <1>3, <1>4, <1>5, SellingConnected, FlushingConnected, StartsConnected
     DEF SystemNext
<1> QED
  BY <1>6, StepSound DEF Connected

LEMMA InitConnected == SystemInit => Connected
<1> SUFFICES ASSUME SystemInit PROVE Connected
  OBVIOUS
<1>1. /\ \A e \in Events : first[e].state = "unsold" /\ first[e].slot = NoSlot
      /\ \A t \in Tabs : flush[t].pc = "idle" /\ flush[t].slot = NoSlot
  BY DEF SystemInit, Unsold, Resting
<1>2. SlotsAwaited
  BY <1>1 DEF SlotsAwaited
<1> QED
  BY <1>2, InitSound DEF Connected

-----------------------------------------------------------------------------
(* Sales are never lost.  The entry of a sale leaves the outbox only for an  *)
(* answer that says it is booked, and the seller hears of a booking only    *)
(* from such an answer.                                                     *)

NoPractice == practice = {} /\ \A t \in Tabs : mode[t] = "normal"

Delivering == Connected /\ NoPractice /\ NeverLost

\* Without the practice mode no tab leaves the normal one.
LEMMA StaysNormal ==
  ASSUME ~Sandbox, Delivering, [SystemNext]_systemVars
  PROVE  NoPractice'
<1>1. ASSUME NEW t \in Tabs, NEW e \in Events, Sell(t, e) \/ SellPractice(t, e)
      PROVE  UNCHANGED <<practice, mode>>
  BY <1>1 DEF Sell, SellPractice, Delivering, NoPractice
<1>2. ASSUME NEW e \in Events, ViewAnswer(e) \/ ViewLost(e)
      PROVE  UNCHANGED <<practice, mode>>
  BY <1>2 DEF ViewAnswer, ViewLost
<1>3. ASSUME NEW t \in Tabs, Tap(t) \/ Flushing(t) \/ Reload(t) \/ SwitchMode(t)
      PROVE  UNCHANGED <<practice, mode>>
  BY <1>3 DEF Tap, Flushing, TakeNext, FlushAnswer, FlushLost, MarkRead, MarkWrite, Reload,
     SwitchMode
<1>4. ASSUME \/ LinkChanges \/ Serving \/ UNCHANGED systemVars
             \/ \E r \in Requests : Discard(r)
      PROVE  UNCHANGED <<practice, mode>>
  BY <1>4 DEF LinkChanges, Serving, Discard, systemVars, device
<1>5. UNCHANGED <<practice, mode>>
  BY <1>1, <1>2, <1>3, <1>4 DEF SystemNext, Selling
<1> QED
  BY <1>5 DEF Delivering, NoPractice

\* What is told and what leaves the outbox is covered by the ledger.
LEMMA NothingLost ==
  ASSUME NeverLost, NoPractice, Booked \subseteq Booked', UNCHANGED practice,
         \A e \in Events :
           /\ told'[e] = "booked" => told[e] = "booked" \/ e \in Booked'
           /\ told'[e] = "queued" => told[e] = "queued" \/ outbox'[e] # "none"
           /\ outbox[e] # "none" => outbox'[e] # "none" \/ e \in Booked'
  PROVE  NeverLost'
BY DEF NeverLost, NoPractice

LEMMA SellingLosesNothing ==
  ASSUME Delivering, Selling, Booked \subseteq Booked', UNCHANGED practice
  PROVE  NeverLost'
<1>0. /\ told \in [Events -> {"nothing", "booked", "queued", "refused"}]
      /\ outbox \in [Events -> {"none", "pending", "failed"}]
  BY DEF Delivering, Connected, Sound, DeviceTyped
<1>1. ASSUME NEW e \in Events, Queue(e) \/ UNCHANGED <<told, outbox>>
      PROVE  NeverLost'
  <2>1. \A d \in Events :
          /\ told'[d] = "booked" => told[d] = "booked"
          /\ told'[d] = "queued" => told[d] = "queued" \/ outbox'[d] # "none"
          /\ outbox[d] # "none" => outbox'[d] # "none"
    BY <1>0, <1>1 DEF Queue
  <2> QED
    BY <2>1, NothingLost DEF Delivering
<1>2. ASSUME NEW e \in Events, ViewAnswer(e)
      PROVE  NeverLost'
  <2> DEFINE r == first[e].slot
  <2>1. first[e].state = "sent" /\ r \in Requests /\ req[r].event = e
    BY <1>2 DEF ViewAnswer, Delivering, Connected, SlotsAwaited, Serves, Sound, DeviceTyped, FirstTyped
  <2>2. Succeeded(req[r].status) => e \in Booked
    BY <2>1, SuccessIsBooked DEF Delivering, Connected, Sound
  <2>3. /\ told' = [told EXCEPT ![e] = IF Succeeded(req[r].status) THEN "booked" ELSE "refused"]
        /\ UNCHANGED outbox
    BY <1>2 DEF ViewAnswer
  <2>4. \A d \in Events :
          /\ told'[d] = "booked" => told[d] = "booked" \/ d \in Booked'
          /\ told'[d] = "queued" => told[d] = "queued"
    BY <1>0, <2>2, <2>3
  <2> QED
    BY <2>3, <2>4, NothingLost DEF Delivering
<1> QED
  BY <1>1, <1>2 DEF Selling, Sell, SellPractice, ViewLost

LEMMA FlushingLosesNothing ==
  ASSUME Delivering, NEW t \in Tabs, Flushing(t), Booked \subseteq Booked', UNCHANGED practice
  PROVE  NeverLost'
<1> DEFINE f == flush[t]
<1>0. /\ outbox \in [Events -> {"none", "pending", "failed"}] /\ Complete(f) /\ UNCHANGED told
  BY DEF Delivering, Connected, Sound, DeviceTyped, FlushTyped, Flushing, TakeNext, FlushAnswer,
         FlushLost, MarkRead, MarkWrite
<1>1. ASSUME \A e \in Events : outbox[e] # "none" => outbox'[e] # "none" \/ e \in Booked'
      PROVE  NeverLost'
  BY <1>0, <1>1, NothingLost DEF Delivering
<1>2. CASE TakeNext(t)
  <2>1. mode[t] # "sandbox"
    BY DEF Delivering, NoPractice
  <2> QED
    BY <1>1, <1>2, <2>1 DEF TakeNext
<1>3. CASE FlushAnswer(t)
  <2>1. f.pc = "sent" /\ f.slot \in Requests /\ f.event \in Events /\ req[f.slot].event = f.event
    BY <1>0, <1>3 DEF FlushAnswer, Complete, InHand, Delivering, Connected, SlotsAwaited, Serves
  <2>2. Succeeded(req[f.slot].status) => f.event \in Booked
    BY <2>1, SuccessIsBooked DEF Delivering, Connected, Sound
  <2>3. outbox' = outbox \/ (Succeeded(req[f.slot].status) /\ outbox' = [outbox EXCEPT ![f.event] = "none"])
    BY <1>3 DEF FlushAnswer, Settled
  <2> HIDE DEF f
  <2> QED
    BY <1>0, <1>1, <2>1, <2>2, <2>3
<1>4. CASE FlushLost(t) \/ MarkRead(t)
  BY <1>1, <1>4 DEF FlushLost, MarkRead
<1>5. CASE MarkWrite(t)
  BY <1>0, <1>1, <1>5 DEF MarkWrite
<1> QED
  BY <1>2, <1>3, <1>4, <1>5 DEF Flushing

LEMMA StepDelivering ==
  ASSUME ~Sandbox
  PROVE  Delivering /\ [SystemNext]_systemVars => Delivering'
<1> SUFFICES ASSUME Delivering, [SystemNext]_systemVars PROVE Delivering'
  OBVIOUS
<1>1. Connected' /\ NoPractice'
  BY StepConnected, StaysNormal DEF Delivering
<1>2. Booked \subseteq Booked'
  BY ServerSteps, BookedForGood DEF Delivering, Connected, Sound
<1>3. UNCHANGED practice
  BY <1>1 DEF Delivering, NoPractice
<1>4. ASSUME UNCHANGED <<told, outbox>>
      PROVE  NeverLost'
  BY <1>2, <1>3, <1>4, NothingLost DEF Delivering
<1>5. ASSUME NEW t \in Tabs, Tap(t) \/ Reload(t) \/ SwitchMode(t)
      PROVE  NeverLost'
  BY <1>4, <1>5 DEF Tap, Reload, SwitchMode
<1>6. ASSUME \/ LinkChanges \/ Serving \/ UNCHANGED systemVars
             \/ \E r \in Requests : Discard(r)
      PROVE  NeverLost'
  BY <1>4, <1>6 DEF LinkChanges, Serving, Discard, systemVars, device
<1>7. NeverLost'
  BY <1>2, <1>3, <1>5, <1>6, SellingLosesNothing, FlushingLosesNothing DEF SystemNext
<1> QED
  BY <1>1, <1>7 DEF Delivering

LEMMA InitDelivering == SystemInit => Delivering
<1> SUFFICES ASSUME SystemInit PROVE Delivering
  OBVIOUS
<1>1. NoPractice
  BY DEF SystemInit, NoPractice
<1>2. NeverLost
  BY DEF SystemInit, NeverLost
<1> QED
  BY <1>1, <1>2, InitConnected DEF Delivering

\* As long as the practice mode is not used, no sale the seller was told is booked
\* or queued is lost, whatever the connection, the tabs and the server do.
THEOREM SalesNeverLost ==
  ASSUME ~Sandbox
  PROVE  SystemSpec => []NeverLost
<1>1. Delivering /\ [SystemNext]_systemVars => Delivering'
  BY StepDelivering
<1>2. Delivering => NeverLost
  BY DEF Delivering
<1> QED
  BY <1>1, <1>2, InitDelivering, PTL DEF SystemSpec

-----------------------------------------------------------------------------
(* Rejections.  On one day a server that takes one request at a time rejects *)
(* an entry only because the variant is sold out, which is for good.  Two    *)
(* requests at a time, another day and the practice mode each break this.    *)

\* Sold out and not booked, which stays so.
Rejected(e) == ~offered /\ e \notin Booked

\* What the server knows of the request it works on, and what it answers.
Judged(q) ==
  /\ ~q.historical /\ q.token = NoToken
  /\ q.pc \in {"begin", "commit"} => q.event \notin Booked
  /\ q.pc = "commit" => offered
  /\ q.status \notin {"sync_conflict", "code_unusable"}
  /\ q.status = "not_offered" => Rejected(q.event)

Judgements ==
  /\ \A s \in syncEvents : ~s.hash.historical
  /\ \A r \in Requests : Judged(req[r])

Verdicts ==
  /\ \A t \in Tabs : flush[t].pc \in {"read", "write"} /\ flush[t].permanent =>
       Rejected(flush[t].event)
  /\ \A e \in Events : outbox[e] = "failed" => Rejected(e)

Deciding == Delivering /\ Judgements /\ Verdicts

\* A step that books nothing, of the only request.
LEMMA JudgedAgain ==
  ASSUME OneAtATime, Typed, Judgements, NEW r \in Requests, NEW q, req' = [req EXCEPT ![r] = q],
         Judged(q), UNCHANGED <<syncEvents, offered>>
  PROVE  Judgements'
<1>1. \A s \in Requests : req'[s] = q
  BY DEF OneAtATime, Typed, TypeOK
<1> QED
  BY <1>1 DEF Judgements, Judged, Rejected, Booked

LEMMA AnswerJudged ==
  ASSUME OneAtATime, Typed, Judgements, NEW r \in Requests, NEW status, NEW receipt,
         Answer(r, status, receipt), status \notin {"sync_conflict", "code_unusable"},
         status = "not_offered" => Rejected(req[r].event), UNCHANGED <<syncEvents, offered>>
  PROVE  Judgements'
<1> DEFINE q == [Idle EXCEPT !.pc = "answered", !.status = status,
                             !.event = req[r].event, !.receipt = receipt]
<1>1. /\ q.pc = "answered" /\ q.token = NoToken /\ q.status = status /\ q.event = req[r].event
      /\ q.historical = FALSE
  BY DEF Idle
<1>2. req' = [req EXCEPT ![r] = q]
  BY DEF Answer
<1> HIDE DEF q
<1>3. Judged(q)
  BY <1>1 DEF Judged
<1> QED
  BY <1>2, <1>3, JudgedAgain

LEMMA ReceiveJudged ==
  ASSUME OneAtATime, Typed, Judgements, NEW r \in Requests, NEW e \in Events, NEW supplied,
         ReceiveSale(r, e, NoToken, supplied)
  PROVE  Judgements'
<1> DEFINE q == [Idle EXCEPT !.pc = IF e = NoEvent THEN "begin" ELSE "replay",
                   !.event = e, !.token = NoToken, !.day = today, !.supplied = supplied]
<1>1. q.pc = "replay" /\ q.token = NoToken /\ q.status = "none" /\ q.historical = FALSE
  BY ConstantsAssumption DEF Idle
<1>2. req' = [req EXCEPT ![r] = q] /\ UNCHANGED <<syncEvents, offered>>
  BY DEF ReceiveSale
<1> HIDE DEF q
<1>3. Judged(q)
  BY <1>1 DEF Judged
<1> QED
  BY <1>2, <1>3, JudgedAgain

LEMMA FinishJudged ==
  ASSUME OneAtATime, Typed, Judgements, NEW r \in Requests, Finish(r)
  PROVE  Judgements' /\ UNCHANGED <<syncEvents, offered>>
<1>1. Judged(Idle)
  BY DEF Judged, Idle
<1>2. UNCHANGED <<syncEvents, offered>> /\ req' = [req EXCEPT ![r] = Idle]
  BY DEF Finish
<1> QED
  BY <1>1, <1>2, JudgedAgain

\* The server refuses for good only when the variant is sold out, and what it
\* refused so is never booked.
LEMMA ServeJudged ==
  ASSUME OneAtATime, MaxDay = 1, Typed, Judgements, NEW r \in Requests, Serve(r)
  PROVE  Judgements' /\ \A e : Rejected(e) => Rejected(e)'
<1> DEFINE q == req[r]
<1>0. q \in Request /\ Judged(q) /\ req \in [Requests -> Request]
  BY DEF Typed, TypeOK, Judgements
<1>1. ASSUME UNCHANGED <<syncEvents, offered>>
      PROVE  \A e : Rejected(e) => Rejected(e)'
  BY <1>1 DEF Rejected, Booked
<1>2. CASE Replay(r)
  <2>1. UNCHANGED <<syncEvents, offered>>
    BY <1>2 DEF Replay
  <2>2. ASSUME req[r].event \notin Booked, req' = [req EXCEPT ![r].pc = "begin"]
        PROVE  Judgements'
    <3> DEFINE p == [q EXCEPT !.pc = "begin"]
    <3>1. /\ p.pc = "begin" /\ p.token = q.token /\ p.status = q.status /\ p.event = q.event
          /\ p.historical = q.historical
      BY <1>0 DEF Request
    <3>2. req' = [req EXCEPT ![r] = p]
      BY <2>2
    <3> HIDE DEF p
    <3>3. Judged(p)
      BY <1>0, <2>2, <3>1 DEF Judged
    <3> QED
      BY <2>1, <3>2, <3>3, JudgedAgain
  <2>3. ASSUME NEW s \in syncEvents
        PROVE  s.hash = HashOf(req[r])
    <3>1. s.hash \in [day : Days, historical : BOOLEAN] /\ ~s.hash.historical
      BY DEF Typed, TypeOK, SyncEvent, Judgements
    <3>2. q.day \in Days /\ ~q.historical /\ q.historical \in BOOLEAN
      BY <1>0, <1>2 DEF Replay, Typed, Progress, InService, Judged, Request
    <3>3. Days = {1}
      BY DEF Days
    <3> QED
      BY <3>1, <3>2, <3>3 DEF HashOf
  <2>4. ASSUME NEW s \in syncEvents, Answer(r, "replayed", s.receipt)
        PROVE  Judgements'
    BY <2>1, <2>4, AnswerJudged
  <2> QED
    BY <1>1, <1>2, <2>1, <2>2, <2>3, <2>4 DEF Replay
<1>3. CASE Begin(r)
  <2>1. UNCHANGED <<syncEvents, offered>> /\ q.pc = "begin"
    BY <1>3 DEF Begin
  <2>2. q.token = NoToken /\ ~q.historical /\ q.event \notin Booked
    BY <1>0, <2>1 DEF Judged
  <2>3. ASSUME ~Sellable(r), Refuse(r, "not_offered")
        PROVE  Judgements'
    <3>1. Rejected(req[r].event)
      BY <2>2, <2>3 DEF Sellable, Rejected
    <3> QED
      BY <2>1, <2>3, <3>1, AnswerJudged DEF Refuse
  <2>4. ASSUME Sellable(r), NEW receipt, NEW redeem,
               req' = [req EXCEPT ![r] = [q EXCEPT !.pc = "commit", !.redeem = redeem,
                                            !.receipt = receipt, !.withdraw = Depletes]]
        PROVE  Judgements'
    <3> DEFINE p == [q EXCEPT !.pc = "commit", !.redeem = redeem, !.receipt = receipt,
                              !.withdraw = Depletes]
    <3>1. /\ p.pc = "commit" /\ p.token = q.token /\ p.status = q.status /\ p.event = q.event
          /\ p.historical = q.historical
      BY <1>0 DEF Request
    <3>2. req' = [req EXCEPT ![r] = p]
      BY <2>4
    <3> HIDE DEF p
    <3>3. Judged(p)
      BY <1>0, <2>2, <2>4, <3>1 DEF Judged, Sellable
    <3> QED
      BY <2>1, <3>2, <3>3, JudgedAgain
  <2>5. ASSUME NEW receipt, Sellable(r),
               req' = [req EXCEPT ![r].pc = "commit", ![r].receipt = receipt,
                         ![r].withdraw = Depletes]
        PROVE  Judgements'
    <3>1. [q EXCEPT !.pc = "commit", !.redeem = q.redeem, !.receipt = receipt, !.withdraw = Depletes]
          = [q EXCEPT !.pc = "commit", !.receipt = receipt, !.withdraw = Depletes]
      BY <1>0 DEF Request
    <3>2. req' = [req EXCEPT ![r] = [q EXCEPT !.pc = "commit", !.receipt = receipt,
                                                !.withdraw = Depletes]]
      BY <2>5
    <3>3. req' = [req EXCEPT ![r] = [q EXCEPT !.pc = "commit", !.redeem = q.redeem,
                                                !.receipt = receipt, !.withdraw = Depletes]]
      BY <3>1, <3>2
    <3> QED
      BY <2>4, <2>5, <3>3
  <2>6. ASSUME NEW receipt, NEW redeem, Sellable(r),
               req' = [req EXCEPT ![r].pc = "commit", ![r].redeem = redeem,
                         ![r].receipt = receipt, ![r].withdraw = Depletes]
        PROVE  Judgements'
    <3>1. req' = [req EXCEPT ![r] = [q EXCEPT !.pc = "commit", !.redeem = redeem,
                                                !.receipt = receipt, !.withdraw = Depletes]]
      BY <2>6
    <3> QED
      BY <2>4, <2>6, <3>1
  <2> QED
    BY <1>1, <1>3, <2>1, <2>2, <2>3, <2>5, <2>6 DEF Begin
<1>4. CASE Commit(r)
  <2>1. offered /\ ~q.historical
    BY <1>0, <1>4 DEF Commit, Judged
  <2>2. \A e : ~Rejected(e)
    BY <2>1 DEF Rejected
  <2>3. CASE UNCHANGED <<syncEvents, offered>>
    BY <1>4, <2>2, <2>3, AnswerJudged DEF Commit, Refuse
  <2>4. CASE syncEvents' = syncEvents \cup SyncRow(q) /\ Answer(r, "created", q.receipt)
    <3> DEFINE p == [Idle EXCEPT !.pc = "answered", !.status = "created",
                                 !.event = req[r].event, !.receipt = q.receipt]
    <3>1. /\ p.pc = "answered" /\ p.token = NoToken /\ p.status = "created"
          /\ p.historical = FALSE
      BY DEF Idle
    <3>2. req' = [req EXCEPT ![r] = p]
      BY <2>4 DEF Answer
    <3> HIDE DEF p
    <3>3. \A s \in Requests : req'[s] = p
      BY <1>0, <3>2 DEF OneAtATime
    <3>4. \A s \in Requests : Judged(req[s])'
      BY <3>1, <3>3 DEF Judged
    <3>5. \A s \in syncEvents' : ~s.hash.historical
      BY <2>1, <2>4 DEF SyncRow, HashOf, Judgements
    <3> QED
      BY <2>2, <3>4, <3>5 DEF Judgements
  <2> QED
    BY <1>4, <2>3, <2>4 DEF Commit
<1>5. CASE Allocate(r)
  <2> DEFINE p == [q EXCEPT !.pc = "reserve",
                     !.receipt = AllocateReceipt(q.supplied, q.day, NoToken),
                     !.attempt = q.attempt + 1]
  <2>1. /\ p.pc = "reserve" /\ p.token = q.token /\ p.status = q.status /\ p.event = q.event
        /\ p.historical = q.historical
    BY <1>0 DEF Request
  <2>2. req' = [req EXCEPT ![r] = p] /\ UNCHANGED <<syncEvents, offered>>
    BY <1>5 DEF Allocate
  <2> HIDE DEF p
  <2>3. Judged(p)
    BY <1>0, <2>1 DEF Judged
  <2> QED
    BY <1>1, <2>2, <2>3, JudgedAgain
<1>6. ASSUME NEW token \in Tokens, Reserve(r, token)
      PROVE  Judgements' /\ \A e : Rejected(e) => Rejected(e)'
  <2>1. UNCHANGED <<syncEvents, offered>>
    BY <1>6 DEF Reserve
  <2>2. ASSUME req' = [req EXCEPT ![r].pc = "allocate"]
        PROVE  Judgements'
    <3> DEFINE p == [q EXCEPT !.pc = "allocate"]
    <3>1. /\ p.pc = "allocate" /\ p.token = q.token /\ p.status = q.status /\ p.event = q.event
          /\ p.historical = q.historical
      BY <1>0 DEF Request
    <3>2. req' = [req EXCEPT ![r] = p]
      BY <2>2
    <3> HIDE DEF p
    <3>3. Judged(p)
      BY <1>0, <3>1 DEF Judged
    <3> QED
      BY <2>1, <3>2, <3>3, JudgedAgain
  <2>3. ASSUME NEW receipt, NEW status \in {"reserved", "receipt_busy"}, Answer(r, status, receipt)
        PROVE  Judgements'
    BY <2>1, <2>3, AnswerJudged
  <2>4. Judgements'
    BY <1>6, <2>2, <2>3 DEF Reserve, Refuse
  <2> QED
    BY <1>1, <2>1, <2>4
<1>7. CASE Fail(r)
  <2>1. UNCHANGED <<syncEvents, offered>> /\ Answer(r, "error", NoReceipt)
    BY <1>7 DEF Fail, Refuse
  <2> QED
    BY <1>1, <2>1, AnswerJudged
<1> QED
  BY <1>2, <1>3, <1>4, <1>5, <1>6, <1>7 DEF Serve

\* The same for every step of the system.
LEMMA SystemJudged ==
  ASSUME OneAtATime, MaxDay = 1, Connected, Judgements, [SystemNext]_systemVars
  PROVE  Judgements' /\ \A e : Rejected(e) => Rejected(e)'
<1>0. Typed
  BY DEF Connected, Sound, Idempotent
<1>1. ASSUME UNCHANGED <<syncEvents, offered>>
      PROVE  \A e : Rejected(e) => Rejected(e)'
  BY <1>1 DEF Rejected, Booked
<1>2. ASSUME UNCHANGED <<syncEvents, offered, req>>
      PROVE  Judgements'
  BY <1>2 DEF Judgements, Judged, Rejected, Booked
<1>3. ASSUME NEW r \in Requests, Finish(r)
      PROVE  Judgements' /\ \A e : Rejected(e) => Rejected(e)'
  BY <1>0, <1>1, <1>3, FinishJudged
<1>4. ASSUME NEW r \in Requests, NEW e \in Events, NEW supplied,
             ReceiveSale(r, e, NoToken, supplied)
      PROVE  Judgements' /\ \A d : Rejected(d) => Rejected(d)'
  <2>1. UNCHANGED <<syncEvents, offered>>
    BY <1>4 DEF ReceiveSale
  <2> QED
    BY <1>0, <1>1, <1>4, <2>1, ReceiveJudged
<1>5. ASSUME UNCHANGED vars
      PROVE  Judgements' /\ \A e : Rejected(e) => Rejected(e)'
  BY <1>1, <1>2, <1>5 DEF vars
<1>6. CASE Selling
  <2>1. ASSUME NEW t \in Tabs, NEW e \in Events, Sell(t, e)
        PROVE  Judgements' /\ \A d : Rejected(d) => Rejected(d)'
    BY <1>4, <1>5, <2>1 DEF Sell
  <2>2. ASSUME NEW e \in Events, ViewAnswer(e)
        PROVE  Judgements' /\ \A d : Rejected(d) => Rejected(d)'
    BY <1>3, <2>2 DEF ViewAnswer, Connected, Sound, DeviceTyped, FirstTyped
  <2> QED
    BY <1>5, <1>6, <2>1, <2>2 DEF Selling, SellPractice, ViewLost
<1>7. ASSUME NEW t \in Tabs, Flushing(t)
      PROVE  Judgements' /\ \A e : Rejected(e) => Rejected(e)'
  <2>1. CASE TakeNext(t)
    <3>1. CASE flush[t].todo = {}
      BY <1>5, <2>1, <3>1 DEF TakeNext
    <3>2. CASE flush[t].todo # {}
      <4>1. Oldest(flush[t].todo) \in Events
        BY <3>2, OldestIsOldest DEF Connected, Sound, DeviceTyped, FlushTyped, Flush
      <4> QED
        BY <1>4, <1>5, <2>1, <3>2, <4>1 DEF TakeNext
    <3> QED
      BY <3>1, <3>2
  <2>2. CASE FlushAnswer(t)
    BY <1>3, <2>2 DEF FlushAnswer, Connected, Sound, DeviceTyped, FlushTyped, Complete
  <2> QED
    BY <1>5, <1>7, <2>1, <2>2 DEF Flushing, FlushLost, MarkRead, MarkWrite
<1>8. CASE Serving
  <2>1. CASE Background
    <3>1. UNCHANGED <<syncEvents, offered, req>>
      BY <2>1 DEF Background, CancelIntent, Expire, PurgeExpired, Midnight
    <3> QED
      BY <1>1, <1>2, <3>1
  <2> QED
    BY <1>0, <1>8, <2>1, ServeJudged DEF Serving
<1>9. ASSUME NEW t \in Tabs, Tap(t) \/ Reload(t) \/ SwitchMode(t)
      PROVE  Judgements' /\ \A e : Rejected(e) => Rejected(e)'
  BY <1>5, <1>9 DEF Tap, Reload, SwitchMode
<1>10. ASSUME NEW r \in Requests, Discard(r)
       PROVE  Judgements' /\ \A e : Rejected(e) => Rejected(e)'
  BY <1>3, <1>10 DEF Discard
<1>11. CASE LinkChanges \/ UNCHANGED systemVars
  BY <1>5, <1>11 DEF LinkChanges, systemVars
<1> QED
  BY <1>6, <1>7, <1>8, <1>9, <1>10, <1>11 DEF SystemNext

\* An entry is marked as rejected for such an answer only.
LEMMA VerdictsKept ==
  ASSUME Verdicts, \A e : Rejected(e) => Rejected(e)',
         \A t \in Tabs : flush'[t].pc \in {"read", "write"} /\ flush'[t].permanent =>
           \/ Rejected(flush'[t].event)
           \/ flush[t].pc \in {"read", "write"} /\ flush[t].permanent
              /\ flush'[t].event = flush[t].event,
         \A e \in Events : outbox'[e] = "failed" => outbox[e] = "failed" \/ Rejected(e)
  PROVE  Verdicts'
<1>1. ASSUME NEW t \in Tabs, flush'[t].pc \in {"read", "write"}, flush'[t].permanent
      PROVE  Rejected(flush[t].event)'
  <2>1. \E e : e = flush'[t].event /\ Rejected(e)
    BY <1>1 DEF Verdicts
  <2>2. PICK e : e = flush'[t].event /\ Rejected(e)
    BY <2>1
  <2>3. Rejected(e)'
    BY <2>2
  <2> QED
    BY <2>2, <2>3 DEF Rejected
<1>2. \A e \in Events : outbox'[e] = "failed" => Rejected(e)'
  BY DEF Verdicts
<1> QED
  BY <1>1, <1>2 DEF Verdicts

LEMMA FlushingVerdicts ==
  ASSUME Deciding, NEW t \in Tabs, Flushing(t), \A e : Rejected(e) => Rejected(e)'
  PROVE  Verdicts'
<1> DEFINE f == flush[t]
<1>0. /\ f \in Flush /\ Complete(f) /\ flush \in [Tabs -> Flush]
      /\ outbox \in [Events -> {"none", "pending", "failed"}]
  BY DEF Deciding, Delivering, Connected, Sound, DeviceTyped, FlushTyped
<1>1. ASSUME NEW g, flush' = [flush EXCEPT ![t] = g],
             g.pc \in {"read", "write"} /\ g.permanent =>
               \/ Rejected(g.event)
               \/ f.pc \in {"read", "write"} /\ f.permanent /\ g.event = f.event,
             \A e \in Events : outbox'[e] = "failed" => outbox[e] = "failed" \/ Rejected(e)
      PROVE  Verdicts'
  <2>1. flush'[t] = g /\ \A u \in Tabs \ {t} : flush'[u] = flush[u]
    BY <1>0, <1>1
  <2> QED
    BY <1>1, <2>1, VerdictsKept DEF Deciding
<1>2. Resting.pc = "idle" /\ AfterMark(f).pc \notin {"read", "write"}
  BY <1>0 DEF AfterMark, Resting, Flush
<1>3. CASE TakeNext(t)
  <2>1. CASE f.todo = {}
    BY <1>1, <1>2, <1>3, <2>1 DEF TakeNext
  <2>2. CASE f.todo # {}
    <3> DEFINE e == Oldest(f.todo)
               taken == [f EXCEPT !.todo = @ \ {e}, !.event = e]
               marked == [taken EXCEPT !.pc = "read", !.permanent = FALSE]
               sent(r) == [taken EXCEPT !.pc = "sent", !.slot = r]
    <3>1. e \in Events
      BY <1>0, <2>2, OldestIsOldest DEF Flush
    <3>2. mode[t] = "normal" /\ Known(t, e)
      BY DEF Known, Deciding, Delivering, NoPractice
    <3>3. taken \in Flush /\ taken.pc = "next"
      BY <1>0, <1>3, <3>1 DEF Flush, TakeNext
    <3>4. ~marked.permanent /\ \A r \in Requests : sent(r).pc = "sent"
      BY <3>3 DEF Flush
    <3>5. /\ UNCHANGED outbox
          /\ \/ \E r \in Requests : flush' = [flush EXCEPT ![t] = sent(r)]
             \/ flush' = [flush EXCEPT ![t] = marked]
      BY <1>3, <2>2, <3>2 DEF TakeNext
    <3> HIDE DEF taken, e, sent, marked
    <3> QED
      BY <1>1, <3>4, <3>5
  <2> QED
    BY <2>1, <2>2
<1>4. CASE FlushAnswer(t)
  <2> DEFINE status == req[f.slot].status
             settled == [f EXCEPT !.pc = "next", !.slot = NoSlot]
             refused == [f EXCEPT !.pc = "read", !.slot = NoSlot, !.permanent = Final(status)]
  <2>1. f.pc = "sent" /\ f.slot \in Requests /\ f.event \in Events /\ req[f.slot].event = f.event
    BY <1>0, <1>4 DEF FlushAnswer, Complete, InHand, Deciding, Delivering, Connected, SlotsAwaited,
                      Serves
  <2>2. Final(status) => Rejected(f.event)
    BY <2>1 DEF Final, Deciding, Judgements, Judged
  <2>3. settled.pc = "next" /\ refused.event = f.event /\ (refused.permanent => Final(status))
    BY <1>0 DEF Flush
  <2>4. \/ outbox' = [outbox EXCEPT ![f.event] = "none"] /\ flush' = [flush EXCEPT ![t] = settled]
        \/ outbox' = outbox /\ flush' = [flush EXCEPT ![t] = refused]
    BY <1>4 DEF FlushAnswer
  <2>5. \A e \in Events : outbox'[e] = "failed" => outbox[e] = "failed"
    BY <1>0, <2>4
  <2> HIDE DEF settled, refused, status
  <2> QED
    BY <1>1, <2>2, <2>3, <2>4, <2>5
<1>5. CASE FlushLost(t)
  <2> DEFINE g == [f EXCEPT !.pc = "read", !.slot = NoSlot, !.permanent = FALSE]
  <2>1. flush' = [flush EXCEPT ![t] = g] /\ UNCHANGED outbox
    BY <1>5 DEF FlushLost
  <2>2. ~g.permanent
    BY <1>0 DEF Flush
  <2> HIDE DEF g
  <2> QED
    BY <1>1, <2>1, <2>2
<1>6. CASE MarkRead(t)
  <2> DEFINE g == [f EXCEPT !.pc = "write"]
  <2>1. f.pc = "read" /\ g.event = f.event /\ g.permanent = f.permanent
    BY <1>0, <1>6 DEF Flush, MarkRead
  <2>2. /\ UNCHANGED outbox
        /\ flush' = [flush EXCEPT ![t] = AfterMark(f)] \/ flush' = [flush EXCEPT ![t] = g]
    BY <1>6 DEF MarkRead
  <2> HIDE DEF g
  <2> QED
    BY <1>1, <1>2, <2>1, <2>2
<1>7. CASE MarkWrite(t)
  <2>1. /\ flush' = [flush EXCEPT ![t] = AfterMark(f)] /\ f.pc = "write"
        /\ outbox' = [outbox EXCEPT ![f.event] = IF f.permanent THEN "failed" ELSE "pending"]
    BY <1>7 DEF MarkWrite
  <2>2. f.permanent => Rejected(f.event)
    BY <2>1 DEF Deciding, Verdicts
  <2>3. \A e \in Events : outbox'[e] = "failed" => outbox[e] = "failed" \/ Rejected(e)
    BY <1>0, <2>1, <2>2
  <2> QED
    BY <1>1, <1>2, <2>1, <2>3
<1> QED
  BY <1>3, <1>4, <1>5, <1>6, <1>7 DEF Flushing

LEMMA StepDeciding ==
  ASSUME OneAtATime, MaxDay = 1, ~Sandbox
  PROVE  Deciding /\ [SystemNext]_systemVars => Deciding'
<1> SUFFICES ASSUME Deciding, [SystemNext]_systemVars PROVE Deciding'
  OBVIOUS
<1>0. Delivering'
  BY StepDelivering DEF Deciding
<1>1. Judgements' /\ \A e : Rejected(e) => Rejected(e)'
  BY SystemJudged DEF Deciding, Delivering
<1>2. ASSUME \A t \in Tabs : flush'[t].pc \in {"read", "write"} => flush'[t] = flush[t],
             \A e \in Events : outbox'[e] = "failed" => outbox[e] = "failed"
      PROVE  Verdicts'
  BY <1>1, <1>2, VerdictsKept DEF Deciding
<1>3. ASSUME Selling
      PROVE  Verdicts'
  <2>1. outbox \in [Events -> {"none", "pending", "failed"}]
    BY DEF Deciding, Delivering, Connected, Sound, DeviceTyped
  <2>2. UNCHANGED flush
    BY <1>3 DEF Selling, Sell, SellPractice, ViewAnswer, ViewLost
  <2>3. \A e \in Events : outbox'[e] = "failed" => outbox[e] = "failed"
    BY <1>3, <2>1 DEF Selling, Sell, SellPractice, ViewAnswer, ViewLost, Queue
  <2> QED
    BY <1>2, <2>2, <2>3
<1>4. ASSUME NEW t \in Tabs, Tap(t) \/ Reload(t) \/ LinkChanges
      PROVE  Verdicts'
  <2>1. UNCHANGED outbox /\ flush \in [Tabs -> Flush]
    BY <1>4 DEF Tap, Reload, LinkChanges, Deciding, Delivering, Connected, Sound, DeviceTyped,
                FlushTyped
  <2>2. \A f : StartFlush(f) = f \/ StartFlush(f).pc = "next"
    BY DEF StartFlush, Resting
  <2>3. Resting.pc = "idle" /\ StartFlush(Resting).pc = "next"
    BY DEF StartFlush, Resting
  <2> HIDE DEF StartFlush, Resting
  <2>4. \A u \in Tabs : flush'[u] = flush[u] \/ flush'[u].pc \in {"idle", "next"}
    BY <1>4, <2>1, <2>2, <2>3 DEF Tap, Reload, LinkChanges
  <2> QED
    BY <1>2, <2>1, <2>4
<1>5. ASSUME UNCHANGED <<flush, outbox>>
      PROVE  Verdicts'
  BY <1>2, <1>5
<1>6. ASSUME NEW t \in Tabs, SwitchMode(t)
      PROVE  Verdicts'
  BY <1>5, <1>6 DEF SwitchMode
<1>7. ASSUME Serving \/ UNCHANGED systemVars \/ \E r \in Requests : Discard(r)
      PROVE  Verdicts'
  BY <1>5, <1>7 DEF Serving, systemVars, Discard, device
<1>8. ASSUME LinkChanges
      PROVE  Verdicts'
  <2>1. CASE Tabs = {}
    BY <1>2, <1>8, <2>1 DEF LinkChanges
  <2> QED
    BY <1>4, <1>8, <2>1
<1>9. Verdicts'
  BY <1>1, <1>3, <1>4, <1>6, <1>7, <1>8, FlushingVerdicts DEF SystemNext
<1> QED
  BY <1>0, <1>1, <1>9 DEF Deciding

LEMMA InitDeciding == SystemInit => Deciding
<1> SUFFICES ASSUME SystemInit PROVE Deciding
  OBVIOUS
<1>1. Judgements
  BY DEF SystemInit, Init, Idle, Judgements, Judged
<1>2. Verdicts
  BY DEF SystemInit, Resting, Verdicts
<1> QED
  BY <1>1, <1>2, InitDelivering DEF Deciding

\* A sale the seller is asked to book again was not booked: on one day, by a server
\* that takes one request at a time, without the practice mode.
THEOREM RejectedForGood ==
  ASSUME OneAtATime, MaxDay = 1, ~Sandbox
  PROVE  SystemSpec => []RejectedNotBooked
<1>1. Deciding /\ [SystemNext]_systemVars => Deciding'
  BY StepDeciding
<1>2. Deciding => RejectedNotBooked
  BY DEF Deciding, Verdicts, Rejected, RejectedNotBooked
<1> QED
  BY <1>1, <1>2, InitDeciding, PTL DEF SystemSpec
=============================================================================
