---------------------------- MODULE SalesBooking ----------------------------
(***************************************************************************)
(* The server side of a sale: POST /sales, POST /sales/historical and the  *)
(* payment-QR reservations that share the sales' receipt sequence.         *)
(*                                                                         *)
(* Several requests are served at the same time.  A booking looks its      *)
(* event up outside any transaction (sales.Service.replay), then opens one *)
(* transaction: its plain reads all see the snapshot taken by the first of *)
(* them (MariaDB, REPEATABLE READ), its writes become visible together at  *)
(* the commit.  Begin is the reading half, Commit the writing half.  The   *)
(* QR reservation runs without a transaction: Allocate reads, Reserve      *)
(* writes, and a duplicate key sends it round again.                       *)
(*                                                                         *)
(* Definitions introduced with "Fault:" are not part of Spec: each is a    *)
(* plausible bug in the definition that follows it, kept to show that the  *)
(* properties would notice.                                                *)
(***************************************************************************)
EXTENDS Naturals, Sequences, FiniteSets

CONSTANTS
  Requests,           \* slots for HTTP requests served at the same time
  Events,             \* client event ids, the idempotency keys of the devices
  Tokens,             \* the random tokens of payment-QR reservations
  NoEvent, NoToken,   \* a booking without an event id, without a token
  MaxDay,             \* bound: the calendar runs from day 1 to this day
  MaxAnonymous,       \* bound: bookings that carry no event id
  MaxAttempts,        \* attempts of createPaymentQRIntent (4 in the code)
  Stock,              \* units on hand of the band's last no-reorder variant
  SnapshotIsolation   \* innodb_snapshot_isolation: a write to a row changed
                      \* since the snapshot fails (default from 11.6.2 on)

ASSUME ConstantsAssumption ==
  /\ NoEvent \notin Events
  /\ NoToken \notin Tokens
  /\ MaxDay \in Nat \ {0}
  /\ MaxAnonymous \in Nat
  /\ MaxAttempts \in Nat \ {0}
  /\ Stock \in Nat \ {0}
  /\ SnapshotIsolation \in BOOLEAN

VARIABLES
  today,        \* s.today()
  sales,        \* table sales, one entry per basket, in order of commit
  syncEvents,   \* table sync_events, unique on the event
  intents,      \* table payment_qr_intents, unique on the receipt
  expired,      \* tokens whose expires_at has passed
  shown,        \* the receipt each issued token was shown with (observation)
  offered,      \* is_offered of the no-reorder variant every basket sells
  req           \* the requests being served

vars == <<today, sales, syncEvents, intents, expired, shown, offered, req>>

-----------------------------------------------------------------------------
(* Receipt ids.  V-20260827-003 is the record [day |-> .., number |-> 3].   *)

Days == 1..MaxDay
Receipt == [day : Days, number : Nat \ {0}]
NoReceipt == [day |-> 0, number |-> 0]

Basket == [receipt : Receipt, event : Events \cup {NoEvent},
           token : Tokens \cup {NoToken}]
SyncEvent == [event : Events, hash : [day : Days, historical : BOOLEAN],
              receipt : Receipt]
Intent == [token : Tokens, receipt : Receipt, consumed : BOOLEAN]

\* Fault: the reservations are left out of the scan.
TakenBySales(day, token) ==
  {r \in {sales[i].receipt : i \in DOMAIN sales} : r.day = day}

\* Fault: the sales are left out of the scan.
TakenByIntents(day, token) ==
  {i.receipt : i \in {j \in intents : /\ j.token \notin expired
                                       /\ j.token # token
                                       /\ j.receipt.day = day}}

\* Fault: the caller's own reservation counts as taken.
TakenByAnyone(day, token) ==
  TakenBySales(day, token) \cup TakenByIntents(day, NoToken)

\* takenIDsExcludingIntent: the receipts of the day's sales and of the
\* reservations that have not expired, minus the caller's own one.  A cancelled
\* reservation is no longer a row.
TakenExcluding(day, token) ==
  {r \in {sales[i].receipt : i \in DOMAIN sales}
         \cup {i.receipt : i \in {j \in intents : /\ j.token \notin expired
                                                   /\ j.token # token}} :
     r.day = day}

Taken(day) == TakenExcluding(day, NoToken)

\* The largest sequence number in use, 0 on a day without receipts.
Highest(taken) ==
  LET numbers == {0} \cup {r.number : r \in taken}
  IN  CHOOSE n \in numbers : \A m \in numbers : m <= n

\* Next: it scans every id in use, reservations included.
NextReceipt(day) == [day |-> day, number |-> Highest(Taken(day)) + 1]

\* Allocate: the supplied id if it belongs to the day and is free for this
\* token, a fresh one otherwise.
AllocateReceipt(supplied, day, token) ==
  IF supplied.day = day /\ supplied \notin TakenExcluding(day, token)
  THEN supplied
  ELSE NextReceipt(day)

\* What receiptPreview may have shown a device some time before: Next numbers
\* the day upwards, so every number up to the next one was proposed once.
Previews(day) ==
  {NoReceipt} \cup {[day |-> day, number |-> n] : n \in 1..NextReceipt(day).number}

-----------------------------------------------------------------------------
(* Requests.                                                                *)

PCs == {"idle", "replay", "begin", "commit", "allocate", "reserve", "answered"}
Statuses == {"none", "created", "replayed", "sync_conflict", "code_unusable",
             "not_offered", "reserved", "receipt_busy", "error"}

Request ==
  [pc : PCs, status : Statuses, event : Events \cup {NoEvent},
   token : Tokens \cup {NoToken}, day : Days \cup {0}, historical : BOOLEAN,
   supplied : Receipt \cup {NoReceipt}, receipt : Receipt \cup {NoReceipt},
   redeem : SUBSET Intent, withdraw : BOOLEAN, attempt : 0..MaxAttempts]

Idle ==
  [pc |-> "idle", status |-> "none", event |-> NoEvent, token |-> NoToken,
   day |-> 0, historical |-> FALSE, supplied |-> NoReceipt,
   receipt |-> NoReceipt, redeem |-> {}, withdraw |-> FALSE, attempt |-> 0]

Booked == {s.event : s \in syncEvents}

\* payloadHashFor.  A device resends an event with the payload it first sent,
\* so the only parts that can differ are the ones the server fills in: the
\* booking day (part of the fingerprint) and the historical namespace.
HashOf(q) == [day |-> q.day, historical |-> q.historical]

Answer(r, status, receipt) ==
  req' = [req EXCEPT ![r] = [Idle EXCEPT
            !.pc = "answered", !.status = status, !.event = req[r].event,
            !.receipt = receipt]]

Refuse(r, status) == Answer(r, status, NoReceipt)

-----------------------------------------------------------------------------
(* Arrival of a request.                                                    *)

Anonymous == {i \in DOMAIN sales : sales[i].event = NoEvent}

\* createSale: a request without sold_on is dated with the day of its arrival.
\* The app sends none.  A booking with an event id looks the event up first.
ReceiveSale(r, e, token, supplied) ==
  /\ req[r].pc = "idle"
  /\ e = NoEvent => Cardinality(Anonymous) < MaxAnonymous
  /\ req' = [req EXCEPT ![r] = [Idle EXCEPT
               !.pc = IF e = NoEvent THEN "begin" ELSE "replay",
               !.event = e, !.token = token, !.day = today,
               !.supplied = supplied]]
  /\ UNCHANGED <<today, sales, syncEvents, intents, expired, shown, offered>>

\* createHistoricalSale: a past or present day chosen by the manager, always
\* with an event id, never with a payment code.
ReceiveHistorical(r, e, day, supplied) ==
  /\ req[r].pc = "idle"
  /\ e \in Events
  /\ day <= today
  /\ req' = [req EXCEPT ![r] = [Idle EXCEPT
               !.pc = "replay", !.event = e, !.day = day, !.historical = TRUE,
               !.supplied = supplied]]
  /\ UNCHANGED <<today, sales, syncEvents, intents, expired, shown, offered>>

\* createPaymentQRIntent: the quote fails for a withdrawn variant.
ReceiveReservation(r, supplied) ==
  /\ req[r].pc = "idle"
  /\ offered
  /\ req' = [req EXCEPT ![r] = [Idle EXCEPT
               !.pc = "allocate", !.day = today, !.supplied = supplied]]
  /\ UNCHANGED <<today, sales, syncEvents, intents, expired, shown, offered>>

-----------------------------------------------------------------------------
(* Booking.                                                                 *)

\* replay: an event already in sync_events is answered from there, before and
\* outside the booking's transaction.
Replay(r) ==
  /\ req[r].pc = "replay"
  /\ \/ /\ req[r].event \notin Booked
        /\ req' = [req EXCEPT ![r].pc = "begin"]
     \/ \E s \in syncEvents :
          /\ s.event = req[r].event
          /\ IF s.hash = HashOf(req[r])
             THEN Answer(r, "replayed", s.receipt)
             ELSE Refuse(r, "sync_conflict")
  /\ UNCHANGED <<today, sales, syncEvents, intents, expired, shown, offered>>

\* Fault: a consumed reservation is accepted again.
RedeemableAgain(token) ==
  {i \in intents : i.token = token /\ token \notin expired}

\* redeemIntent: present, not consumed, not past its expiry.
Redeemable(token) ==
  {i \in intents : i.token = token /\ ~i.consumed /\ token \notin expired}

Sellable(r) == offered \/ req[r].historical

\* Fault: the units of the basket being booked are not counted.
DepletesLate == offered /\ Len(sales) >= Stock

\* AutoWithdrawDepleted sees the snapshot plus this transaction's own rows.
Depletes == offered /\ Len(sales) + 1 >= Stock

\* The reading half of book: loadPrices and Prepare, redeemIntent, Allocate
\* and the stock check of AutoWithdrawDepleted all read one snapshot.
Begin(r) ==
  /\ req[r].pc = "begin"
  /\ LET q == req[r]
         redeem == Redeemable(q.token)
     IN  \/ /\ ~Sellable(r)
            /\ Refuse(r, "not_offered")
         \/ /\ Sellable(r)
            /\ q.token # NoToken /\ redeem = {}
            /\ Refuse(r, "code_unusable")
         \/ /\ Sellable(r)
            /\ q.token = NoToken
            /\ req' = [req EXCEPT ![r].pc = "commit",
                         ![r].receipt = AllocateReceipt(q.supplied, q.day, NoToken),
                         ![r].withdraw = Depletes]
         \/ /\ Sellable(r)
            /\ \E intent \in redeem :
                 req' = [req EXCEPT ![r].pc = "commit",
                           ![r].redeem = {intent},
                           ![r].receipt = AllocateReceipt(intent.receipt, q.day, q.token),
                           ![r].withdraw = Depletes]
  /\ UNCHANGED <<today, sales, syncEvents, intents, expired, shown, offered>>

\* A row this transaction writes was changed since its snapshot.
WritesStaleRow(q) ==
  \/ ~(q.redeem \subseteq intents)
  \/ q.withdraw /\ ~offered

\* consumeIntent: UPDATE .. WHERE token = ?, whatever the row's state.
Consume(table, token) ==
  {i \in table : i.token # token}
  \cup {[i EXCEPT !.consumed = TRUE] : i \in {j \in table : j.token = token}}

\* Fault: sync_events without its unique key.
DuplicateAccepted(q) == FALSE

\* The unique key of sync_events on (band_id, event_id).
DuplicateEvent(q) == q.event \in Booked

\* Fault: the event is not recorded.
SyncRowForgotten(q) == {}

\* Fault: the record keeps the receipt the device proposed.
SyncRowAsProposed(q) ==
  {[event |-> e, hash |-> HashOf(q), receipt |-> q.supplied] : e \in {q.event} \ {NoEvent}}

\* recordSyncEvent: the event with its fingerprint and the stored answer.
SyncRow(q) ==
  {[event |-> e, hash |-> HashOf(q), receipt |-> q.receipt] : e \in {q.event} \ {NoEvent}}

\* The writing half of book, in one step: rows, withdrawal, consumeIntent,
\* recordSyncEvent, COMMIT.  A second row for the same event violates the
\* unique key; the transaction rolls back and the client sees a 500.
Commit(r) ==
  /\ req[r].pc = "commit"
  /\ LET q == req[r]
         fails == DuplicateEvent(q) \/ (SnapshotIsolation /\ WritesStaleRow(q))
     IN  \/ /\ fails
            /\ Refuse(r, "error")
            /\ UNCHANGED <<sales, syncEvents, intents, offered>>
         \/ /\ ~fails
            /\ sales' = Append(sales, [receipt |-> q.receipt, event |-> q.event,
                                       token |-> q.token])
            /\ offered' = (offered /\ ~q.withdraw)
            /\ intents' = Consume(intents, q.token)
            /\ syncEvents' = syncEvents \cup SyncRow(q)
            /\ Answer(r, "created", q.receipt)
  /\ UNCHANGED <<today, expired, shown>>

-----------------------------------------------------------------------------
(* Payment-QR reservations.                                                 *)

\* One round of the allocation loop reads the ids in use ...
Allocate(r) ==
  /\ req[r].pc = "allocate"
  /\ req' = [req EXCEPT ![r].pc = "reserve",
               ![r].receipt = AllocateReceipt(req[r].supplied, req[r].day, NoToken),
               ![r].attempt = req[r].attempt + 1]
  /\ UNCHANGED <<today, sales, syncEvents, intents, expired, shown, offered>>

\* Rows CreateIntent deletes before it inserts: released, never consumed.
Released(receipt) ==
  {i \in intents : i.receipt = receipt /\ ~i.consumed /\ i.token \in expired}

\* ... and CreateIntent writes the row, without a transaction around the two:
\* the unique key on the receipt decides, the loser allocates again.
Reserve(r, token) ==
  /\ req[r].pc = "reserve"
  /\ LET q == req[r]
         rest == intents \ Released(q.receipt)
         duplicate == \E i \in rest : i.receipt = q.receipt
     IN  \/ /\ ~duplicate
            /\ shown[token] = NoReceipt
            /\ intents' = rest \cup {[token |-> token, receipt |-> q.receipt,
                                      consumed |-> FALSE]}
            /\ shown' = [shown EXCEPT ![token] = q.receipt]
            /\ Answer(r, "reserved", q.receipt)
         \/ /\ duplicate
            /\ intents' = rest
            /\ IF q.attempt < MaxAttempts
               THEN req' = [req EXCEPT ![r].pc = "allocate"]
               ELSE Refuse(r, "receipt_busy")
            /\ UNCHANGED shown
  /\ UNCHANGED <<today, sales, syncEvents, expired, offered>>

\* Fault: a redeemed reservation can be cancelled.
CancelAnyIntent(token) ==
  /\ \E i \in intents : i.token = token
  /\ intents' = {i \in intents : i.token # token}
  /\ UNCHANGED <<today, sales, syncEvents, expired, shown, offered, req>>

\* CancelIntent deletes the row of a reservation nobody redeemed.
CancelIntent(token) ==
  /\ \E i \in intents : i.token = token /\ ~i.consumed
  /\ intents' = {i \in intents : i.token # token}
  /\ UNCHANGED <<today, sales, syncEvents, expired, shown, offered, req>>

\* IntentTTL passes for one reservation.
Expire(token) ==
  /\ shown[token] # NoReceipt
  /\ token \notin expired
  /\ expired' = expired \cup {token}
  /\ UNCHANGED <<today, sales, syncEvents, intents, shown, offered, req>>

\* The scheduler's PurgeExpired: long-expired reservations, consumed ones stay.
PurgeExpired ==
  /\ \E i \in intents : i.token \in expired /\ ~i.consumed
  /\ \E purged \in SUBSET {i \in intents : i.token \in expired /\ ~i.consumed} :
       /\ purged # {}
       /\ intents' = intents \ purged
  /\ UNCHANGED <<today, sales, syncEvents, expired, shown, offered, req>>

-----------------------------------------------------------------------------
(* Failures, answers and the calendar.                                      *)

\* The database or the server fails a request before its write: a 5xx answer,
\* and the transaction rolls back.
Fail(r) ==
  /\ req[r].pc \in {"replay", "begin", "commit", "allocate", "reserve"}
  /\ Refuse(r, "error")
  /\ UNCHANGED <<today, sales, syncEvents, intents, expired, shown, offered>>

\* The answer leaves the server; the slot is free again.
Finish(r) ==
  /\ req[r].pc = "answered"
  /\ req' = [req EXCEPT ![r] = Idle]
  /\ UNCHANGED <<today, sales, syncEvents, intents, expired, shown, offered>>

Midnight ==
  /\ today < MaxDay
  /\ today' = today + 1
  /\ UNCHANGED <<sales, syncEvents, intents, expired, shown, offered, req>>

-----------------------------------------------------------------------------

Init ==
  /\ today = 1
  /\ sales = <<>>
  /\ syncEvents = {}
  /\ intents = {}
  /\ expired = {}
  /\ shown = [t \in Tokens |-> NoReceipt]
  /\ offered = TRUE
  /\ req = [r \in Requests |-> Idle]

\* The steps the server takes on its own once a request has arrived.
Serve(r) ==
  \/ Replay(r) \/ Begin(r) \/ Commit(r)
  \/ Allocate(r) \/ \E token \in Tokens : Reserve(r, token)
  \/ Fail(r)

\* What happens to reservations and the calendar outside the request slots.
Background ==
  \/ \E token \in Tokens : CancelIntent(token) \/ Expire(token)
  \/ PurgeExpired
  \/ Midnight

\* Any client: the tokens it may quote are the ones it was shown.
Receive(r) ==
  \/ \E e \in Events \cup {NoEvent}, s \in Previews(today) :
       ReceiveSale(r, e, NoToken, s)
  \/ \E e \in Events \cup {NoEvent}, t \in Tokens :
       shown[t] # NoReceipt /\ ReceiveSale(r, e, t, shown[t])
  \/ \E e \in Events, day \in Days : \E s \in Previews(day) :
       ReceiveHistorical(r, e, day, s)
  \/ \E s \in Previews(today) : ReceiveReservation(r, s)

Next ==
  \/ \E r \in Requests : Receive(r) \/ Serve(r) \/ Finish(r)
  \/ Background

Spec == Init /\ [][Next]_vars

-----------------------------------------------------------------------------
(* Properties.                                                              *)

\* The tables and the requests hold values of their kind.
TypeOK ==
  /\ today \in Days
  /\ sales \in Seq(Basket)
  /\ syncEvents \subseteq SyncEvent
  /\ intents \subseteq Intent
  /\ expired \subseteq Tokens
  /\ shown \in [Tokens -> Receipt \cup {NoReceipt}]
  /\ offered \in BOOLEAN
  /\ req \in [Requests -> Request]

BasketsOf(e) == {i \in DOMAIN sales : sales[i].event = e}

\* However often and however concurrently a device sends an event, the ledger
\* holds exactly one basket for it once sync_events knows it and none before
\* (book, replay and recordSyncEvent together).
EventBookedOnce ==
  \A e \in Events :
    /\ \A i, j \in BasketsOf(e) : i = j
    /\ e \in Booked <=> BasketsOf(e) # {}

\* Every success a device hears of for an event, the first answer as well as
\* each replay, names the receipt the event's one basket is stored under.
AnswersNameTheBasket ==
  \A r \in Requests :
    /\ req[r].status \in {"created", "replayed"}
    /\ req[r].event # NoEvent
    => \E i \in BasketsOf(req[r].event) : sales[i].receipt = req[r].receipt

\* A payment code is redeemed by at most one basket (redeemIntent and
\* consumeIntent, without a lock on the reservation).
CodeRedeemedOnce ==
  \A i, j \in DOMAIN sales :
    sales[i].token = sales[j].token /\ sales[i].token # NoToken => i = j

\* A reservation a basket was booked under stays on record as consumed: no
\* cancellation, replacement or purge released it before or after.
RedeemedStaysConsumed ==
  \A i \in DOMAIN sales :
    sales[i].token # NoToken =>
      \E row \in intents : row.token = sales[i].token /\ row.consumed

\* No two baskets share a receipt id (Allocate, receipt.go:54-57: Allocate is
\* what settles the number at write time).
ReceiptsUnique ==
  \A i, j \in DOMAIN sales : sales[i].receipt = sales[j].receipt => i = j

\* The number of a displayed code that was neither cancelled nor left to expire.
Held(t) == t \notin expired /\ \E i \in intents : i.token = t

\* An already displayed code never points at a different sale
\* (receipt.go:3-6, paymentqr CreateIntent).
DisplayedCodeKept ==
  \A t \in Tokens, i \in DOMAIN sales :
    Held(t) /\ sales[i].receipt = shown[t] => sales[i].token = t

\* The code the customer scanned decides the receipt id (service.go:122), on the
\* day it was shown.
ScannedCodeDecides ==
  \A i \in DOMAIN sales :
    sales[i].token # NoToken /\ sales[i].receipt.day = shown[sales[i].token].day =>
      sales[i].receipt = shown[sales[i].token]

\* Once the last unit of a no-reorder variant is sold the variant is no longer
\* offered (auto_withdraw.go:18-20).
DepletedWithdrawn == Len(sales) >= Stock => ~offered

\* Refinement: every event is booked at most once and for good.
Once == INSTANCE BookedOnce WITH booked <- [e \in Events |-> BasketsOf(e)]
BookedOnceSpec == Once!Spec
=============================================================================
