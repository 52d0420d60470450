---------------------------- MODULE OfflineSales ----------------------------
(***************************************************************************)
(* A selling device and the server it books on.  A sale is delivered once  *)
(* by the sales page; when the network fails it goes to the outbox in      *)
(* IndexedDB, and flushes transmit the outbox until the server has decided *)
(* every entry.  Every browser tab of the device has a flush of its own    *)
(* over the one outbox.                                                    *)
(*                                                                         *)
(* The server is SalesBooking: a delivery occupies one of its request      *)
(* slots, and goes on being served after the device gave up on it.  The     *)
(* sales are cash: payment codes are the business of SalesBooking.         *)
(*                                                                         *)
(* Events are numbered in the order the sales are made (createdAt).        *)
(***************************************************************************)
EXTENDS SalesBooking

CONSTANTS
  Tabs,         \* open tabs of the app on the device
  NoSlot,       \* no request in flight
  MaxReloads,   \* bound: how often a tab is closed and opened again
  Sandbox       \* whether the practice mode is used on the device

ASSUME DeviceAssumption ==
  /\ Events \subseteq Nat \ {0}
  /\ NoEvent = 0
  /\ NoSlot \notin Requests
  /\ MaxReloads \in Nat
  /\ Sandbox \in BOOLEAN
  \* Baskets without goods take no units, so nothing may run out beside them.
  /\ Sandbox => Cardinality(Events) < Stock

VARIABLES
  link,      \* up; down: the browser knows it is offline; dark: it does not
  sold,      \* the payload of every event: the receipt id it proposes
  first,     \* the delivery of an event by the sales page
  told,      \* what the seller was told about it (observation)
  outbox,    \* object store 'sales': pending, failedPermanently or no entry
  flush,     \* synchronize(), one per tab
  mode,      \* apiMode of each tab
  practice,  \* events sold in the practice mode (observation)
  donations, \* events whose basket is a donation: it names no variant
  reloads    \* reloads so far

device == <<sold, first, told, outbox, flush, mode, practice, donations, reloads>>
systemVars == <<vars, link, device>>

Unsold == [state |-> "unsold", tab |-> NoSlot, slot |-> NoSlot]
Resting == [pc |-> "idle", todo |-> {}, event |-> NoEvent, slot |-> NoSlot,
            permanent |-> FALSE]

Pending == {e \in Events : outbox[e] = "pending"}

\* SalesView's busy flag: one delivery at a time in a tab.
Busy(t) == \E e \in Events : first[e].state = "sent" /\ first[e].tab = t

\* Sales are numbered as they are made.
NextSale(e) ==
  /\ first[e].state = "unsold"
  /\ \A d \in Events : d < e => first[d].state # "unsold"

Succeeded(status) == status \in {"created", "replayed"}

\* Fault: server errors count as final, too.
FinalIncluding5xx(status) == ~Succeeded(status)

\* PERMANENT_STATUSES: 400, 403, 404, 409 and 422 are final, 5xx is not.
Final(status) == status \in {"sync_conflict", "code_unusable", "not_offered"}

-----------------------------------------------------------------------------
(* Selling: the first delivery, made by the sales page itself.              *)

\* Donation baskets are told apart where it matters, beside the practice mode.
NameBasket(e) ==
  \/ UNCHANGED donations
  \/ Sandbox /\ donations' = donations \cup {e}

\* queuePrepared: the entry is stored, unless IndexedDB or the band's
\* offline_sales flag prevents it; then the seller sees the error.
Queue(e) ==
  \/ /\ outbox' = [outbox EXCEPT ![e] = "pending"]
     /\ told' = [told EXCEPT ![e] = "queued"]
  \/ /\ told' = [told EXCEPT ![e] = "refused"]
     /\ UNCHANGED outbox

\* book: prepareSale fixes the event id and the payload, then it is posted.
Sell(t, e) ==
  /\ mode[t] = "normal" /\ ~Busy(t) /\ NextSale(e)
  /\ \E supplied \in Previews(today) :
       /\ sold' = [sold EXCEPT ![e] = supplied]
       /\ \/ /\ link = "up"
             /\ \E r \in Requests :
                  /\ ReceiveSale(r, e, NoToken, supplied)
                  /\ first' = [first EXCEPT ![e] =
                                 [state |-> "sent", tab |-> t, slot |-> r]]
             /\ UNCHANGED <<told, outbox>>
          \/ /\ link # "up"
             /\ Queue(e)
             /\ first' = [first EXCEPT ![e] =
                            [state |-> "done", tab |-> t, slot |-> NoSlot]]
             /\ UNCHANGED vars
  /\ NameBasket(e)
  /\ UNCHANGED <<link, flush, mode, practice, reloads>>

\* The same page in the practice mode.  What the sandbox answers at once does
\* not concern this system; without a connection the sale is queued all the same.
SellPractice(t, e) ==
  /\ mode[t] = "sandbox" /\ ~Busy(t) /\ NextSale(e)
  /\ link # "up"
  /\ \E supplied \in Previews(today) : sold' = [sold EXCEPT ![e] = supplied]
  /\ first' = [first EXCEPT ![e] = [state |-> "done", tab |-> t, slot |-> NoSlot]]
  /\ Queue(e)
  /\ practice' = practice \cup {e}
  /\ NameBasket(e)
  /\ UNCHANGED <<vars, link, flush, mode, reloads>>

\* The answer to the first delivery.  Any ApiError, 5xx included, is the
\* seller's to fix: the event id is dropped.
ViewAnswer(e) ==
  /\ first[e].state = "sent" /\ link = "up"
  /\ LET r == first[e].slot
     IN  /\ Finish(r)
         /\ told' = [told EXCEPT ![e] =
                       IF Succeeded(req[r].status) THEN "booked" ELSE "refused"]
  /\ first' = [first EXCEPT ![e].state = "done", ![e].slot = NoSlot]
  /\ UNCHANGED <<link, sold, outbox, flush, mode, practice, donations, reloads>>

\* fetch fails: the server may or may not have the request.
ViewLost(e) ==
  /\ first[e].state = "sent" /\ link # "up"
  /\ Queue(e)
  /\ first' = [first EXCEPT ![e].state = "done", ![e].slot = NoSlot]
  /\ UNCHANGED <<vars, link, sold, flush, mode, practice, donations, reloads>>

-----------------------------------------------------------------------------
(* Flushing the outbox.                                                     *)

\* synchronize: one run per tab, over the entries pending at its start.
StartFlush(f) == IF f.pc = "idle" THEN [Resting EXCEPT !.pc = "next", !.todo = Pending] ELSE f

\* The button in the header; the store does nothing while it knows it is offline.
Tap(t) ==
  /\ link # "down" /\ Pending # {} /\ flush[t].pc = "idle"
  /\ flush' = [flush EXCEPT ![t] = StartFlush(@)]
  /\ UNCHANGED <<vars, link, sold, first, told, outbox, mode, practice, donations, reloads>>

\* pending: the index by-created, oldest entry first.
Oldest(todo) == CHOOSE e \in todo : \A d \in todo : e <= d

\* The band behind the tab's mode knows the basket's variants: a basket of goods
\* names those of the band it was sold in, a donation names none.
Known(t, e) == e \in donations \/ (e \in practice <=> mode[t] = "sandbox")

\* The loop of synchronize takes the next entry of its list and posts it, or
\* ends.  Without a connection the post fails at once, and in the practice mode
\* it goes to the sandbox, which accepts it, refuses it or fails.
TakeNext(t) ==
  /\ flush[t].pc = "next"
  /\ \/ /\ flush[t].todo = {}
        /\ flush' = [flush EXCEPT ![t] = Resting]
        /\ UNCHANGED <<vars, outbox>>
     \/ /\ flush[t].todo # {}
        /\ LET e == Oldest(flush[t].todo)
               taken == [flush[t] EXCEPT !.todo = @ \ {e}, !.event = e]
               marked(permanent) ==
                 flush' = [flush EXCEPT ![t] = [taken EXCEPT
                             !.pc = "read", !.permanent = permanent]]
           IN  \/ /\ link = "up" /\ mode[t] = "normal" /\ Known(t, e)
                  /\ \E r \in Requests :
                       /\ ReceiveSale(r, e, NoToken, sold[e])
                       /\ flush' = [flush EXCEPT ![t] = [taken EXCEPT !.pc = "sent", !.slot = r]]
                  /\ UNCHANGED outbox
               \/ /\ link = "up" /\ mode[t] = "sandbox" /\ Known(t, e)
                  /\ outbox' = [outbox EXCEPT ![e] = "none"]
                  /\ flush' = [flush EXCEPT ![t] = taken]
                  /\ UNCHANGED vars
               \/ /\ link = "up" /\ ~Known(t, e)
                  /\ marked(TRUE)
                  /\ UNCHANGED <<vars, outbox>>
               \/ /\ link # "up" \/ mode[t] = "sandbox"
                  /\ marked(FALSE)
                  /\ UNCHANGED <<vars, outbox>>
  /\ UNCHANGED <<link, sold, first, told, mode, practice, donations, reloads>>

\* Fault: an entry the server refused is removed as well.
SettledByAnyAnswer(status) == Succeeded(status) \/ Final(status)

\* Fault: only a fresh booking settles an entry.
SettledByBooking(status) == status = "created"

\* "A replayed answer counts as settled too."
Settled(status) == Succeeded(status)

\* The server's answer to a flushed entry: remove it or mark the attempt.
FlushAnswer(t) ==
  /\ flush[t].pc = "sent" /\ link = "up"
  /\ LET f == flush[t]
         status == req[f.slot].status
     IN  /\ Finish(f.slot)
         /\ \/ /\ Settled(status)
               /\ outbox' = [outbox EXCEPT ![f.event] = "none"]
               /\ flush' = [flush EXCEPT ![t] = [f EXCEPT !.pc = "next", !.slot = NoSlot]]
            \/ /\ ~Settled(status)
               /\ flush' = [flush EXCEPT ![t] = [f EXCEPT !.pc = "read", !.slot = NoSlot,
                                                   !.permanent = Final(status)]]
               /\ UNCHANGED outbox
  /\ UNCHANGED <<link, sold, first, told, mode, practice, donations, reloads>>

FlushLost(t) ==
  /\ flush[t].pc = "sent" /\ link # "up"
  /\ flush' = [flush EXCEPT ![t] = [@ EXCEPT !.pc = "read", !.slot = NoSlot,
                                      !.permanent = FALSE]]
  /\ UNCHANGED <<vars, link, sold, first, told, outbox, mode, practice, donations, reloads>>

\* Fault: a network error moves on to the next entry.
AfterMarkContinued(f) == [f EXCEPT !.pc = "next"]

\* "A network error means the connection is gone again; stop here."
AfterMark(f) == IF f.permanent THEN [f EXCEPT !.pc = "next"] ELSE Resting

\* markAttempt reads the entry in one IndexedDB transaction ...
MarkRead(t) ==
  /\ flush[t].pc = "read"
  /\ flush' = [flush EXCEPT ![t] =
                 IF outbox[@.event] = "none" THEN AfterMark(@) ELSE [@ EXCEPT !.pc = "write"]]
  /\ UNCHANGED <<vars, link, sold, first, told, outbox, mode, practice, donations, reloads>>

\* ... and puts it back in another, whatever happened to it in between.
MarkWrite(t) ==
  /\ flush[t].pc = "write"
  /\ outbox' = [outbox EXCEPT ![flush[t].event] =
                  IF flush[t].permanent THEN "failed" ELSE "pending"]
  /\ flush' = [flush EXCEPT ![t] = AfterMark(@)]
  /\ UNCHANGED <<vars, link, sold, first, told, mode, practice, donations, reloads>>

-----------------------------------------------------------------------------
(* The connection, the tabs and the practice mode.                          *)

\* The browser announces 'online' when the interface comes back, which is when
\* the server may still be out of reach; it announces nothing when the server
\* returns behind an interface that was up all along.
LinkChanges ==
  /\ \E l \in {"up", "down", "dark"} \ {link} :
       /\ link' = l
       /\ flush' = IF link = "down"
                   THEN [t \in Tabs |-> StartFlush(flush[t])]
                   ELSE flush
  /\ UNCHANGED <<vars, sold, first, told, outbox, mode, practice, donations, reloads>>

\* A tab is closed or crashes, and the app is opened again: the requests it
\* waited for are forgotten, start() flushes unless the browser is offline.  The
\* address of the page keeps the mode.
Reload(t) ==
  /\ reloads < MaxReloads
  /\ reloads' = reloads + 1
  /\ first' = [e \in Events |->
                 IF first[e].state = "sent" /\ first[e].tab = t
                 THEN [state |-> "done", tab |-> t, slot |-> NoSlot]
                 ELSE first[e]]
  /\ flush' = [flush EXCEPT ![t] = IF link = "down" THEN Resting ELSE StartFlush(Resting)]
  /\ UNCHANGED <<vars, link, sold, told, outbox, mode, practice, donations>>

\* enterSandbox and leaveSandbox: setApiMode, independent of a running flush.
SwitchMode(t) ==
  /\ Sandbox /\ link = "up" /\ ~Busy(t)
  /\ mode' = [mode EXCEPT ![t] = IF @ = "normal" THEN "sandbox" ELSE "normal"]
  /\ UNCHANGED <<vars, link, sold, first, told, outbox, flush, practice, donations, reloads>>

\* Slots somebody on the device still waits for.
Awaited ==
  {first[e].slot : e \in Events} \cup {flush[t].slot : t \in Tabs}

\* The answer to a request nobody waits for any more goes nowhere.
Discard(r) ==
  /\ r \notin Awaited
  /\ Finish(r)
  /\ UNCHANGED <<link, device>>

-----------------------------------------------------------------------------

SystemInit ==
  /\ Init
  /\ link = "up"
  /\ sold = [e \in Events |-> NoReceipt]
  /\ first = [e \in Events |-> Unsold]
  /\ told = [e \in Events |-> "nothing"]
  /\ outbox = [e \in Events |-> "none"]
  /\ flush = [t \in Tabs |-> Resting]
  /\ mode = [t \in Tabs |-> "normal"]
  /\ practice = {}
  /\ donations = {}
  /\ reloads = 0

\* The sales page.
Selling ==
  \/ \E t \in Tabs, e \in Events : Sell(t, e) \/ SellPractice(t, e)
  \/ \E e \in Events : ViewAnswer(e) \/ ViewLost(e)

\* One step of a flush that has begun.
Flushing(t) == TakeNext(t) \/ FlushAnswer(t) \/ FlushLost(t) \/ MarkRead(t) \/ MarkWrite(t)

\* The server works on its requests and lets its calendar run.
Serving ==
  /\ Background \/ \E r \in Requests : Serve(r)
  /\ UNCHANGED <<link, device>>

SystemNext ==
  \/ Selling
  \/ \E t \in Tabs : Tap(t) \/ Flushing(t) \/ Reload(t) \/ SwitchMode(t)
  \/ \E r \in Requests : Discard(r)
  \/ LinkChanges
  \/ Serving

SystemSpec == SystemInit /\ [][SystemNext]_systemVars

-----------------------------------------------------------------------------
(* Fairness.                                                                *)

\* A request the server has received is answered; a server that is asked again
\* and again does not fail every time.
ServerFairness ==
  \A r \in Requests :
    /\ WF_systemVars(Serve(r) /\ UNCHANGED <<link, device>>)
    /\ WF_systemVars(Discard(r))
    /\ SF_systemVars(Replay(r) /\ UNCHANGED <<link, device>>)
    /\ SF_systemVars(Begin(r) /\ UNCHANGED <<link, device>>)
    /\ SF_systemVars(Commit(r) /\ UNCHANGED <<link, device>>)

\* The browser runs the page and a flush that has begun.
DeviceFairness ==
  /\ \A t \in Tabs : WF_systemVars(Flushing(t))
  /\ \A e \in Events : WF_systemVars(ViewAnswer(e) \/ ViewLost(e))

\* Nobody touches the button.
UnattendedSpec == SystemSpec /\ ServerFairness /\ DeviceFairness

\* A seller who sees waiting sales taps the button at some point.
AttendedSpec == UnattendedSpec /\ \A t \in Tabs : WF_systemVars(Tap(t))

-----------------------------------------------------------------------------
(* Properties.                                                              *)

\* "A sale is never lost" (stores/offline.ts:20): what the seller was told is
\* booked is in the ledger, what was queued is in the ledger or in the outbox,
\* through lost answers, reloads and the flushes of several tabs.
NeverLost ==
  \A e \in Events \ practice :
    /\ told[e] = "booked" => e \in Booked
    /\ told[e] = "queued" => e \in Booked \/ outbox[e] # "none"

\* An entry shown as rejected is not in the ledger: the seller who books it
\* again, as the page asks, does not book it twice (sync.ts:53-56).
RejectedNotBooked == \A e \in Events : outbox[e] = "failed" => e \notin Booked

\* A flush has no older entry left waiting behind the one it transmits
\* (outbox.ts:85, sync.ts:61-64).
QueueInOrder ==
  \A t \in Tabs : flush[t].pc = "sent" => \A d \in Pending : d >= flush[t].event

\* The server has decided about a queued sale, and the queue is rid of it.
Decided(e) == outbox[e] = "failed" \/ (outbox[e] = "none" /\ e \in Booked)

\* Once the connection stays, every queued sale is decided: booked and removed,
\* or shown as rejected (sync, synchronize and the server's replay together).
QueueDrains ==
  <>[](link = "up") => \A e \in Events : outbox[e] = "pending" ~> Decided(e)
=============================================================================
