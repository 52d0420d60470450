------------------------- MODULE SalesBookingProofs -------------------------
(***************************************************************************)
(* Theorems about SalesBooking, for any number of request slots, events,   *)
(* tokens and days and with or without snapshot isolation.                 *)
(***************************************************************************)
EXTENDS SalesBooking, WellFoundedInduction, TLAPS

-----------------------------------------------------------------------------
(* Receipt numbers.                                                         *)

\* A bounded set of naturals has a largest member.
LEMMA LargestExists ==
  ASSUME NEW S \in SUBSET Nat, S # {},
         NEW b \in Nat, \A n \in S : n <= b
  PROVE  \E n \in S : \A m \in S : m <= n
<1> DEFINE U == {u \in Nat : \A n \in S : n <= u}
<1>1. b \in U
  OBVIOUS
<1>2. PICK u \in U : \A v \in U : ~ (<<v, u>> \in OpToRel(<, Nat))
  <2>1. U \subseteq Nat /\ U # {}
    BY <1>1
  <2> QED
    BY <2>1, NatLessThanWellFounded, WFMin
<1>3. \A v \in U : ~ (v < u)
  BY <1>2 DEF OpToRel
<1>4. u \in S
  <2> SUFFICES ASSUME u \notin S PROVE FALSE
    OBVIOUS
  <2>1. PICK n \in S : TRUE
    OBVIOUS
  <2>2. u - 1 \in Nat
    BY <2>1
  <2>3. u - 1 \in U
    BY <2>2
  <2> QED
    BY <2>3, <1>3
<1> QED
  BY <1>4

\* The receipts in use have a largest number, whatever the tables hold.
Bounded ==
  \E b \in Nat : /\ \A i \in DOMAIN sales : sales[i].receipt.number <= b
                 /\ \A i \in intents : i.receipt.number <= b

\* Highest is that number: Next never proposes an id in use.
LEMMA HighestIsLargest ==
  ASSUME NEW taken \in SUBSET Receipt,
         NEW b \in Nat, \A r \in taken : r.number <= b
  PROVE  /\ Highest(taken) \in Nat
         /\ \A r \in taken : r.number <= Highest(taken)
<1> DEFINE numbers == {0} \cup {r.number : r \in taken}
<1>1. numbers \in SUBSET Nat /\ numbers # {} /\ \A n \in numbers : n <= b
  BY DEF Receipt
<1>2. \E n \in numbers : \A m \in numbers : m <= n
  BY <1>1, LargestExists
<1>3. Highest(taken) \in numbers /\ \A m \in numbers : m <= Highest(taken)
  BY <1>2 DEF Highest
<1> QED
  BY <1>1, <1>3

LEMMA TakenIsReceipts ==
  ASSUME TypeOK, NEW day \in Days, NEW token
  PROVE  TakenExcluding(day, token) \in SUBSET {r \in Receipt : r.day = day}
<1>1. \A i \in DOMAIN sales : sales[i] \in Basket
  BY DEF TypeOK
<1>2. \A i \in DOMAIN sales : sales[i].receipt \in Receipt
  BY <1>1 DEF Basket
<1>3. \A i \in intents : i.receipt \in Receipt
  BY DEF TypeOK, Intent
<1> QED
  BY <1>2, <1>3 DEF TakenExcluding

\* What Next proposes is a receipt of the day that nothing on record holds.
LEMMA NextIsFree ==
  ASSUME TypeOK, Bounded, NEW day \in Days
  PROVE  /\ NextReceipt(day) \in Receipt
         /\ NextReceipt(day).day = day
         /\ NextReceipt(day) \notin Taken(day)
<1>1. PICK b \in Nat : /\ \A i \in DOMAIN sales : sales[i].receipt.number <= b
                       /\ \A i \in intents : i.receipt.number <= b
  BY DEF Bounded
<1>2. Taken(day) \in SUBSET Receipt
  BY TakenIsReceipts DEF Taken
<1>3. \A r \in Taken(day) : r.number <= b
  BY <1>1 DEF Taken, TakenExcluding
<1>4. Highest(Taken(day)) \in Nat /\ \A r \in Taken(day) : r.number <= Highest(Taken(day))
  BY <1>2, <1>3, HighestIsLargest
<1> QED
  BY <1>4, <1>2 DEF NextReceipt, Receipt

\* Allocate returns a receipt of the day, and one that is free for the token.
LEMMA AllocateIsReceipt ==
  ASSUME TypeOK, Bounded, NEW day \in Days, NEW supplied \in Receipt \cup {NoReceipt},
         NEW token \in Tokens \cup {NoToken}
  PROVE  /\ AllocateReceipt(supplied, day, token) \in Receipt
         /\ AllocateReceipt(supplied, day, token).day = day
<1>1. day # 0
  BY ConstantsAssumption DEF Days
<1> QED
  BY <1>1, NextIsFree DEF AllocateReceipt, NoReceipt

-----------------------------------------------------------------------------
(* Type correctness.  TypeOK alone is not inductive: that Next returns a    *)
(* receipt needs the numbers in use to have a largest one, and what a       *)
(* request carries depends on how far it got.                               *)

InService == {"replay", "begin", "commit", "allocate", "reserve"}

\* A request being served has a day and no answer yet, and before its writes a
\* receipt.
Progress ==
  \A r \in Requests :
    /\ req[r].pc \in InService => req[r].day \in Days /\ req[r].status = "none"
    /\ req[r].pc \in {"commit", "reserve"} => req[r].receipt \in Receipt
    /\ req[r].pc = "allocate" => req[r].attempt < MaxAttempts

Typed == TypeOK /\ Bounded /\ Progress

LEMMA IdleTyped == Idle \in Request
BY ConstantsAssumption DEF Idle, Request, PCs, Statuses

LEMMA InitTyped == Init => Typed
<1> SUFFICES ASSUME Init PROVE Typed
  OBVIOUS
<1>1. TypeOK
  BY IdleTyped, ConstantsAssumption DEF Init, TypeOK, Days
<1>2. Bounded
  BY DEF Init, Bounded
<1>3. Progress
  BY DEF Init, Progress, Idle, InService
<1> QED
  BY <1>1, <1>2, <1>3 DEF Typed

\* A step that changes one request only, to a record of its kind.
LEMMA RequestStep ==
  ASSUME Typed, NEW r \in Requests, NEW q \in Request,
         req' = [req EXCEPT ![r] = q],
         q.pc \in InService => q.day \in Days /\ q.status = "none",
         q.pc \in {"commit", "reserve"} => q.receipt \in Receipt,
         q.pc = "allocate" => q.attempt < MaxAttempts
  PROVE  req' \in [Requests -> Request] /\ Progress'
<1>1. req \in [Requests -> Request]
  BY DEF Typed, TypeOK
<1> QED
  BY <1>1 DEF Typed, Progress

\* An answer is a request record again.
LEMMA AnswerTyped ==
  ASSUME Typed, NEW r \in Requests, NEW status \in Statuses,
         NEW receipt \in Receipt \cup {NoReceipt}, Answer(r, status, receipt)
  PROVE  req' \in [Requests -> Request] /\ Progress'
<1> DEFINE q == [Idle EXCEPT !.pc = "answered", !.status = status,
                             !.event = req[r].event, !.receipt = receipt]
<1>1. req[r].event \in Events \cup {NoEvent}
  BY DEF Typed, TypeOK, Request
<1>2. q \in Request
  BY <1>1, IdleTyped DEF Idle, Request, PCs
<1>3. q.pc = "answered"
  BY DEF Idle
<1>4. req' = [req EXCEPT ![r] = q]
  BY DEF Answer
<1> HIDE DEF q
<1> QED
  BY <1>2, <1>3, <1>4, RequestStep DEF InService

\* Everything but the requests keeps its type when the tables do not change.
LEMMA TablesUnchanged ==
  ASSUME Typed, req' \in [Requests -> Request], Progress',
         UNCHANGED <<today, sales, syncEvents, intents, expired, shown, offered>>
  PROVE  Typed'
BY DEF Typed, TypeOK, Bounded

LEMMA PreviewsTyped ==
  ASSUME Typed, NEW day \in Days
  PROVE  Previews(day) \subseteq Receipt \cup {NoReceipt}
BY NextIsFree DEF Typed, Previews, Receipt

LEMMA ReceiveSaleTyped ==
  ASSUME Typed, NEW r \in Requests, NEW e \in Events \cup {NoEvent},
         NEW token \in Tokens \cup {NoToken}, NEW supplied \in Receipt \cup {NoReceipt},
         ReceiveSale(r, e, token, supplied)
  PROVE  Typed'
<1> DEFINE q == [Idle EXCEPT !.pc = IF e = NoEvent THEN "begin" ELSE "replay",
                   !.event = e, !.token = token, !.day = today,
                   !.supplied = supplied]
<1>1. today \in Days
  BY DEF Typed, TypeOK
<1>2. q \in Request /\ q.pc \in {"begin", "replay"} /\ q.day \in Days /\ q.status = "none"
  BY <1>1, IdleTyped DEF Idle, Request, PCs
<1>3. req' = [req EXCEPT ![r] = q]
  BY DEF ReceiveSale
<1> HIDE DEF q
<1>4. req' \in [Requests -> Request] /\ Progress'
  BY <1>2, <1>3, RequestStep
<1> QED
  BY <1>4, TablesUnchanged DEF ReceiveSale

LEMMA ReceiveTyped ==
  ASSUME Typed, NEW r \in Requests, Receive(r)
  PROVE  Typed'
<1>0. today \in Days /\ shown \in [Tokens -> Receipt \cup {NoReceipt}]
  BY DEF Typed, TypeOK
<1>1. ASSUME NEW e \in Events \cup {NoEvent}, NEW token \in Tokens \cup {NoToken},
             NEW supplied \in Receipt \cup {NoReceipt},
             ReceiveSale(r, e, token, supplied)
      PROVE  Typed'
  BY <1>1, ReceiveSaleTyped
<1>2. ASSUME NEW e \in Events, NEW day \in Days,
             NEW supplied \in Receipt \cup {NoReceipt},
             ReceiveHistorical(r, e, day, supplied)
      PROVE  Typed'
  <2> DEFINE q == [Idle EXCEPT !.pc = "replay", !.event = e, !.day = day,
                     !.historical = TRUE, !.supplied = supplied]
  <2>1. q \in Request /\ q.pc = "replay" /\ q.day \in Days /\ q.status = "none"
    BY IdleTyped DEF Idle, Request, PCs
  <2>2. req' = [req EXCEPT ![r] = q]
    BY <1>2 DEF ReceiveHistorical
  <2> HIDE DEF q
  <2>3. req' \in [Requests -> Request] /\ Progress'
    BY <2>1, <2>2, RequestStep
  <2> QED
    BY <1>2, <2>3, TablesUnchanged DEF ReceiveHistorical
<1>3. ASSUME NEW supplied \in Receipt \cup {NoReceipt}, ReceiveReservation(r, supplied)
      PROVE  Typed'
  <2> DEFINE q == [Idle EXCEPT !.pc = "allocate", !.day = today, !.supplied = supplied]
  <2>0. 0 < MaxAttempts
    BY ConstantsAssumption
  <2>1. q \in Request /\ q.pc = "allocate" /\ q.day \in Days /\ q.status = "none" /\ q.attempt < MaxAttempts
    BY <2>0, <1>0, IdleTyped DEF Idle, Request, PCs
  <2>2. req' = [req EXCEPT ![r] = q]
    BY <1>3 DEF ReceiveReservation
  <2> HIDE DEF q
  <2>3. req' \in [Requests -> Request] /\ Progress'
    BY <2>1, <2>2, RequestStep
  <2> QED
    BY <1>3, <2>3, TablesUnchanged DEF ReceiveReservation
<1> QED
  BY <1>0, <1>1, <1>2, <1>3, PreviewsTyped DEF Receive

LEMMA ReplayTyped ==
  ASSUME Typed, NEW r \in Requests, Replay(r)
  PROVE  Typed'
<1>1. req' \in [Requests -> Request] /\ Progress'
  <2>1. CASE req[r].pc = "replay" /\ req' = [req EXCEPT ![r].pc = "begin"]
    <3> DEFINE q == [req[r] EXCEPT !.pc = "begin"]
    <3>1. req[r] \in Request /\ req[r].day \in Days /\ req[r].status = "none"
      BY <2>1 DEF Typed, TypeOK, Progress, InService
    <3>2. q \in Request /\ q.pc = "begin" /\ q.day \in Days /\ q.status = "none"
      BY <3>1 DEF Request, PCs
    <3>3. req' = [req EXCEPT ![r] = q]
      BY <2>1
    <3> HIDE DEF q
    <3> QED
      BY <3>2, <3>3, RequestStep
  <2>2. ASSUME NEW s \in syncEvents, Answer(r, "replayed", s.receipt)
        PROVE  req' \in [Requests -> Request] /\ Progress'
    <3>1. s.receipt \in Receipt
      BY DEF Typed, TypeOK, SyncEvent
    <3> QED
      BY <2>2, <3>1, AnswerTyped DEF Statuses
  <2>3. CASE Refuse(r, "sync_conflict")
    BY <2>3, AnswerTyped DEF Refuse, Statuses
  <2> QED
    BY <2>1, <2>2, <2>3 DEF Replay
<1> QED
  BY <1>1, TablesUnchanged DEF Replay

\* What the request carries from the reading half to the writing half.
LEMMA BeginTyped ==
  ASSUME Typed, NEW r \in Requests, Begin(r)
  PROVE  Typed'
<1>0. req[r] \in Request /\ req[r].day \in Days /\ req[r].status = "none"
  BY DEF Typed, TypeOK, Progress, InService, Begin
<1>1. ASSUME NEW redeem \in SUBSET Intent, NEW receipt \in Receipt, NEW withdraw \in BOOLEAN,
             req' = [req EXCEPT ![r] = [req[r] EXCEPT !.pc = "commit", !.redeem = redeem,
                                         !.receipt = receipt, !.withdraw = withdraw]]
      PROVE  req' \in [Requests -> Request] /\ Progress'
  <2> DEFINE q == [req[r] EXCEPT !.pc = "commit", !.redeem = redeem,
                                 !.receipt = receipt, !.withdraw = withdraw]
  <2>1. q \in Request /\ q.pc = "commit" /\ q.day \in Days /\ q.status = "none" /\ q.receipt \in Receipt
    BY <1>0 DEF Request, PCs
  <2>2. req' = [req EXCEPT ![r] = q]
    BY <1>1
  <2> HIDE DEF q
  <2> QED
    BY <2>1, <2>2, RequestStep
<1>2. Depletes \in BOOLEAN /\ req[r].redeem \in SUBSET Intent
  BY <1>0 DEF Depletes, Request
<1>3. CASE Refuse(r, "not_offered") \/ Refuse(r, "code_unusable")
  BY <1>3, AnswerTyped, TablesUnchanged DEF Refuse, Statuses, Begin
<1>4. CASE req' = [req EXCEPT ![r].pc = "commit",
                    ![r].receipt = AllocateReceipt(req[r].supplied, req[r].day, NoToken),
                    ![r].withdraw = Depletes]
  <2>1. AllocateReceipt(req[r].supplied, req[r].day, NoToken) \in Receipt
    BY <1>0, AllocateIsReceipt DEF Typed, Request
  <2>2. req' = [req EXCEPT ![r] = [req[r] EXCEPT !.pc = "commit", !.redeem = req[r].redeem,
                  !.receipt = AllocateReceipt(req[r].supplied, req[r].day, NoToken),
                  !.withdraw = Depletes]]
    BY <1>4, <1>0 DEF Request
  <2>3. req' \in [Requests -> Request] /\ Progress'
    BY <2>1, <2>2, <1>2, <1>1
  <2> QED
    BY <2>3, TablesUnchanged DEF Begin
<1>5. ASSUME NEW intent \in Redeemable(req[r].token),
             req' = [req EXCEPT ![r].pc = "commit", ![r].redeem = {intent},
                ![r].receipt = AllocateReceipt(intent.receipt, req[r].day, req[r].token),
                ![r].withdraw = Depletes]
      PROVE  Typed'
  <2>0. intent \in Intent /\ intent.receipt \in Receipt
    BY DEF Redeemable, Typed, TypeOK, Intent
  <2>1. AllocateReceipt(intent.receipt, req[r].day, req[r].token) \in Receipt
    BY <1>0, <2>0, AllocateIsReceipt DEF Typed, Request
  <2>2. req' = [req EXCEPT ![r] = [req[r] EXCEPT !.pc = "commit", !.redeem = {intent},
                  !.receipt = AllocateReceipt(intent.receipt, req[r].day, req[r].token),
                  !.withdraw = Depletes]]
    BY <1>5
  <2>3. req' \in [Requests -> Request] /\ Progress'
    BY <2>0, <2>1, <2>2, <1>2, <1>1
  <2> QED
    BY <2>3, TablesUnchanged DEF Begin
<1> QED
  BY <1>3, <1>4, <1>5 DEF Begin

\* A basket's receipt joins the bounded set of numbers in use.
LEMMA CommitTyped ==
  ASSUME Typed, NEW r \in Requests, Commit(r)
  PROVE  Typed'
<1> DEFINE q == req[r]
           basket == [receipt |-> q.receipt, event |-> q.event, token |-> q.token]
<1>0. q \in Request /\ q.day \in Days /\ q.status = "none" /\ q.receipt \in Receipt
  BY DEF Typed, TypeOK, Progress, InService, Commit
<1>1. CASE Refuse(r, "error") /\ UNCHANGED <<sales, syncEvents, intents, offered>>
  BY <1>1, AnswerTyped, TablesUnchanged DEF Refuse, Statuses, Commit
<1>2. CASE /\ sales' = Append(sales, basket)
           /\ offered' = (offered /\ ~q.withdraw)
           /\ intents' = Consume(intents, q.token)
           /\ syncEvents' = syncEvents \cup SyncRow(q)
           /\ Answer(r, "created", q.receipt)
  <2>1. req' \in [Requests -> Request] /\ Progress'
    BY <1>2, <1>0, AnswerTyped DEF Statuses
  <2>2. basket \in Basket
    BY <1>0 DEF Basket, Request
  <2>3. sales' \in Seq(Basket)
    BY <1>2, <2>2 DEF Typed, TypeOK
  <2>4. SyncRow(q) \subseteq SyncEvent
    BY <1>0 DEF SyncRow, SyncEvent, Request, HashOf
  <2>5. intents' \subseteq Intent
    BY <1>2 DEF Consume, Typed, TypeOK, Intent
  <2>6. offered' \in BOOLEAN
    BY <1>2
  <2>7. Bounded'
    <3>1. PICK b \in Nat : /\ \A i \in DOMAIN sales : sales[i].receipt.number <= b
                           /\ \A i \in intents : i.receipt.number <= b
      BY DEF Typed, Bounded
    <3>2. PICK c \in Nat : b <= c /\ q.receipt.number <= c
      <4>1. q.receipt.number \in Nat
        BY <1>0 DEF Receipt
      <4> QED
        BY <4>1
    <3>3. \A i \in DOMAIN sales' : sales'[i] = basket \/ (i \in DOMAIN sales /\ sales'[i] = sales[i])
      BY <1>2, <2>2 DEF Typed, TypeOK
    <3>4. \A i \in DOMAIN sales : sales[i].receipt.number \in Nat
      <4>1. \A i \in DOMAIN sales : sales[i] \in Basket
        BY DEF Typed, TypeOK
      <4> QED
        BY <4>1 DEF Basket, Receipt
    <3>5. \A i \in DOMAIN sales' : sales'[i].receipt.number <= c
      BY <3>1, <3>2, <3>3, <3>4
    <3>6. \A i \in intents' : \E j \in intents : i.receipt = j.receipt
      BY <1>2 DEF Consume, Typed, TypeOK, Intent
    <3>7. \A i \in intents : i.receipt.number \in Nat
      BY DEF Typed, TypeOK, Intent, Receipt
    <3>8. \A i \in intents' : i.receipt.number <= c
      BY <3>1, <3>2, <3>6, <3>7
    <3> QED
      BY <3>5, <3>8 DEF Bounded
  <2> QED
    BY <1>2, <2>1, <2>3, <2>4, <2>5, <2>6, <2>7 DEF Typed, TypeOK, Commit
<1> QED
  BY <1>1, <1>2 DEF Commit

LEMMA AllocateTyped ==
  ASSUME Typed, NEW r \in Requests, Allocate(r)
  PROVE  Typed'
<1> DEFINE receipt == AllocateReceipt(req[r].supplied, req[r].day, NoToken)
           q == [req[r] EXCEPT !.pc = "reserve", !.receipt = receipt,
                               !.attempt = req[r].attempt + 1]
<1>1. req[r] \in Request /\ req[r].day \in Days /\ req[r].status = "none" /\ req[r].attempt < MaxAttempts
  BY DEF Typed, TypeOK, Progress, InService, Allocate
<1>2. receipt \in Receipt
  BY <1>1, AllocateIsReceipt DEF Typed, Request
<1>3. req[r].attempt + 1 \in 0..MaxAttempts
  BY <1>1, ConstantsAssumption DEF Request
<1>4. q \in Request /\ q.pc = "reserve" /\ q.day \in Days /\ q.status = "none" /\ q.receipt \in Receipt
  <2> HIDE DEF receipt
  <2> QED
    BY <1>1, <1>2, <1>3 DEF Request, PCs
<1>5. req' = [req EXCEPT ![r] = q]
  BY DEF Allocate
<1> HIDE DEF q
<1>6. req' \in [Requests -> Request] /\ Progress'
  BY <1>4, <1>5, RequestStep
<1> QED
  BY <1>6, TablesUnchanged DEF Allocate

LEMMA ReserveTyped ==
  ASSUME Typed, NEW r \in Requests, NEW token \in Tokens, Reserve(r, token)
  PROVE  Typed'
<1> DEFINE q == req[r]
           rest == intents \ Released(q.receipt)
           duplicate == \E i \in rest : i.receipt = q.receipt
<1>0. q \in Request /\ q.day \in Days /\ q.status = "none" /\ q.receipt \in Receipt /\ q.pc = "reserve"
  BY DEF Typed, TypeOK, Progress, InService, Reserve
<1>1. CASE /\ intents' = rest \cup {[token |-> token, receipt |-> q.receipt,
                                     consumed |-> FALSE]}
           /\ shown' = [shown EXCEPT ![token] = q.receipt]
           /\ Answer(r, "reserved", q.receipt)
  <2>1. req' \in [Requests -> Request] /\ Progress'
    BY <1>0, <1>1, AnswerTyped DEF Statuses
  <2>2. intents' \subseteq Intent
    <3>1. [token |-> token, receipt |-> q.receipt, consumed |-> FALSE] \in Intent
      BY <1>0 DEF Intent
    <3>2. intents \subseteq Intent
      BY DEF Typed, TypeOK
    <3> QED
      BY <1>1, <3>1, <3>2
  <2>3. shown' \in [Tokens -> Receipt \cup {NoReceipt}]
    BY <1>0, <1>1 DEF Typed, TypeOK
  <2>4. Bounded'
    <3>1. PICK b \in Nat : /\ \A i \in DOMAIN sales : sales[i].receipt.number <= b
                           /\ \A i \in intents : i.receipt.number <= b
      BY DEF Typed, Bounded
    <3>2. PICK c \in Nat : b <= c /\ q.receipt.number <= c
      <4>1. q.receipt.number \in Nat
        BY <1>0 DEF Receipt
      <4> QED
        BY <4>1
    <3>3. \A i \in DOMAIN sales : sales[i].receipt.number \in Nat
      <4>1. \A i \in DOMAIN sales : sales[i] \in Basket
        BY DEF Typed, TypeOK
      <4> QED
        BY <4>1 DEF Basket, Receipt
    <3>4. \A i \in intents : i.receipt.number \in Nat
      BY DEF Typed, TypeOK, Intent, Receipt
    <3>5. \A i \in intents' : i \in intents \/ i.receipt = q.receipt
      BY <1>1
    <3>6. sales' = sales
      BY DEF Reserve
    <3> QED
      BY <3>1, <3>2, <3>3, <3>4, <3>5, <3>6 DEF Bounded
  <2> QED
    BY <2>1, <2>2, <2>3, <2>4 DEF Typed, TypeOK, Reserve
<1>2. CASE /\ intents' = rest
           /\ IF q.attempt < MaxAttempts
              THEN req' = [req EXCEPT ![r].pc = "allocate"]
              ELSE Refuse(r, "receipt_busy")
           /\ UNCHANGED shown
  <2>1. CASE q.attempt < MaxAttempts
    <3> DEFINE p == [req[r] EXCEPT !.pc = "allocate"]
    <3>1. p \in Request /\ p.pc = "allocate" /\ p.day \in Days /\ p.status = "none" /\ p.attempt < MaxAttempts
      BY <1>0, <2>1 DEF Request, PCs
    <3>2. req' = [req EXCEPT ![r] = p]
      BY <1>2, <2>1
    <3> HIDE DEF p
    <3>3. req' \in [Requests -> Request] /\ Progress'
      BY <3>1, <3>2, RequestStep
    <3> QED
      BY <1>2, <3>3 DEF Typed, TypeOK, Bounded, Reserve
  <2>2. CASE ~(q.attempt < MaxAttempts)
    <3>1. req' \in [Requests -> Request] /\ Progress'
      BY <1>2, <2>2, AnswerTyped DEF Refuse, Statuses
    <3> QED
      BY <1>2, <3>1 DEF Typed, TypeOK, Bounded, Reserve
  <2> QED
    BY <2>1, <2>2
<1> QED
  BY <1>1, <1>2 DEF Reserve

LEMMA BackgroundTyped ==
  ASSUME Typed, Background
  PROVE  Typed'
<1>1. ASSUME NEW token \in Tokens, CancelIntent(token)
      PROVE  Typed'
  BY <1>1 DEF CancelIntent, Typed, TypeOK, Bounded, Progress
<1>2. ASSUME NEW token \in Tokens, Expire(token)
      PROVE  Typed'
  BY <1>2 DEF Expire, Typed, TypeOK, Bounded, Progress
<1>3. CASE PurgeExpired
  BY <1>3 DEF PurgeExpired, Typed, TypeOK, Bounded, Progress
<1>4. CASE Midnight
  <2>1. today + 1 \in Days
    BY <1>4, ConstantsAssumption DEF Midnight, Typed, TypeOK, Days
  <2> QED
    BY <1>4, <2>1 DEF Midnight, Typed, TypeOK, Bounded, Progress
<1> QED
  BY <1>1, <1>2, <1>3, <1>4 DEF Background

LEMMA FinishTyped ==
  ASSUME Typed, NEW r \in Requests, Finish(r)
  PROVE  Typed'
<1>1. Idle.pc = "idle"
  BY DEF Idle
<1>2. req' \in [Requests -> Request] /\ Progress'
  BY <1>1, IdleTyped, RequestStep DEF Finish, InService
<1> QED
  BY <1>2, TablesUnchanged DEF Finish

LEMMA ServeTyped ==
  ASSUME Typed, NEW r \in Requests, Serve(r)
  PROVE  Typed'
<1>1. CASE Fail(r)
  BY <1>1, AnswerTyped, TablesUnchanged DEF Fail, Refuse, Statuses
<1> QED
  BY <1>1, ReplayTyped, BeginTyped, CommitTyped, AllocateTyped, ReserveTyped DEF Serve

LEMMA StepTyped == Typed /\ [Next]_vars => Typed'
<1> SUFFICES ASSUME Typed, [Next]_vars PROVE Typed'
  OBVIOUS
<1>1. CASE Next
  BY <1>1, ReceiveTyped, ServeTyped, FinishTyped, BackgroundTyped DEF Next
<1>2. CASE UNCHANGED vars
  BY <1>2 DEF vars, Typed, TypeOK, Bounded, Progress
<1> QED
  BY <1>1, <1>2

\* The tables and the requests hold values of their kind, however many requests
\* the server handles at once and whatever their order.
THEOREM TypeCorrect == Spec => []TypeOK
<1>1. Spec => []Typed
  BY InitTyped, StepTyped, PTL DEF Spec
<1>2. Typed => TypeOK
  BY DEF Typed
<1> QED
  BY <1>1, <1>2, PTL

-----------------------------------------------------------------------------
(* Idempotency.  Inductive together with: every row of sync_events names    *)
(* the receipt of the one basket its event was booked as.                   *)

SyncNamesBasket ==
  \A s \in syncEvents : \E i \in BasketsOf(s.event) : sales[i].receipt = s.receipt

Idempotent == Typed /\ EventBookedOnce /\ SyncNamesBasket /\ AnswersNameTheBasket

LEMMA InitIdempotent == Init => Idempotent
<1> SUFFICES ASSUME Init PROVE Idempotent
  OBVIOUS
<1>1. \A e : BasketsOf(e) = {}
  BY DEF Init, BasketsOf
<1>2. EventBookedOnce /\ SyncNamesBasket
  BY <1>1 DEF Init, EventBookedOnce, Booked, SyncNamesBasket
<1>3. AnswersNameTheBasket
  BY DEF Init, Idle, AnswersNameTheBasket
<1> QED
  BY <1>2, <1>3, InitTyped DEF Idempotent

\* Appending a basket adds its index to the baskets of its event only.
LEMMA BasketAppended ==
  ASSUME Typed, NEW basket \in Basket, sales' = Append(sales, basket)
  PROVE  /\ DOMAIN sales' = DOMAIN sales \cup {Len(sales) + 1}
         /\ Len(sales) + 1 \notin DOMAIN sales
         /\ \A i \in DOMAIN sales : sales'[i] = sales[i]
         /\ sales'[Len(sales) + 1] = basket
         /\ \A e : BasketsOf(e)' = BasketsOf(e) \cup
                    (IF basket.event = e THEN {Len(sales) + 1} ELSE {})
<1>1. sales \in Seq(Basket) /\ DOMAIN sales = 1..Len(sales) /\ Len(sales) \in Nat
  BY DEF Typed, TypeOK
<1>2. /\ DOMAIN sales' = DOMAIN sales \cup {Len(sales) + 1}
      /\ Len(sales) + 1 \notin DOMAIN sales
      /\ \A i \in DOMAIN sales : sales'[i] = sales[i]
      /\ sales'[Len(sales) + 1] = basket
  BY <1>1
<1>3. \A e : BasketsOf(e)' = BasketsOf(e) \cup
                    (IF basket.event = e THEN {Len(sales) + 1} ELSE {})
  BY <1>2 DEF BasketsOf
<1> QED
  BY <1>2, <1>3

\* A step that books nothing and gives no success as an answer.
LEMMA NothingBooked ==
  ASSUME Idempotent, NEW r \in Requests, NEW q,
         req' = [req EXCEPT ![r] = q], q.status \notin {"created", "replayed"},
         UNCHANGED <<sales, syncEvents>>
  PROVE  EventBookedOnce' /\ SyncNamesBasket' /\ AnswersNameTheBasket'
<1>1. \A e : BasketsOf(e)' = BasketsOf(e)
  BY DEF BasketsOf
<1>2. EventBookedOnce' /\ SyncNamesBasket'
  BY <1>1 DEF Idempotent, EventBookedOnce, Booked, SyncNamesBasket
<1>3. AnswersNameTheBasket'
  BY <1>1 DEF Idempotent, Typed, TypeOK, AnswersNameTheBasket
<1> QED
  BY <1>2, <1>3

LEMMA RefusedBooksNothing ==
  ASSUME Idempotent, NEW r \in Requests, NEW receipt,
         NEW status, status \notin {"created", "replayed"},
         Answer(r, status, receipt),
         UNCHANGED <<sales, syncEvents>>
  PROVE  EventBookedOnce' /\ SyncNamesBasket' /\ AnswersNameTheBasket'
<1> DEFINE q == [Idle EXCEPT !.pc = "answered", !.status = status,
                             !.event = req[r].event, !.receipt = receipt]
<1>1. q.status = status
  BY DEF Idle
<1>2. req' = [req EXCEPT ![r] = q]
  BY DEF Answer
<1> HIDE DEF q
<1> QED
  BY <1>1, <1>2, NothingBooked

LEMMA ReceiveSaleIdempotent ==
  ASSUME Idempotent, NEW r \in Requests, NEW e, NEW token, NEW supplied,
         ReceiveSale(r, e, token, supplied)
  PROVE  EventBookedOnce' /\ SyncNamesBasket' /\ AnswersNameTheBasket'
<1> DEFINE q == [Idle EXCEPT !.pc = IF e = NoEvent THEN "begin" ELSE "replay",
                   !.event = e, !.token = token, !.day = today,
                   !.supplied = supplied]
<1>1. q.status = "none"
  BY DEF Idle
<1>2. req' = [req EXCEPT ![r] = q] /\ UNCHANGED <<sales, syncEvents>>
  BY DEF ReceiveSale
<1> HIDE DEF q
<1> QED
  BY <1>1, <1>2, NothingBooked

LEMMA ReceiveIdempotent ==
  ASSUME Idempotent, NEW r \in Requests, Receive(r)
  PROVE  EventBookedOnce' /\ SyncNamesBasket' /\ AnswersNameTheBasket'
<1>1. UNCHANGED <<sales, syncEvents>>
  BY DEF Receive, ReceiveSale, ReceiveHistorical, ReceiveReservation
<1>2. ASSUME NEW e, NEW token, NEW supplied, ReceiveSale(r, e, token, supplied)
      PROVE  EventBookedOnce' /\ SyncNamesBasket' /\ AnswersNameTheBasket'
  BY <1>2, ReceiveSaleIdempotent
<1>3. ASSUME NEW e, NEW day, NEW supplied, ReceiveHistorical(r, e, day, supplied)
      PROVE  EventBookedOnce' /\ SyncNamesBasket' /\ AnswersNameTheBasket'
  <2> DEFINE q == [Idle EXCEPT !.pc = "replay", !.event = e, !.day = day,
                     !.historical = TRUE, !.supplied = supplied]
  <2>1. q.status = "none"
    BY DEF Idle
  <2>2. req' = [req EXCEPT ![r] = q]
    BY <1>3 DEF ReceiveHistorical
  <2> HIDE DEF q
  <2> QED
    BY <1>1, <2>1, <2>2, NothingBooked
<1>4. ASSUME NEW supplied, ReceiveReservation(r, supplied)
      PROVE  EventBookedOnce' /\ SyncNamesBasket' /\ AnswersNameTheBasket'
  <2> DEFINE q == [Idle EXCEPT !.pc = "allocate", !.day = today, !.supplied = supplied]
  <2>1. q.status = "none"
    BY DEF Idle
  <2>2. req' = [req EXCEPT ![r] = q]
    BY <1>4 DEF ReceiveReservation
  <2> HIDE DEF q
  <2> QED
    BY <1>1, <2>1, <2>2, NothingBooked
<1> QED
  BY <1>2, <1>3, <1>4 DEF Receive

\* A replayed answer is read from the row SyncNamesBasket speaks of.
LEMMA ReplayIdempotent ==
  ASSUME Idempotent, NEW r \in Requests, Replay(r)
  PROVE  EventBookedOnce' /\ SyncNamesBasket' /\ AnswersNameTheBasket'
<1>0. UNCHANGED <<sales, syncEvents>> /\ req[r].pc = "replay"
  BY DEF Replay
<1>1. CASE req' = [req EXCEPT ![r].pc = "begin"]
  <2>1. req[r].status = "none"
    BY <1>0 DEF Idempotent, Typed, Progress, InService
  <2>2. req[r] \in Request
    BY DEF Idempotent, Typed, TypeOK
  <2>3. req' = [req EXCEPT ![r] = [req[r] EXCEPT !.pc = "begin"]]
    BY <1>1
  <2>4. [req[r] EXCEPT !.pc = "begin"].status = "none"
    BY <2>1, <2>2 DEF Request
  <2> QED
    BY <1>0, <2>3, <2>4, NothingBooked
<1>2. CASE Refuse(r, "sync_conflict")
  BY <1>0, <1>2, RefusedBooksNothing DEF Refuse
<1>3. ASSUME NEW s \in syncEvents, s.event = req[r].event, Answer(r, "replayed", s.receipt)
      PROVE  EventBookedOnce' /\ SyncNamesBasket' /\ AnswersNameTheBasket'
  <2>1. \A e : BasketsOf(e)' = BasketsOf(e)
    BY <1>0 DEF BasketsOf
  <2>2. EventBookedOnce' /\ SyncNamesBasket'
    BY <1>0, <2>1 DEF Idempotent, EventBookedOnce, Booked, SyncNamesBasket
  <2>3. \E i \in BasketsOf(req[r].event) : sales[i].receipt = s.receipt
    BY <1>3 DEF Idempotent, SyncNamesBasket
  <2>4. req'[r].event = req[r].event /\ req'[r].receipt = s.receipt
    BY <1>3 DEF Answer, Idle, Idempotent, Typed, TypeOK
  <2>5. \A x \in Requests \ {r} : req'[x] = req[x]
    BY <1>3 DEF Answer, Idempotent, Typed, TypeOK
  <2>6. AnswersNameTheBasket'
    BY <1>0, <2>1, <2>3, <2>4, <2>5 DEF Idempotent, AnswersNameTheBasket
  <2> QED
    BY <2>2, <2>6
<1> QED
  BY <1>1, <1>2, <1>3 DEF Replay

\* The unique key keeps a second basket for an event out; a basket comes with the
\* row that names it.
LEMMA CommitIdempotent ==
  ASSUME Idempotent, NEW r \in Requests, Commit(r)
  PROVE  EventBookedOnce' /\ SyncNamesBasket' /\ AnswersNameTheBasket'
<1> DEFINE q == req[r]
           basket == [receipt |-> q.receipt, event |-> q.event, token |-> q.token]
           new == Len(sales) + 1
<1>0. q \in Request /\ q.receipt \in Receipt
  BY DEF Idempotent, Typed, TypeOK, Progress, Commit
<1>1. CASE Refuse(r, "error") /\ UNCHANGED <<sales, syncEvents, intents, offered>>
  BY <1>1, RefusedBooksNothing DEF Refuse
<1>2. CASE /\ ~DuplicateEvent(q)
           /\ sales' = Append(sales, basket)
           /\ syncEvents' = syncEvents \cup SyncRow(q)
           /\ Answer(r, "created", q.receipt)
  <2>1. basket \in Basket
    BY <1>0 DEF Basket, Request
  <2>2. /\ DOMAIN sales' = DOMAIN sales \cup {new}
        /\ new \notin DOMAIN sales
        /\ \A i \in DOMAIN sales : sales'[i] = sales[i]
        /\ sales'[new] = basket
        /\ \A e : BasketsOf(e)' = BasketsOf(e) \cup (IF basket.event = e THEN {new} ELSE {})
    BY <1>2, <2>1, BasketAppended DEF Idempotent
  <2> HIDE DEF new
  <2>3. q.event \notin Booked
    BY <1>2 DEF DuplicateEvent
  <2>4. Booked' = Booked \cup ({q.event} \ {NoEvent})
    <3>1. \A s \in SyncRow(q) : s.event \in {q.event} \ {NoEvent}
      BY DEF SyncRow
    <3>2. \A e \in {q.event} \ {NoEvent} : \E s \in SyncRow(q) : s.event = e
      <4> SUFFICES ASSUME NEW e \in {q.event} \ {NoEvent}
                   PROVE  \E s \in SyncRow(q) : s.event = e
        OBVIOUS
      <4>1. [event |-> e, hash |-> HashOf(q), receipt |-> q.receipt] \in SyncRow(q)
        BY DEF SyncRow
      <4> QED
        BY <4>1
    <3> QED
      BY <1>2, <3>1, <3>2 DEF Booked
  <2>5. EventBookedOnce'
    <3> SUFFICES ASSUME NEW e \in Events
                 PROVE  /\ \A i, j \in BasketsOf(e)' : i = j
                        /\ e \in Booked' <=> BasketsOf(e)' # {}
      BY DEF EventBookedOnce
    <3>1. /\ \A i, j \in BasketsOf(e) : i = j
          /\ e \in Booked <=> BasketsOf(e) # {}
      BY DEF Idempotent, EventBookedOnce
    <3>2. CASE q.event = e
      <4>1. BasketsOf(e)' = {new}
        BY <3>1, <3>2, <2>2, <2>3
      <4>2. e \in Booked'
        BY <3>2, <2>4, ConstantsAssumption
      <4> QED
        BY <4>1, <4>2
    <3>3. CASE q.event # e
      <4>1. BasketsOf(e)' = BasketsOf(e)
        BY <3>3, <2>2
      <4>2. e \in Booked' <=> e \in Booked
        BY <3>3, <2>4
      <4> QED
        BY <3>1, <4>1, <4>2
    <3> QED
      BY <3>2, <3>3
  <2>7. /\ new \in DOMAIN sales'
        /\ sales'[new].event = q.event
        /\ sales'[new].receipt = q.receipt
    BY <2>2
  <2>8. SyncNamesBasket'
    <3> SUFFICES ASSUME NEW s \in syncEvents'
                 PROVE  \E i \in DOMAIN sales' : /\ sales'[i].event = s.event
                                                 /\ sales'[i].receipt = s.receipt
      BY DEF SyncNamesBasket, BasketsOf
    <3>1. CASE s \in syncEvents
      <4>1. PICK i \in DOMAIN sales : sales[i].event = s.event /\ sales[i].receipt = s.receipt
        BY <3>1 DEF Idempotent, SyncNamesBasket, BasketsOf
      <4> QED
        BY <4>1, <2>2
    <3>2. CASE s \in SyncRow(q)
      <4>1. s.event = q.event /\ s.receipt = q.receipt
        BY <3>2 DEF SyncRow
      <4> QED
        BY <4>1, <2>7
    <3> QED
      BY <1>2, <3>1, <3>2
  <2>9. AnswersNameTheBasket'
    <3> SUFFICES ASSUME NEW x \in Requests,
                        req'[x].status \in {"created", "replayed"},
                        req'[x].event # NoEvent
                 PROVE  \E i \in DOMAIN sales' : /\ sales'[i].event = req'[x].event
                                                 /\ sales'[i].receipt = req'[x].receipt
      BY DEF AnswersNameTheBasket, BasketsOf
    <3>1. CASE x = r
      <4>1. req'[r].event = q.event /\ req'[r].receipt = q.receipt
        BY <1>2 DEF Answer, Idle, Idempotent, Typed, TypeOK
      <4> QED
        BY <3>1, <4>1, <2>7
    <3>2. CASE x # r
      <4>1. req'[x] = req[x]
        BY <3>2, <1>2 DEF Answer, Idempotent, Typed, TypeOK
      <4>2. PICK i \in DOMAIN sales : /\ sales[i].event = req[x].event
                                      /\ sales[i].receipt = req[x].receipt
        BY <4>1 DEF Idempotent, AnswersNameTheBasket, BasketsOf
      <4> QED
        BY <4>1, <4>2, <2>2
    <3> QED
      BY <3>1, <3>2
  <2> QED
    BY <2>5, <2>8, <2>9
<1> QED
  BY <1>1, <1>2 DEF Commit

LEMMA OtherServeIdempotent ==
  ASSUME Idempotent, NEW r \in Requests,
         \/ Begin(r) \/ Allocate(r) \/ \E token \in Tokens : Reserve(r, token)
         \/ Fail(r) \/ Finish(r)
  PROVE  EventBookedOnce' /\ SyncNamesBasket' /\ AnswersNameTheBasket'
<1>0. UNCHANGED <<sales, syncEvents>>
  BY DEF Begin, Allocate, Reserve, Fail, Finish
<1>1. req[r] \in Request /\ req \in [Requests -> Request]
  BY DEF Idempotent, Typed, TypeOK
<1>2. req[r].pc \in InService => req[r].status = "none"
  BY DEF Idempotent, Typed, Progress
<1>3. CASE Begin(r)
  <2>1. \/ Refuse(r, "not_offered") \/ Refuse(r, "code_unusable")
        \/ \E redeem, receipt, withdraw :
             req' = [req EXCEPT ![r] = [req[r] EXCEPT !.pc = "commit", !.redeem = redeem,
                                          !.receipt = receipt, !.withdraw = withdraw]]
    <3>1. CASE req' = [req EXCEPT ![r].pc = "commit",
                        ![r].receipt = AllocateReceipt(req[r].supplied, req[r].day, NoToken),
                        ![r].withdraw = Depletes]
      <4>1. req' = [req EXCEPT ![r] = [req[r] EXCEPT !.pc = "commit",
                      !.redeem = req[r].redeem,
                      !.receipt = AllocateReceipt(req[r].supplied, req[r].day, NoToken),
                      !.withdraw = Depletes]]
        BY <1>1, <3>1 DEF Request
      <4> QED
        BY <4>1
    <3>2. ASSUME NEW intent,
                 req' = [req EXCEPT ![r].pc = "commit", ![r].redeem = {intent},
                    ![r].receipt = AllocateReceipt(intent.receipt, req[r].day, req[r].token),
                    ![r].withdraw = Depletes]
          PROVE  \E redeem, receipt, withdraw :
             req' = [req EXCEPT ![r] = [req[r] EXCEPT !.pc = "commit", !.redeem = redeem,
                                          !.receipt = receipt, !.withdraw = withdraw]]
      <4>1. req' = [req EXCEPT ![r] = [req[r] EXCEPT !.pc = "commit", !.redeem = {intent},
                      !.receipt = AllocateReceipt(intent.receipt, req[r].day, req[r].token),
                      !.withdraw = Depletes]]
        BY <3>2
      <4> QED
        BY <4>1
    <3> QED
      BY <1>3, <3>1, <3>2 DEF Begin
  <2>2. ASSUME NEW redeem, NEW receipt, NEW withdraw,
               req' = [req EXCEPT ![r] = [req[r] EXCEPT !.pc = "commit", !.redeem = redeem,
                                            !.receipt = receipt, !.withdraw = withdraw]]
        PROVE  EventBookedOnce' /\ SyncNamesBasket' /\ AnswersNameTheBasket'
    <3> DEFINE q == [req[r] EXCEPT !.pc = "commit", !.redeem = redeem,
                                   !.receipt = receipt, !.withdraw = withdraw]
    <3>1. q.status = "none"
      BY <1>1, <1>2, <1>3 DEF Begin, InService, Request
    <3>2. req' = [req EXCEPT ![r] = q]
      BY <2>2
    <3> HIDE DEF q
    <3> QED
      BY <1>0, <3>1, <3>2, NothingBooked
  <2> QED
    BY <1>0, <2>1, <2>2, RefusedBooksNothing DEF Refuse
<1>4. CASE Allocate(r)
  <2> DEFINE q == [req[r] EXCEPT !.pc = "reserve",
                !.receipt = AllocateReceipt(req[r].supplied, req[r].day, NoToken),
                !.attempt = req[r].attempt + 1]
  <2>1. q.status = "none"
    BY <1>1, <1>2, <1>4 DEF Allocate, InService, Request
  <2>2. req' = [req EXCEPT ![r] = q]
    BY <1>4 DEF Allocate
  <2> HIDE DEF q
  <2> QED
    BY <1>0, <2>1, <2>2, NothingBooked
<1>5. ASSUME NEW token \in Tokens, Reserve(r, token)
      PROVE  EventBookedOnce' /\ SyncNamesBasket' /\ AnswersNameTheBasket'
  <2>1. CASE req' = [req EXCEPT ![r].pc = "allocate"]
    <3> DEFINE q == [req[r] EXCEPT !.pc = "allocate"]
    <3>1. q.status = "none"
      BY <1>1, <1>2, <1>5 DEF Reserve, InService, Request
    <3>2. req' = [req EXCEPT ![r] = q]
      BY <2>1
    <3> HIDE DEF q
    <3> QED
      BY <1>0, <3>1, <3>2, NothingBooked
  <2>2. CASE Answer(r, "reserved", req[r].receipt) \/ Refuse(r, "receipt_busy")
    BY <1>0, <2>2, RefusedBooksNothing DEF Refuse
  <2> QED
    BY <1>5, <2>1, <2>2 DEF Reserve
<1>6. CASE Fail(r)
  BY <1>0, <1>6, RefusedBooksNothing DEF Fail, Refuse
<1>7. CASE Finish(r)
  <2>1. Idle.status = "none"
    BY DEF Idle
  <2> QED
    BY <1>0, <1>7, <2>1, NothingBooked DEF Finish
<1> QED
  BY <1>3, <1>4, <1>5, <1>6, <1>7

LEMMA StepIdempotent == Idempotent /\ [Next]_vars => Idempotent'
<1> SUFFICES ASSUME Idempotent, [Next]_vars PROVE Idempotent'
  OBVIOUS
<1>1. Typed'
  BY StepTyped DEF Idempotent
<1>2. CASE UNCHANGED <<sales, syncEvents, req>>
  BY <1>1, <1>2 DEF Idempotent, EventBookedOnce, BasketsOf, Booked, SyncNamesBasket,
                    AnswersNameTheBasket
<1>3. CASE Background \/ UNCHANGED vars
  BY <1>2, <1>3 DEF Background, CancelIntent, Expire, PurgeExpired, Midnight, vars
<1>4. ASSUME NEW r \in Requests, Receive(r) \/ Serve(r) \/ Finish(r)
      PROVE  Idempotent'
  BY <1>1, <1>4, ReceiveIdempotent, ReplayIdempotent, CommitIdempotent,
     OtherServeIdempotent DEF Serve, Idempotent
<1> QED
  BY <1>3, <1>4 DEF Next

\* However often a device sends an event, and however those requests overlap, the
\* ledger holds one basket for it exactly when sync_events knows the event.
THEOREM BookedOnceForever == Spec => []EventBookedOnce
<1>1. Spec => []Idempotent
  BY InitIdempotent, StepIdempotent, PTL DEF Spec
<1>2. Idempotent => EventBookedOnce
  BY DEF Idempotent
<1> QED
  BY <1>1, <1>2, PTL

\* Every success a device hears of names the receipt its basket is stored under.
THEOREM AnswersCorrect == Spec => []AnswersNameTheBasket
<1>1. Spec => []Idempotent
  BY InitIdempotent, StepIdempotent, PTL DEF Spec
<1>2. Idempotent => AnswersNameTheBasket
  BY DEF Idempotent
<1> QED
  BY <1>1, <1>2, PTL

-----------------------------------------------------------------------------
(* The booking API implements BookedOnce.                                   *)

Ledger == [e \in Events |-> BasketsOf(e)]

LEMMA InitRefines == Init => Once!Init
BY DEF Init, Once!Init, BasketsOf

\* Commit is the only step that books; it books an event that has no basket.
LEMMA CommitRefines ==
  ASSUME Idempotent, NEW r \in Requests, Commit(r)
  PROVE  Ledger' = Ledger \/ Once!Next
<1> DEFINE q == req[r]
           basket == [receipt |-> q.receipt, event |-> q.event, token |-> q.token]
           new == Len(sales) + 1
<1>0. q \in Request /\ q.receipt \in Receipt
  BY DEF Idempotent, Typed, TypeOK, Progress, Commit
<1>1. CASE sales' = sales
  BY <1>1 DEF Ledger, BasketsOf
<1>2. CASE ~DuplicateEvent(q) /\ sales' = Append(sales, basket)
  <2>1. basket \in Basket
    BY <1>0 DEF Basket, Request
  <2>2. \A e : BasketsOf(e)' = BasketsOf(e) \cup (IF basket.event = e THEN {new} ELSE {})
    BY <1>2, <2>1, BasketAppended DEF Idempotent
  <2> HIDE DEF new
  <2>3. CASE q.event = NoEvent
    <3>1. \A e \in Events : BasketsOf(e)' = BasketsOf(e)
      BY <2>2, <2>3, ConstantsAssumption
    <3> QED
      BY <3>1 DEF Ledger
  <2>4. CASE q.event # NoEvent
    <3>1. PICK e \in Events : e = q.event
      BY <1>0, <2>4 DEF Request
    <3>2. BasketsOf(e) = {}
      BY <1>2, <3>1 DEF DuplicateEvent, Idempotent, EventBookedOnce
    <3>3. BasketsOf(e)' = {new}
      BY <2>2, <3>1, <3>2
    <3>4. \A f \in Events : f # e => BasketsOf(f)' = BasketsOf(f)
      BY <2>2, <3>1
    <3>5. Ledger' = [Ledger EXCEPT ![e] = {new}]
      BY <3>3, <3>4 DEF Ledger
    <3>6. Ledger[e] = {} /\ new \in Ledger'[e]
      BY <3>2, <3>3 DEF Ledger
    <3>7. Once!Book(e)
      BY <3>5, <3>6 DEF Once!Book, Ledger
    <3> QED
      BY <3>7 DEF Once!Next
  <2> QED
    BY <2>3, <2>4
<1> QED
  BY <1>1, <1>2 DEF Commit

LEMMA StepRefines ==
  Idempotent /\ [Next]_vars => [Once!Next]_Ledger
<1> SUFFICES ASSUME Idempotent, [Next]_vars PROVE Ledger' = Ledger \/ Once!Next
  OBVIOUS
<1>1. CASE UNCHANGED sales
  BY <1>1 DEF Ledger, BasketsOf
<1>2. ASSUME NEW r \in Requests, Commit(r)
      PROVE  Ledger' = Ledger \/ Once!Next
  BY <1>2, CommitRefines
<1>3. Next => UNCHANGED sales \/ \E r \in Requests : Commit(r)
  BY DEF Next, Receive, ReceiveSale, ReceiveHistorical, ReceiveReservation, Serve, Replay,
         Begin, Allocate, Reserve, Fail, Finish, Background, CancelIntent, Expire,
         PurgeExpired, Midnight
<1> QED
  BY <1>1, <1>2, <1>3 DEF vars

\* Every behaviour of the booking API is one in which each event enters the ledger at
\* most once and for good.
THEOREM ImplementsBookedOnce == Spec => BookedOnceSpec
<1>1. Spec => []Idempotent
  BY InitIdempotent, StepIdempotent, PTL DEF Spec
<1>2. Init => Once!Init
  BY InitRefines
<1>3. Idempotent /\ [Next]_vars => [Once!Next]_Ledger
  BY StepRefines
<1> QED
  BY <1>1, <1>2, <1>3, PTL DEF Spec, BookedOnceSpec, Once!Spec, Ledger

-----------------------------------------------------------------------------
(* Payment codes.  redeemIntent reads the reservation without a lock, so    *)
(* what keeps two bookings from redeeming one code is that the second write *)
(* to the row fails under snapshot isolation.  Inductive together with: a   *)
(* token has one row and was shown to somebody, and a booking about to      *)
(* write carries the unconsumed row it read.                                *)

OneRowPerToken == \A i, j \in intents : i.token = j.token => i = j

RowsWereShown == \A i \in intents : shown[i.token] # NoReceipt

CarriesUnconsumed ==
  \A r \in Requests :
    req[r].pc = "commit" /\ req[r].token # NoToken =>
      \E i \in req[r].redeem : i.token = req[r].token /\ ~i.consumed

Redeeming ==
  /\ Typed /\ OneRowPerToken /\ RowsWereShown /\ CarriesUnconsumed
  /\ RedeemedStaysConsumed /\ CodeRedeemedOnce

\* The part of Redeeming that speaks of the tables.
Codes == OneRowPerToken /\ RowsWereShown /\ RedeemedStaysConsumed /\ CodeRedeemedOnce

LEMMA InitRedeeming == Init => Redeeming
BY InitTyped DEF Init, Redeeming, OneRowPerToken, RowsWereShown, CarriesUnconsumed, Idle,
                 RedeemedStaysConsumed, CodeRedeemedOnce

\* The request carries the row from Begin on; no other step reaches "commit".
LEMMA CarriesStep ==
  ASSUME Redeeming, [Next]_vars
  PROVE  CarriesUnconsumed'
<1>0. req \in [Requests -> Request]
  BY DEF Redeeming, Typed, TypeOK
<1>1. CASE UNCHANGED req
  BY <1>1 DEF Redeeming, CarriesUnconsumed
<1>2. ASSUME NEW r \in Requests, NEW q, req' = [req EXCEPT ![r] = q], q.pc # "commit"
      PROVE  CarriesUnconsumed'
  BY <1>0, <1>2 DEF Redeeming, CarriesUnconsumed
<1>3. ASSUME NEW r \in Requests, NEW status, NEW receipt, Answer(r, status, receipt)
      PROVE  CarriesUnconsumed'
  <2> DEFINE q == [Idle EXCEPT !.pc = "answered", !.status = status,
                               !.event = req[r].event, !.receipt = receipt]
  <2>1. q.pc # "commit"
    BY DEF Idle
  <2>2. req' = [req EXCEPT ![r] = q]
    BY <1>3 DEF Answer
  <2> HIDE DEF q
  <2> QED
    BY <2>1, <2>2, <1>2
<1>4. ASSUME NEW r \in Requests, Begin(r)
      PROVE  CarriesUnconsumed'
  <2>1. CASE /\ req[r].token = NoToken
             /\ req' = [req EXCEPT ![r].pc = "commit",
                         ![r].receipt = AllocateReceipt(req[r].supplied, req[r].day, NoToken),
                         ![r].withdraw = Depletes]
    <3>1. req'[r].token = NoToken
      BY <1>0, <2>1 DEF Request
    <3>2. \A x \in Requests \ {r} : req'[x] = req[x]
      BY <1>0, <2>1
    <3> QED
      BY <3>1, <3>2 DEF Redeeming, CarriesUnconsumed
  <2>2. ASSUME NEW intent \in Redeemable(req[r].token),
               req' = [req EXCEPT ![r].pc = "commit", ![r].redeem = {intent},
                  ![r].receipt = AllocateReceipt(intent.receipt, req[r].day, req[r].token),
                  ![r].withdraw = Depletes]
        PROVE  CarriesUnconsumed'
    <3>1. req'[r].token = req[r].token /\ req'[r].redeem = {intent}
      BY <1>0, <2>2 DEF Request
    <3>2. intent.token = req[r].token /\ ~intent.consumed
      BY DEF Redeemable
    <3>3. \A x \in Requests \ {r} : req'[x] = req[x]
      BY <1>0, <2>2
    <3> QED
      BY <3>1, <3>2, <3>3 DEF Redeeming, CarriesUnconsumed
  <2> QED
    BY <1>3, <1>4, <2>1, <2>2 DEF Begin, Refuse
<1>5. ASSUME NEW r \in Requests, Receive(r)
      PROVE  CarriesUnconsumed'
  <2>1. ASSUME NEW e, NEW token, NEW supplied, ReceiveSale(r, e, token, supplied)
        PROVE  CarriesUnconsumed'
    <3> DEFINE q == [Idle EXCEPT !.pc = IF e = NoEvent THEN "begin" ELSE "replay",
                       !.event = e, !.token = token, !.day = today,
                       !.supplied = supplied]
    <3>1. q.pc # "commit" /\ req' = [req EXCEPT ![r] = q]
      BY <2>1 DEF ReceiveSale, Idle
    <3> QED
      BY <3>1, <1>2
  <2>2. ASSUME NEW e, NEW day, NEW supplied, ReceiveHistorical(r, e, day, supplied)
        PROVE  CarriesUnconsumed'
    <3> DEFINE q == [Idle EXCEPT !.pc = "replay", !.event = e, !.day = day,
                       !.historical = TRUE, !.supplied = supplied]
    <3>1. q.pc # "commit" /\ req' = [req EXCEPT ![r] = q]
      BY <2>2 DEF ReceiveHistorical, Idle
    <3> QED
      BY <3>1, <1>2
  <2>3. ASSUME NEW supplied, ReceiveReservation(r, supplied)
        PROVE  CarriesUnconsumed'
    <3> DEFINE q == [Idle EXCEPT !.pc = "allocate", !.day = today, !.supplied = supplied]
    <3>1. q.pc # "commit" /\ req' = [req EXCEPT ![r] = q]
      BY <2>3 DEF ReceiveReservation, Idle
    <3> QED
      BY <3>1, <1>2
  <2> QED
    BY <1>5, <2>1, <2>2, <2>3 DEF Receive
<1>6. ASSUME NEW r \in Requests, NEW pc, pc # "commit", req' = [req EXCEPT ![r].pc = pc]
      PROVE  CarriesUnconsumed'
  <2>1. req'[r].pc # "commit"
    BY <1>0, <1>6 DEF Request
  <2>2. \A x \in Requests \ {r} : req'[x] = req[x]
    BY <1>0, <1>6
  <2> QED
    BY <2>1, <2>2 DEF Redeeming, CarriesUnconsumed
<1>7. ASSUME NEW r \in Requests, Serve(r) \/ Finish(r)
      PROVE  CarriesUnconsumed'
  <2>1. CASE Replay(r)
    BY <1>3, <1>6, <2>1 DEF Replay, Refuse
  <2>2. CASE Commit(r)
    BY <1>3, <2>2 DEF Commit, Refuse
  <2>3. CASE Allocate(r)
    <3>1. req'[r].pc # "commit"
      BY <1>0, <2>3 DEF Allocate, Request
    <3>2. \A x \in Requests \ {r} : req'[x] = req[x]
      BY <1>0, <2>3 DEF Allocate
    <3> QED
      BY <3>1, <3>2 DEF Redeeming, CarriesUnconsumed
  <2>4. ASSUME NEW token \in Tokens, Reserve(r, token)
        PROVE  CarriesUnconsumed'
    BY <1>3, <1>6, <2>4 DEF Reserve, Refuse
  <2>5. CASE Fail(r)
    BY <1>3, <2>5 DEF Fail, Refuse
  <2>6. CASE Finish(r)
    <3>1. Idle.pc # "commit"
      BY DEF Idle
    <3> QED
      BY <1>2, <2>6, <3>1 DEF Finish
  <2> QED
    BY <1>4, <1>7, <2>1, <2>2, <2>3, <2>4, <2>5, <2>6 DEF Serve
<1>8. CASE Background \/ UNCHANGED vars
  BY <1>1, <1>8 DEF Background, CancelIntent, Expire, PurgeExpired, Midnight, vars
<1> QED
  BY <1>5, <1>7, <1>8 DEF Next

\* Under snapshot isolation the row read is still there, unconsumed, at the commit:
\* no basket was booked under its token yet.
LEMMA CommitCodes ==
  ASSUME SnapshotIsolation, Redeeming, NEW r \in Requests, Commit(r)
  PROVE  Codes'
<1> DEFINE q == req[r]
           basket == [receipt |-> q.receipt, event |-> q.event, token |-> q.token]
           new == Len(sales) + 1
<1>0. /\ q \in Request /\ q.receipt \in Receipt
      /\ intents \subseteq Intent
      /\ shown' = shown
  BY DEF Redeeming, Typed, TypeOK, Progress, Commit
<1>1. CASE UNCHANGED <<sales, intents>>
  BY <1>0, <1>1 DEF Redeeming, Codes, OneRowPerToken, RowsWereShown, RedeemedStaysConsumed,
                    CodeRedeemedOnce
<1>2. CASE /\ ~WritesStaleRow(q)
           /\ sales' = Append(sales, basket)
           /\ intents' = Consume(intents, q.token)
  <2>1. basket \in Basket
    BY <1>0 DEF Basket, Request
  <2>2. /\ DOMAIN sales' = DOMAIN sales \cup {new}
        /\ new \notin DOMAIN sales
        /\ \A i \in DOMAIN sales : sales'[i] = sales[i]
        /\ sales'[new].token = q.token
    BY <1>2, <2>1, BasketAppended DEF Redeeming
  <2> HIDE DEF new
  <2>3. q.redeem \subseteq intents
    BY <1>2 DEF WritesStaleRow
  <2>4. \A i \in intents' :
          \E j \in intents : /\ i.token = j.token
                            /\ i = IF j.token = q.token THEN [j EXCEPT !.consumed = TRUE] ELSE j
    BY <1>0, <1>2 DEF Consume, Intent
  <2>5. OneRowPerToken' /\ RowsWereShown'
    <3>1. RowsWereShown'
      BY <1>0, <2>4 DEF Redeeming, RowsWereShown
    <3>2. ASSUME NEW x \in intents', NEW y \in intents', x.token = y.token
          PROVE  x = y
      <4>1. PICK i \in intents : /\ x.token = i.token
                                 /\ x = IF i.token = q.token THEN [i EXCEPT !.consumed = TRUE] ELSE i
        BY <2>4
      <4>2. PICK j \in intents : /\ y.token = j.token
                                 /\ y = IF j.token = q.token THEN [j EXCEPT !.consumed = TRUE] ELSE j
        BY <2>4
      <4>3. i = j
        BY <3>2, <4>1, <4>2 DEF Redeeming, OneRowPerToken
      <4> QED
        BY <4>1, <4>2, <4>3
    <3> QED
      BY <3>1, <3>2 DEF OneRowPerToken
  <2>6. CASE q.token = NoToken
    <3>1. intents' = intents
      BY <1>0, <1>2, <2>6, ConstantsAssumption DEF Consume, Intent
    <3>2. RedeemedStaysConsumed'
      BY <2>2, <2>6, <3>1 DEF Redeeming, RedeemedStaysConsumed
    <3>3. CodeRedeemedOnce'
      BY <2>2, <2>6 DEF Redeeming, CodeRedeemedOnce
    <3> QED
      BY <2>5, <3>2, <3>3 DEF Codes
  <2>7. CASE q.token # NoToken
    <3>1. PICK row \in intents : row.token = q.token /\ ~row.consumed
      BY <2>3, <2>7 DEF Redeeming, CarriesUnconsumed, Commit
    <3>2. \A i \in DOMAIN sales : sales[i].token # q.token
      BY <3>1, <2>7 DEF Redeeming, RedeemedStaysConsumed, OneRowPerToken
    <3>3. CodeRedeemedOnce'
      BY <2>2, <3>2 DEF Redeeming, CodeRedeemedOnce
    <3>4. [row EXCEPT !.consumed = TRUE] \in intents'
      BY <1>2, <3>1 DEF Consume
    <3>5. \A i \in intents : i.token # q.token => i \in intents'
      BY <1>2 DEF Consume
    <3>6. RedeemedStaysConsumed'
      <4> SUFFICES ASSUME NEW i \in DOMAIN sales', sales'[i].token # NoToken
                   PROVE  \E x \in intents' : x.token = sales'[i].token /\ x.consumed
        BY DEF RedeemedStaysConsumed
      <4>1. CASE i = new
        BY <4>1, <1>0, <2>2, <3>1, <3>4 DEF Intent
      <4>2. CASE i \in DOMAIN sales
        <5>1. PICK x \in intents : x.token = sales[i].token /\ x.consumed
          BY <4>2, <2>2 DEF Redeeming, RedeemedStaysConsumed
        <5> QED
          BY <4>2, <5>1, <2>2, <3>2, <3>5
      <4> QED
        BY <4>1, <4>2, <2>2
    <3> QED
      BY <2>5, <3>3, <3>6 DEF Codes
  <2> QED
    BY <2>6, <2>7
<1> QED
  BY <1>1, <1>2 DEF Commit

\* A new row has a token nobody was shown; the rows it replaces are unconsumed.
LEMMA ReserveCodes ==
  ASSUME Redeeming, NEW r \in Requests, NEW token \in Tokens, Reserve(r, token)
  PROVE  Codes'
<1> DEFINE q == req[r]
           rest == intents \ Released(q.receipt)
           row == [token |-> token, receipt |-> q.receipt, consumed |-> FALSE]
<1>0. /\ sales' = sales /\ shown \in [Tokens -> Receipt \cup {NoReceipt}]
      /\ intents \subseteq Intent
  BY DEF Reserve, Redeeming, Typed, TypeOK
<1>1. \A i \in intents : i.consumed => i \in rest
  BY DEF Released
<1>2. rest \subseteq intents /\ rest \subseteq intents'
  BY DEF Reserve
<1>3. RedeemedStaysConsumed' /\ CodeRedeemedOnce'
  BY <1>0, <1>1, <1>2 DEF Redeeming, RedeemedStaysConsumed, CodeRedeemedOnce
<1>4. CASE intents' = rest /\ UNCHANGED shown
  BY <1>2, <1>3, <1>4 DEF Redeeming, Codes, OneRowPerToken, RowsWereShown
<1>5. CASE /\ shown[token] = NoReceipt
           /\ intents' = rest \cup {row}
           /\ shown' = [shown EXCEPT ![token] = q.receipt]
  <2>1. \A i \in rest : i.token # token
    BY <1>2, <1>5 DEF Redeeming, RowsWereShown
  <2>2. OneRowPerToken'
    <3>1. \A i, j \in rest : i.token = j.token => i = j
      BY <1>2 DEF Redeeming, OneRowPerToken
    <3>2. row.token = token
      OBVIOUS
    <3> HIDE DEF rest, row
    <3> QED
      BY <1>5, <2>1, <3>1, <3>2 DEF OneRowPerToken
  <2>3. q.receipt # NoReceipt
    BY DEF Reserve, Redeeming, Typed, Progress, Receipt, NoReceipt
  <2>4. RowsWereShown'
    BY <1>0, <1>2, <1>5, <2>1, <2>3 DEF Redeeming, RowsWereShown, Intent
  <2> QED
    BY <1>3, <2>2, <2>4 DEF Codes
<1> QED
  BY <1>4, <1>5 DEF Reserve

\* What is cancelled or purged is unconsumed, so no basket was booked under it.
LEMMA BackgroundCodes ==
  ASSUME Redeeming, Background
  PROVE  Codes'
<1>0. sales' = sales /\ shown' = shown
  BY DEF Background, CancelIntent, Expire, PurgeExpired, Midnight
<1>1. intents' \subseteq intents
  BY DEF Background, CancelIntent, Expire, PurgeExpired, Midnight
<1>2. \A i \in intents : i.consumed => i \in intents'
  BY DEF Background, CancelIntent, Expire, PurgeExpired, Midnight, Redeeming, OneRowPerToken
<1> QED
  BY <1>0, <1>1, <1>2 DEF Redeeming, Codes, OneRowPerToken, RowsWereShown,
                          RedeemedStaysConsumed, CodeRedeemedOnce

LEMMA StepRedeeming ==
  ASSUME SnapshotIsolation
  PROVE  Redeeming /\ [Next]_vars => Redeeming'
<1> SUFFICES ASSUME Redeeming, [Next]_vars PROVE Redeeming'
  OBVIOUS
<1>1. Typed' /\ CarriesUnconsumed'
  BY StepTyped, CarriesStep DEF Redeeming
<1>2. ASSUME UNCHANGED <<sales, intents, shown>>
      PROVE  Codes'
  BY <1>2 DEF Redeeming, Codes, OneRowPerToken, RowsWereShown, RedeemedStaysConsumed,
              CodeRedeemedOnce
<1>3. ASSUME NEW r \in Requests, Receive(r) \/ Serve(r) \/ Finish(r)
      PROVE  Codes'
  <2>1. \/ UNCHANGED <<sales, intents, shown>>
        \/ Commit(r)
        \/ \E token \in Tokens : Reserve(r, token)
    BY <1>3 DEF Receive, ReceiveSale, ReceiveHistorical, ReceiveReservation, Serve, Replay,
                Begin, Allocate, Fail, Finish
  <2> QED
    BY <1>2, <2>1, CommitCodes, ReserveCodes
<1>4. Codes'
  BY <1>2, <1>3, BackgroundCodes DEF Next, vars
<1> QED
  BY <1>1, <1>4 DEF Redeeming, Codes

\* Under snapshot isolation a payment code is redeemed by at most one basket.
THEOREM CodesRedeemedOnce ==
  ASSUME SnapshotIsolation
  PROVE  Spec => []CodeRedeemedOnce
<1>1. Redeeming /\ [Next]_vars => Redeeming'
  BY StepRedeeming
<1>2. Redeeming => CodeRedeemedOnce
  BY DEF Redeeming
<1> QED
  BY <1>1, <1>2, InitRedeeming, PTL DEF Spec

\* Under snapshot isolation the reservation a basket was booked under stays on record.
THEOREM RedeemedCodesStay ==
  ASSUME SnapshotIsolation
  PROVE  Spec => []RedeemedStaysConsumed
<1>1. Redeeming /\ [Next]_vars => Redeeming'
  BY StepRedeeming
<1>2. Redeeming => RedeemedStaysConsumed
  BY DEF Redeeming
<1> QED
  BY <1>1, <1>2, InitRedeeming, PTL DEF Spec
-----------------------------------------------------------------------------
(* One request at a time.  A server that finishes a request before it takes *)
(* the next one never books under stale reads, whatever the database does   *)
(* about them.  Between the reading and the writing half of the request a   *)
(* reservation may be cancelled, expire or be purged, which only frees      *)
(* receipts.                                                                *)

OneAtATime == \A r, s \in Requests : r = s

\* A reservation has the receipt its token was shown with, and to itself.
RowsAsShown ==
  /\ \A i \in intents : i.receipt = shown[i.token]
  /\ \A i, j \in intents : i.token = j.token \/ i.receipt = j.receipt => i = j

\* A basket booked under a token was booked for a displayed code, and the
\* reservation, when it is still there, is consumed.
CodesSpent ==
  \A i \in DOMAIN sales : sales[i].token # NoToken =>
    /\ shown[sales[i].token] # NoReceipt
    /\ \A row \in intents : row.token = sales[i].token => row.consumed

\* No basket has the receipt, and no reservation that counts but the token's.
FreeFor(receipt, token) ==
  /\ \A i \in DOMAIN sales : sales[i].receipt # receipt
  /\ \A i \in intents : i.receipt = receipt /\ i.token \notin expired => i.token = token

\* What a request about to write has read is still true.
ReadsHold ==
  \A r \in Requests :
    /\ req[r].token # NoToken => shown[req[r].token] # NoReceipt
    /\ req[r].pc = "reserve" => \A i \in DOMAIN sales : sales[i].receipt # req[r].receipt
    /\ req[r].pc = "commit" =>
         /\ FreeFor(req[r].receipt, req[r].token)
         /\ offered /\ Len(sales) + 1 >= Stock => req[r].withdraw
         /\ req[r].token # NoToken /\ req[r].receipt.day = shown[req[r].token].day =>
              req[r].receipt = shown[req[r].token]

\* What the tables of a serial server satisfy.
Ledgers ==
  /\ RowsAsShown /\ CodesSpent
  /\ ReceiptsUnique /\ DisplayedCodeKept /\ ScannedCodeDecides /\ DepletedWithdrawn

Serial == Typed /\ Ledgers /\ ReadsHold

\* Allocate returns a receipt that is free for the token, the one it was asked
\* for as well as the one it chose.
LEMMA AllocateIsFree ==
  ASSUME Typed, NEW day \in Days, NEW supplied \in Receipt \cup {NoReceipt},
         NEW token \in Tokens \cup {NoToken}
  PROVE  FreeFor(AllocateReceipt(supplied, day, token), token)
<1> DEFINE receipt == AllocateReceipt(supplied, day, token)
<1>1. receipt.day = day /\ receipt \in Receipt
  BY AllocateIsReceipt DEF Typed
<1>2. receipt \notin TakenExcluding(day, token)
  <2>1. \A i \in intents : i.token \in Tokens
    BY DEF Typed, TypeOK, Intent
  <2>2. TakenExcluding(day, token) \subseteq Taken(day)
    BY <2>1, ConstantsAssumption DEF Taken, TakenExcluding
  <2>3. NextReceipt(day) \notin Taken(day)
    BY NextIsFree DEF Typed
  <2> QED
    BY <2>2, <2>3 DEF AllocateReceipt
<1> HIDE DEF receipt
<1>3. \A i \in DOMAIN sales : sales[i].receipt # receipt
  BY <1>1, <1>2 DEF TakenExcluding
<1>4. \A i \in intents : i.receipt = receipt /\ i.token \notin expired => i.token = token
  BY <1>1, <1>2 DEF TakenExcluding
<1> QED
  BY <1>3, <1>4 DEF FreeFor, receipt

LEMMA InitSerial == Init => Serial
<1> SUFFICES ASSUME Init PROVE Serial
  OBVIOUS
<1>1. Ledgers
  BY ConstantsAssumption DEF Init, Ledgers, RowsAsShown, CodesSpent, ReceiptsUnique,
     DisplayedCodeKept, ScannedCodeDecides, DepletedWithdrawn
<1>2. ReadsHold
  BY DEF Init, Idle, ReadsHold
<1> QED
  BY <1>1, <1>2, InitTyped DEF Serial

\* The only request has nothing to write next.
LEMMA NothingToWrite ==
  ASSUME OneAtATime, Typed, NEW r \in Requests, NEW q, req' = [req EXCEPT ![r] = q],
         q.pc \notin {"reserve", "commit"},
         q.token # NoToken => shown'[q.token] # NoReceipt
  PROVE  ReadsHold'
<1>1. req' \in [Requests -> {q}]
  BY DEF OneAtATime, Typed, TypeOK
<1> QED
  BY <1>1 DEF ReadsHold

LEMMA AnsweredWritesNothing ==
  ASSUME OneAtATime, Typed, NEW r \in Requests, NEW status, NEW receipt,
         Answer(r, status, receipt)
  PROVE  ReadsHold'
<1> DEFINE q == [Idle EXCEPT !.pc = "answered", !.status = status,
                             !.event = req[r].event, !.receipt = receipt]
<1>1. q.pc = "answered" /\ q.token = NoToken
  BY DEF Idle
<1>2. req' = [req EXCEPT ![r] = q]
  BY DEF Answer
<1> HIDE DEF q
<1> QED
  BY <1>1, <1>2, NothingToWrite

\* The tables stay as they are.
LEMMA LedgersKept ==
  ASSUME Ledgers, UNCHANGED <<sales, intents, expired, shown, offered>>
  PROVE  Ledgers'
BY DEF Ledgers, RowsAsShown, CodesSpent, ReceiptsUnique, DisplayedCodeKept, Held,
       ScannedCodeDecides, DepletedWithdrawn

LEMMA ReceiveSerial ==
  ASSUME OneAtATime, Serial, NEW r \in Requests, Receive(r)
  PROVE  Ledgers' /\ ReadsHold'
<1>1. UNCHANGED <<sales, intents, expired, shown, offered>>
  BY DEF Receive, ReceiveSale, ReceiveHistorical, ReceiveReservation
<1>2. ASSUME NEW e, NEW token, token # NoToken => shown[token] # NoReceipt,
             NEW supplied, ReceiveSale(r, e, token, supplied)
      PROVE  ReadsHold'
  <2> DEFINE q == [Idle EXCEPT !.pc = IF e = NoEvent THEN "begin" ELSE "replay",
                     !.event = e, !.token = token, !.day = today,
                     !.supplied = supplied]
  <2>1. q.pc \in {"begin", "replay"} /\ q.token = token
    BY DEF Idle
  <2>2. req' = [req EXCEPT ![r] = q]
    BY <1>2 DEF ReceiveSale
  <2> HIDE DEF q
  <2> QED
    BY <1>1, <1>2, <2>1, <2>2, NothingToWrite DEF Serial
<1>3. ASSUME NEW e, NEW day, NEW supplied, ReceiveHistorical(r, e, day, supplied)
      PROVE  ReadsHold'
  <2> DEFINE q == [Idle EXCEPT !.pc = "replay", !.event = e, !.day = day,
                     !.historical = TRUE, !.supplied = supplied]
  <2>1. q.pc = "replay" /\ q.token = NoToken
    BY DEF Idle
  <2>2. req' = [req EXCEPT ![r] = q]
    BY <1>3 DEF ReceiveHistorical
  <2> HIDE DEF q
  <2> QED
    BY <2>1, <2>2, NothingToWrite DEF Serial
<1>4. ASSUME NEW supplied, ReceiveReservation(r, supplied)
      PROVE  ReadsHold'
  <2> DEFINE q == [Idle EXCEPT !.pc = "allocate", !.day = today, !.supplied = supplied]
  <2>1. q.pc = "allocate" /\ q.token = NoToken
    BY DEF Idle
  <2>2. req' = [req EXCEPT ![r] = q]
    BY <1>4 DEF ReceiveReservation
  <2> HIDE DEF q
  <2> QED
    BY <2>1, <2>2, NothingToWrite DEF Serial
<1>5. ReadsHold'
  BY <1>2, <1>3, <1>4 DEF Receive
<1> QED
  BY <1>1, <1>5, LedgersKept DEF Serial

\* The lookup of the event, a failure and the end of a request.
LEMMA AsideSerial ==
  ASSUME OneAtATime, Serial, NEW r \in Requests, Replay(r) \/ Fail(r) \/ Finish(r)
  PROVE  Ledgers' /\ ReadsHold'
<1>1. UNCHANGED <<sales, intents, expired, shown, offered>>
  BY DEF Replay, Fail, Finish
<1>2. CASE req' = [req EXCEPT ![r].pc = "begin"]
  <2> DEFINE q == [req[r] EXCEPT !.pc = "begin"]
  <2>1. q.pc = "begin" /\ q.token = req[r].token
    BY DEF Serial, Typed, TypeOK, Request
  <2>2. req' = [req EXCEPT ![r] = q]
    BY <1>2
  <2> HIDE DEF q
  <2> QED
    BY <1>1, <2>1, <2>2, NothingToWrite, LedgersKept DEF Serial, ReadsHold
<1>3. CASE req' = [req EXCEPT ![r] = Idle]
  <2>1. Idle.pc = "idle" /\ Idle.token = NoToken
    BY DEF Idle
  <2> QED
    BY <1>1, <1>3, <2>1, NothingToWrite, LedgersKept DEF Serial
<1>4. ASSUME NEW status, NEW receipt, Answer(r, status, receipt)
      PROVE  Ledgers' /\ ReadsHold'
  <2>1. ReadsHold'
    BY <1>4, AnsweredWritesNothing DEF Serial
  <2> QED
    BY <1>1, <2>1, LedgersKept DEF Serial
<1>5. CASE Replay(r)
  BY <1>2, <1>4, <1>5 DEF Replay, Refuse
<1>6. CASE Fail(r)
  BY <1>4, <1>6 DEF Fail, Refuse
<1>7. CASE Finish(r)
  BY <1>3, <1>7 DEF Finish
<1> QED
  BY <1>5, <1>6, <1>7

\* The reading half finds what the writing half will still find.
LEMMA BeginSerial ==
  ASSUME OneAtATime, Serial, NEW r \in Requests, Begin(r)
  PROVE  Ledgers' /\ ReadsHold'
<1> DEFINE q == req[r]
<1>1. UNCHANGED <<sales, intents, expired, shown, offered>>
  BY DEF Begin
<1>2. /\ req \in [Requests -> Request] /\ q \in Request
      /\ q.day \in Days /\ q.supplied \in Receipt \cup {NoReceipt}
      /\ q.token \in Tokens \cup {NoToken}
  BY DEF Serial, Typed, TypeOK, Progress, Begin, InService, Request
<1>3. ASSUME NEW status, NEW receipt, Answer(r, status, receipt)
      PROVE  ReadsHold'
  BY <1>3, AnsweredWritesNothing DEF Serial
<1>4. ASSUME NEW receipt, NEW redeem, q.pc = "begin", FreeFor(receipt, q.token),
             q.token # NoToken /\ receipt.day = shown[q.token].day => receipt = shown[q.token],
             req' = [req EXCEPT ![r] = [q EXCEPT !.pc = "commit", !.redeem = redeem,
                                          !.receipt = receipt, !.withdraw = Depletes]]
      PROVE  ReadsHold'
  <2>1. /\ req'[r].token = q.token /\ req'[r].receipt = receipt /\ req'[r].pc = "commit"
        /\ req'[r].withdraw = Depletes
    BY <1>2, <1>4 DEF Request
  <2>2. FreeFor(receipt, q.token)'
    BY <1>1, <1>2, <1>4 DEF FreeFor
  <2>3. \A s \in Requests : s = r
    BY DEF OneAtATime
  <2>4. q.token # NoToken => shown[q.token] # NoReceipt
    BY DEF Serial, ReadsHold
  <2>5. FreeFor(req[r].receipt, req[r].token)'
    BY <2>1, <2>2 DEF FreeFor
  <2>6. offered' /\ Len(sales') + 1 >= Stock => req'[r].withdraw
    BY <1>1, <2>1 DEF Depletes
  <2> QED
    BY <1>1, <1>4, <2>1, <2>3, <2>4, <2>5, <2>6 DEF ReadsHold
<1>5. ASSUME q.token = NoToken,
             req' = [req EXCEPT ![r].pc = "commit",
                       ![r].receipt = AllocateReceipt(q.supplied, q.day, NoToken),
                       ![r].withdraw = Depletes]
      PROVE  ReadsHold'
  <2> DEFINE receipt == AllocateReceipt(q.supplied, q.day, NoToken)
  <2>1. FreeFor(receipt, q.token)
    BY <1>2, <1>5, AllocateIsFree DEF Serial
  <2>2. [q EXCEPT !.pc = "commit", !.redeem = q.redeem, !.receipt = receipt, !.withdraw = Depletes]
        = [q EXCEPT !.pc = "commit", !.receipt = receipt, !.withdraw = Depletes]
    BY <1>2 DEF Request
  <2>3. req' = [req EXCEPT ![r] = [q EXCEPT !.pc = "commit", !.receipt = receipt,
                                              !.withdraw = Depletes]]
    BY <1>5
  <2> HIDE DEF receipt
  <2>4. q.pc = "begin"
    BY DEF Begin
  <2>5. req' = [req EXCEPT ![r] = [q EXCEPT !.pc = "commit", !.redeem = q.redeem,
                                              !.receipt = receipt, !.withdraw = Depletes]]
    BY <2>2, <2>3
  <2> QED
    BY <1>4, <1>5, <2>1, <2>4, <2>5
<1>6. ASSUME NEW intent \in Redeemable(q.token),
             req' = [req EXCEPT ![r].pc = "commit", ![r].redeem = {intent},
                       ![r].receipt = AllocateReceipt(intent.receipt, q.day, q.token),
                       ![r].withdraw = Depletes]
      PROVE  ReadsHold'
  <2> DEFINE receipt == AllocateReceipt(intent.receipt, q.day, q.token)
  <2>1. /\ intent \in intents /\ intent.token = q.token /\ intent.token \in Tokens
        /\ intent.receipt \in Receipt /\ ~intent.consumed /\ q.token \notin expired
    BY DEF Redeemable, Serial, Typed, TypeOK, Intent
  <2>2. FreeFor(receipt, q.token)
    BY <1>2, <2>1, AllocateIsFree DEF Serial
  <2>3. receipt.day = q.day
    BY <1>2, <2>1, AllocateIsReceipt DEF Serial, Typed
  <2>4. intent.receipt = shown[q.token]
    BY <2>1 DEF Serial, Ledgers, RowsAsShown
  <2>5. intent.receipt \notin TakenExcluding(q.day, q.token)
    <3>1. \A i \in DOMAIN sales : sales[i].receipt # intent.receipt
      BY <2>1, <2>4, ConstantsAssumption
         DEF Serial, Ledgers, DisplayedCodeKept, Held, CodesSpent
    <3>2. \A j \in intents : j.token # q.token => j.receipt # intent.receipt
      BY <2>1 DEF Serial, Ledgers, RowsAsShown
    <3> QED
      BY <3>1, <3>2 DEF TakenExcluding
  <2>6. receipt.day = shown[q.token].day => receipt = shown[q.token]
    BY <2>3, <2>4, <2>5 DEF AllocateReceipt
  <2>7. req' = [req EXCEPT ![r] = [q EXCEPT !.pc = "commit", !.redeem = {intent},
                                              !.receipt = receipt, !.withdraw = Depletes]]
    BY <1>6
  <2> HIDE DEF receipt
  <2> QED
    BY <1>4, <2>2, <2>6, <2>7 DEF Begin
<1>7. ReadsHold'
  BY <1>3, <1>5, <1>6 DEF Begin, Refuse
<1> QED
  BY <1>1, <1>7, LedgersKept DEF Serial

LEMMA AllocateSerial ==
  ASSUME OneAtATime, Serial, NEW r \in Requests, Allocate(r)
  PROVE  Ledgers' /\ ReadsHold'
<1> DEFINE q == req[r]
           receipt == AllocateReceipt(q.supplied, q.day, NoToken)
<1>1. UNCHANGED <<sales, intents, expired, shown, offered>>
  BY DEF Allocate
<1>2. /\ req \in [Requests -> Request] /\ q \in Request
      /\ q.day \in Days /\ q.supplied \in Receipt \cup {NoReceipt}
  BY DEF Serial, Typed, TypeOK, Progress, Allocate, InService, Request
<1>3. FreeFor(receipt, NoToken)
  BY <1>2, AllocateIsFree DEF Serial
<1>4. req'[r].pc = "reserve" /\ req'[r].receipt = receipt /\ req'[r].token = q.token
  BY <1>2 DEF Allocate, Request
<1>5. \A s \in Requests : s = r
  BY DEF OneAtATime
<1> HIDE DEF receipt
<1>6. ReadsHold'
  BY <1>1, <1>3, <1>4, <1>5 DEF FreeFor, Serial, ReadsHold
<1> QED
  BY <1>1, <1>6, LedgersKept DEF Serial

\* The writing half: the new basket takes a free receipt, and the code's own one
\* when it was made on the day of the code.
LEMMA CommitSerial ==
  ASSUME OneAtATime, Serial, NEW r \in Requests, Commit(r)
  PROVE  Ledgers' /\ ReadsHold'
<1> DEFINE q == req[r]
           basket == [receipt |-> q.receipt, event |-> q.event, token |-> q.token]
<1>1. ReadsHold'
  BY AnsweredWritesNothing DEF Serial, Commit, Refuse
<1>2. CASE UNCHANGED <<sales, intents, offered>>
  BY <1>1, <1>2, LedgersKept DEF Serial, Commit
<1>3. CASE /\ sales' = Append(sales, basket)
           /\ offered' = (offered /\ ~q.withdraw)
           /\ intents' = Consume(intents, q.token)
  <2>1. /\ q \in Request /\ q.receipt \in Receipt /\ UNCHANGED <<expired, shown>>
        /\ intents \subseteq Intent
    BY DEF Serial, Typed, TypeOK, Progress, Commit
  <2>2. basket \in Basket
    BY <2>1 DEF Request, Basket
  <2>3. /\ DOMAIN sales' = DOMAIN sales \cup {Len(sales) + 1}
        /\ Len(sales) + 1 \notin DOMAIN sales
        /\ \A i \in DOMAIN sales : sales'[i] = sales[i]
        /\ sales'[Len(sales) + 1] = basket
    BY <1>3, <2>2, BasketAppended DEF Serial
  <2>4. /\ basket.receipt = q.receipt /\ basket.token = q.token
        /\ FreeFor(q.receipt, q.token)
        /\ offered /\ Len(sales) + 1 >= Stock => q.withdraw
        /\ q.token # NoToken /\ q.receipt.day = shown[q.token].day => q.receipt = shown[q.token]
        /\ q.token # NoToken => shown[q.token] # NoReceipt
    BY DEF Serial, ReadsHold, Commit
  \* The rows of the table afterwards: as before, but the token's consumed.
  <2>5. \A i \in intents' : /\ \E j \in intents : i.token = j.token /\ i.receipt = j.receipt
                                                  /\ (j.token # q.token => i = j)
                            /\ i.token = q.token => i.consumed
    BY <1>3, <2>1 DEF Consume, Intent
  <2>6. \A i \in intents' : i \in Intent
    BY <1>3, <2>1 DEF Consume, Intent
  <2> HIDE DEF q, basket
  <2>7. RowsAsShown'
    <3>1. \A i \in intents' : i.receipt = shown[i.token]
      BY <2>5 DEF Serial, Ledgers, RowsAsShown
    <3>2. ASSUME NEW i \in intents', NEW j \in intents',
                 i.token = j.token \/ i.receipt = j.receipt
          PROVE  i = j
      <4>1. PICK k \in intents : i.token = k.token /\ i.receipt = k.receipt
                                 /\ (k.token # q.token => i = k)
        BY <2>5
      <4>2. PICK l \in intents : j.token = l.token /\ j.receipt = l.receipt
                                 /\ (l.token # q.token => j = l)
        BY <2>5
      <4>3. k = l
        BY <3>2, <4>1, <4>2 DEF Serial, Ledgers, RowsAsShown
      <4>4. i.token = j.token /\ i.receipt = j.receipt
        BY <4>1, <4>2, <4>3
      <4>5. i.consumed = j.consumed
        BY <2>5, <2>6, <4>1, <4>2, <4>3, <4>4 DEF Intent
      <4> QED
        BY <2>6, <4>4, <4>5 DEF Intent
    <3> QED
      BY <2>1, <3>1, <3>2 DEF RowsAsShown
  <2>8. CodesSpent'
    <3>1. ASSUME NEW i \in DOMAIN sales, sales[i].token # NoToken
          PROVE  /\ shown[sales[i].token] # NoReceipt
                 /\ \A row \in intents' : row.token = sales[i].token => row.consumed
      BY <2>5, <3>1 DEF Serial, Ledgers, CodesSpent
    <3>2. \A row \in intents' : row.token = q.token => row.consumed
      BY <2>5
    <3> QED
      BY <2>1, <2>3, <2>4, <3>1, <3>2 DEF CodesSpent
  <2>9. ReceiptsUnique'
    BY <2>3, <2>4 DEF Serial, Ledgers, ReceiptsUnique, FreeFor
  <2>10. DisplayedCodeKept'
    <3>1. \A t \in Tokens : Held(t)' => Held(t) /\ \E i \in intents : i.token = t /\ i.receipt = shown[t]
      BY <2>1, <2>5 DEF Held, Serial, Ledgers, RowsAsShown
    <3>2. \A t \in Tokens : Held(t)' /\ q.receipt = shown[t] => q.token = t
      BY <2>4, <3>1 DEF FreeFor, Held
    <3> QED
      BY <2>1, <2>3, <2>4, <3>1, <3>2 DEF Serial, Ledgers, DisplayedCodeKept
  <2>11. ScannedCodeDecides'
    BY <2>1, <2>3, <2>4 DEF Serial, Ledgers, ScannedCodeDecides
  <2>12. DepletedWithdrawn'
    <3>1. Len(sales') = Len(sales) + 1 /\ Len(sales) \in Nat
      BY <1>3, <2>2 DEF Serial, Typed, TypeOK
    <3> QED
      BY <1>3, <2>4, <3>1, ConstantsAssumption DEF Serial, Ledgers, DepletedWithdrawn
  <2> QED
    BY <1>1, <2>7, <2>8, <2>9, <2>10, <2>11, <2>12 DEF Ledgers
<1> QED
  BY <1>1, <1>2, <1>3 DEF Commit

\* Fewer reservations, and fewer of them that count.
LEMMA FewerReservations ==
  ASSUME Serial, intents' \subseteq intents, expired \subseteq expired',
         UNCHANGED <<sales, shown, offered>>
  PROVE  /\ Ledgers'
         /\ UNCHANGED req => ReadsHold'
<1>1. RowsAsShown' /\ CodesSpent'
  BY DEF Serial, Ledgers, RowsAsShown, CodesSpent
<1>2. DisplayedCodeKept'
  <2>1. \A t \in Tokens : Held(t)' => Held(t)
    BY DEF Held
  <2> QED
    BY <2>1 DEF Serial, Ledgers, DisplayedCodeKept
<1>3. ReceiptsUnique' /\ ScannedCodeDecides' /\ DepletedWithdrawn'
  BY DEF Serial, Ledgers, ReceiptsUnique, ScannedCodeDecides, DepletedWithdrawn
<1>4. ASSUME UNCHANGED req PROVE ReadsHold'
  BY <1>4 DEF Serial, ReadsHold, FreeFor
<1> QED
  BY <1>1, <1>2, <1>3, <1>4 DEF Ledgers

\* A new row takes a receipt no other row has, for a token nobody was shown.
LEMMA ReserveSerial ==
  ASSUME OneAtATime, Serial, NEW r \in Requests, NEW token \in Tokens, Reserve(r, token)
  PROVE  Ledgers' /\ ReadsHold'
<1> DEFINE q == req[r]
           rest == intents \ Released(q.receipt)
           row == [token |-> token, receipt |-> q.receipt, consumed |-> FALSE]
<1>1. /\ UNCHANGED <<sales, expired, offered>> /\ rest \subseteq intents
      /\ shown \in [Tokens -> Receipt \cup {NoReceipt}] /\ req[r] \in Request
      /\ q.receipt \in Receipt
  BY DEF Reserve, Serial, Typed, TypeOK, Progress
<1>2. ASSUME NEW status, NEW receipt, Answer(r, status, receipt)
      PROVE  ReadsHold'
  BY <1>2, AnsweredWritesNothing DEF Serial
<1>3. ASSUME req' = [req EXCEPT ![r].pc = "allocate"], UNCHANGED shown
      PROVE  ReadsHold'
  <2> DEFINE again == [q EXCEPT !.pc = "allocate"]
  <2>1. again.pc = "allocate" /\ again.token = q.token
    BY <1>1 DEF Request
  <2>2. req' = [req EXCEPT ![r] = again]
    BY <1>3
  <2> HIDE DEF again
  <2>3. q.token # NoToken => shown[q.token] # NoReceipt
    BY DEF Serial, ReadsHold
  <2> QED
    BY <1>3, <2>1, <2>2, <2>3, NothingToWrite DEF Serial
<1>4. ReadsHold'
  BY <1>2, <1>3 DEF Reserve, Refuse
<1>5. CASE intents' = rest /\ UNCHANGED shown
  BY <1>1, <1>4, <1>5, FewerReservations
<1>6. CASE /\ ~ \E i \in rest : i.receipt = q.receipt
           /\ shown[token] = NoReceipt
           /\ intents' = rest \cup {row}
           /\ shown' = [shown EXCEPT ![token] = q.receipt]
  <2>1. /\ row.token = token /\ row.receipt = q.receipt /\ q.receipt # NoReceipt
        /\ \A i \in DOMAIN sales : sales[i].receipt # q.receipt
    BY <1>1 DEF Reserve, Serial, ReadsHold, Receipt, NoReceipt
  <2>2. \A i \in rest : i.token \in Tokens /\ i.token # token /\ shown'[i.token] = shown[i.token]
    BY <1>1, <1>6 DEF Serial, Ledgers, RowsAsShown, Typed, TypeOK, Intent, Receipt, NoReceipt
  <2>3. \A t \in Tokens \ {token} : shown'[t] = shown[t]
    BY <1>1, <1>6
  <2>4. shown'[token] = q.receipt
    BY <1>1, <1>6
  <2>5. \A i \in DOMAIN sales : sales[i].token # token /\ sales[i].token \in Tokens \cup {NoToken}
    <3>1. \A i \in DOMAIN sales : sales[i] \in Basket
      BY DEF Serial, Typed, TypeOK
    <3>2. \A i \in DOMAIN sales : sales[i].token = token => shown[token] # NoReceipt
      BY ConstantsAssumption DEF Serial, Ledgers, CodesSpent
    <3> QED
      BY <1>6, <3>1, <3>2 DEF Basket
  <2>6. ~ (token = NoToken)
    BY ConstantsAssumption
  <2> HIDE DEF q, rest, row
  <2>7. RowsAsShown'
    <3>1. \A i \in rest : i.receipt = shown'[i.token]
      BY <1>1, <2>2 DEF Serial, Ledgers, RowsAsShown
    <3>2. \A i, j \in rest : i.token = j.token \/ i.receipt = j.receipt => i = j
      BY <1>1 DEF Serial, Ledgers, RowsAsShown
    <3>3. \A i \in rest : i.token # row.token /\ i.receipt # row.receipt
      BY <1>6, <2>1, <2>2
    <3> QED
      BY <1>6, <2>1, <2>4, <3>1, <3>2, <3>3 DEF RowsAsShown
  <2>8. CodesSpent'
    <3>1. \A i \in DOMAIN sales : sales[i].token # NoToken =>
            shown'[sales[i].token] = shown[sales[i].token]
      BY <2>3, <2>5
    <3>2. \A i \in DOMAIN sales : sales[i].token # NoToken =>
            \A x \in intents' : x.token = sales[i].token => x.consumed
      BY <1>1, <1>6, <2>1, <2>5 DEF Serial, Ledgers, CodesSpent
    <3> QED
      BY <1>1, <3>1, <3>2 DEF Serial, Ledgers, CodesSpent
  <2>9. DisplayedCodeKept'
    <3>1. \A t \in Tokens \ {token} : Held(t)' => Held(t)
      BY <1>1, <1>6, <2>1 DEF Held
    <3> QED
      BY <1>1, <2>1, <2>3, <2>4, <3>1 DEF Serial, Ledgers, DisplayedCodeKept
  <2>10. ScannedCodeDecides'
    BY <1>1, <2>3, <2>5 DEF Serial, Ledgers, ScannedCodeDecides
  <2>11. ReceiptsUnique' /\ DepletedWithdrawn'
    BY <1>1 DEF Serial, Ledgers, ReceiptsUnique, DepletedWithdrawn
  <2> QED
    BY <1>4, <2>7, <2>8, <2>9, <2>10, <2>11 DEF Ledgers
<1> QED
  BY <1>5, <1>6 DEF Reserve

LEMMA BackgroundSerial ==
  ASSUME Serial, Background
  PROVE  Ledgers' /\ ReadsHold'
<1>1. /\ intents' \subseteq intents /\ expired \subseteq expired'
      /\ UNCHANGED <<sales, shown, offered, req>>
  BY DEF Background, CancelIntent, Expire, PurgeExpired, Midnight
<1> QED
  BY <1>1, FewerReservations

LEMMA StepSerial ==
  ASSUME OneAtATime
  PROVE  Serial /\ [Next]_vars => Serial'
<1> SUFFICES ASSUME Serial, [Next]_vars PROVE Serial'
  OBVIOUS
<1>1. Typed'
  BY StepTyped DEF Serial
<1>2. ASSUME NEW r \in Requests, Receive(r) \/ Serve(r) \/ Finish(r)
      PROVE  Ledgers' /\ ReadsHold'
  <2>1. CASE Replay(r) \/ Fail(r) \/ Finish(r)
    BY <2>1, AsideSerial
  <2>2. CASE \E token \in Tokens : Reserve(r, token)
    BY <2>2, ReserveSerial
  <2> QED
    BY <1>2, <2>1, <2>2, ReceiveSerial, BeginSerial, CommitSerial, AllocateSerial DEF Serve
<1>3. ASSUME UNCHANGED vars
      PROVE  Ledgers' /\ ReadsHold'
  <2>1. UNCHANGED <<sales, intents, expired, shown, offered, req>>
    BY <1>3 DEF vars
  <2> QED
    BY <2>1, FewerReservations
<1>4. Ledgers' /\ ReadsHold'
  <2>1. CASE Next
    BY <1>2, <2>1, BackgroundSerial DEF Next
  <2> QED
    BY <1>3, <2>1
<1> QED
  BY <1>1, <1>4 DEF Serial

\* The numbers of a server that handles one request at a time: no two baskets
\* share one, whatever is reserved, cancelled or left to expire in between.
THEOREM SerialReceiptsUnique ==
  ASSUME OneAtATime
  PROVE  Spec => []ReceiptsUnique
<1>1. Serial /\ [Next]_vars => Serial'
  BY StepSerial
<1>2. Serial => ReceiptsUnique
  BY DEF Serial, Ledgers
<1> QED
  BY <1>1, <1>2, InitSerial, PTL DEF Spec

\* A displayed code that still holds its number never points at another sale.
THEOREM SerialCodesKept ==
  ASSUME OneAtATime
  PROVE  Spec => []DisplayedCodeKept
<1>1. Serial /\ [Next]_vars => Serial'
  BY StepSerial
<1>2. Serial => DisplayedCodeKept
  BY DEF Serial, Ledgers
<1> QED
  BY <1>1, <1>2, InitSerial, PTL DEF Spec

\* A basket booked on the day of its code has the number the customer scanned.
THEOREM SerialCodesDecide ==
  ASSUME OneAtATime
  PROVE  Spec => []ScannedCodeDecides
<1>1. Serial /\ [Next]_vars => Serial'
  BY StepSerial
<1>2. Serial => ScannedCodeDecides
  BY DEF Serial, Ledgers
<1> QED
  BY <1>1, <1>2, InitSerial, PTL DEF Spec

\* The sale of the last unit withdraws the variant.
THEOREM SerialWithdrawn ==
  ASSUME OneAtATime
  PROVE  Spec => []DepletedWithdrawn
<1>1. Serial /\ [Next]_vars => Serial'
  BY StepSerial
<1>2. Serial => DepletedWithdrawn
  BY DEF Serial, Ledgers
<1> QED
  BY <1>1, <1>2, InitSerial, PTL DEF Spec
=============================================================================
