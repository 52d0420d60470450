------------------------ MODULE SupportAccessProofs -------------------------
(***************************************************************************)
(* Theorems about SupportAccess, for any number of accounts, requests at a *)
(* time, grants and moments.                                               *)
(***************************************************************************)
EXTENDS SupportAccess, SequenceTheorems, TLAPS

\* What a handler read it keeps to: the grant exists, and so does the account.
Targeted ==
  \A r \in Requests :
    /\ op[r].kind \notin {"none", "insert"} => op[r].grant \in Ids
    /\ op[r].kind \in {"insert", "activate", "bind", "resolve", "serve", "clear"} => op[r].by \in Staff

Typed == TypeOK /\ Targeted

\* The column revoked_at outlives what happens to the status afterwards.
Revocation ==
  /\ \A g \in withdrawn : grants[g].revoked
  /\ \A r \in Requests :
       /\ op[r].kind = "resolve" /\ op[r].late => op[r].grant \in withdrawn
       /\ op[r].kind = "serve" => ~op[r].late

\* An approved grant was approved, and only its requester carries it on.
Approval ==
  /\ \A g \in Ids : grants[g].status = "approved" => g \in approved
  /\ \A r \in Requests : op[r].kind \in {"activate", "bind"} =>
       op[r].grant \in approved /\ op[r].by = grants[op[r].grant].by
  /\ ScopeByApproval

-----------------------------------------------------------------------------
(* The table of grants.                                                     *)

\* Updating one row keeps the others.
LEMMA RowUpdated ==
  ASSUME TypeOK, NEW g \in Ids, NEW row \in GrantRow,
         grants' = [grants EXCEPT ![g] = row]
  PROVE  /\ grants' \in Seq(GrantRow) /\ Len(grants') = Len(grants)
         /\ grants'[g] = row
         /\ \A i \in Ids \ {g} : grants'[i] = grants[i]
BY ExceptSeq DEF TypeOK, Ids

LEMMA RowsTyped ==
  ASSUME TypeOK, NEW g \in Ids
  PROVE  grants[g] \in GrantRow
BY ElementOfSeq DEF TypeOK, Ids

\* What no step does to the table: rows stay, with their requester and their
\* revocation; only a revocation revokes, and only an approval approves.
TableKept ==
  /\ grants' \in Seq(GrantRow)
  /\ Len(grants) <= Len(grants') /\ Len(grants') <= MaxGrants
  /\ \A g \in Ids : /\ grants'[g].by = grants[g].by
                    /\ grants[g].revoked => grants'[g].revoked
                    /\ grants'[g].status = "approved" => grants[g].status = "approved" \/ g \in approved'
  /\ \A g \in Ids' \ Ids : grants'[g].status = "pending"
  /\ approved \subseteq approved' /\ approved' \subseteq Ids'
  /\ withdrawn \subseteq withdrawn' /\ withdrawn' \subseteq Ids'
  /\ \A g \in withdrawn' \ withdrawn : grants'[g].revoked

LEMMA UntouchedTable ==
  ASSUME Typed, UNCHANGED <<grants, approved, withdrawn>>
  PROVE  TableKept
BY LenProperties DEF Typed, TypeOK, TableKept, Ids

LEMMA InsertTable ==
  ASSUME Typed, NEW r \in Requests, Insert(r)
  PROVE  TableKept
<1>1. Grant(op[r].by) \in GrantRow /\ Grant(op[r].by).status = "pending"
  BY SupportAssumption DEF Insert, Typed, Targeted, TypeOK, Grant, GrantRow, Statuses, Open
<1>2. /\ grants' \in Seq(GrantRow) /\ Len(grants') = Len(grants) + 1
      /\ \A i \in 1..Len(grants) : grants'[i] = grants[i]
      /\ grants'[Len(grants) + 1] = Grant(op[r].by)
  BY <1>1, AppendProperties DEF Insert, Typed, TypeOK
<1>3. Len(grants) \in Nat
  BY LenProperties DEF Typed, TypeOK
<1> QED
  BY <1>1, <1>2, <1>3, SupportAssumption DEF TableKept, Insert, Ids, Typed, TypeOK

\* The updates of one row by its id.
LEMMA UpdateTable ==
  ASSUME Typed, NEW r \in Requests,
         Approve(r) \/ Deny(r) \/ Activate(r) \/ Revoke(r)
  PROVE  TableKept
<1> DEFINE g == op[r].grant
<1>1. g \in Ids /\ grants[g] \in GrantRow
  BY RowsTyped DEF Typed, Targeted, Approve, Deny, Activate, Revoke
<1>2. Len(grants) \in Nat
  BY LenProperties DEF Typed, TypeOK
<1>3. ASSUME NEW row \in GrantRow, grants' = [grants EXCEPT ![g] = row],
             row.by = grants[g].by, grants[g].revoked => row.revoked,
             row.status = "approved" => g \in approved',
             approved' \subseteq approved \cup {g}, approved \subseteq approved',
             withdrawn' \subseteq withdrawn \cup {g}, withdrawn \subseteq withdrawn',
             g \in withdrawn' \ withdrawn => row.revoked
      PROVE  TableKept
  <2>1. /\ grants' \in Seq(GrantRow) /\ Len(grants') = Len(grants)
        /\ grants'[g] = row
        /\ \A i \in Ids \ {g} : grants'[i] = grants[i]
    BY <1>1, <1>3, RowUpdated DEF Typed
  <2>2. Ids' = Ids
    BY <2>1 DEF Ids
  <2>3. \A i \in Ids : /\ grants'[i].by = grants[i].by
                       /\ grants[i].revoked => grants'[i].revoked
                       /\ grants'[i].status = "approved" => grants[i].status = "approved" \/ i \in approved'
    BY <1>3, <2>1
  <2>4. approved' \subseteq Ids' /\ withdrawn' \subseteq Ids'
    BY <1>1, <1>3, <2>2 DEF Typed, TypeOK
  <2>5. \A i \in withdrawn' \ withdrawn : grants'[i].revoked
    BY <1>3, <2>1
  <2>6. Len(grants') <= MaxGrants /\ Len(grants) <= Len(grants')
    BY <1>2, <2>1 DEF Typed, TypeOK
  <2> QED
    BY <1>3, <2>1, <2>2, <2>3, <2>4, <2>5, <2>6 DEF TableKept
<1>4. CASE Approve(r)
  <2> DEFINE row == [grants[g] EXCEPT !.status = "approved"]
  <2>1. row \in GrantRow /\ row.by = grants[g].by /\ row.revoked = grants[g].revoked
    BY <1>1 DEF GrantRow, Statuses, Open
  <2>2. grants' = [grants EXCEPT ![g] = row]
    BY <1>4 DEF Approve, SetStatus
  <2> QED
    BY <1>3, <1>4, <2>1, <2>2 DEF Approve
<1>5. CASE Deny(r)
  <2> DEFINE row == [grants[g] EXCEPT !.status = "denied"]
  <2>1. /\ row \in GrantRow /\ row.by = grants[g].by /\ row.revoked = grants[g].revoked
        /\ row.status = "denied"
    BY <1>1 DEF GrantRow, Statuses, Open
  <2>2. grants' = [grants EXCEPT ![g] = row]
    BY <1>5 DEF Deny, SetStatus
  <2> QED
    BY <1>3, <1>5, <2>1, <2>2 DEF Deny
<1>6. CASE Revoke(r)
  <2> DEFINE row == [grants[g] EXCEPT !.status = "revoked", !.revoked = TRUE]
  <2>1. /\ row \in GrantRow /\ row.by = grants[g].by /\ row.revoked
        /\ row.status = "revoked"
    BY <1>1 DEF GrantRow, Statuses, Open
  <2>2. grants' = [grants EXCEPT ![g] = row]
    BY <1>6, <1>1 DEF Revoke
  <2> QED
    BY <1>3, <1>6, <2>1, <2>2 DEF Revoke
<1>7. CASE Activate(r)
  <2>1. PICK t \in op[r].at..now :
          /\ t + Duration <= MaxTime
          /\ grants' = [grants EXCEPT ![g].status = "active", ![g].expires = t + Duration]
    BY <1>7 DEF Activate
  <2> DEFINE row == [grants[g] EXCEPT !.status = "active", !.expires = t + Duration]
  <2>2. op[r].at \in 0..MaxTime
    BY DEF Typed, TypeOK, Ops
  <2>3. t + Duration \in 0..MaxTime
    BY <2>1, <2>2, SupportAssumption
  <2>4. /\ row \in GrantRow /\ row.by = grants[g].by /\ row.revoked = grants[g].revoked
        /\ row.status = "active"
    BY <1>1, <2>3 DEF GrantRow, Statuses, Open
  <2>5. grants' = [grants EXCEPT ![g] = row]
    BY <2>1, <1>1
  <2> QED
    BY <1>3, <1>7, <2>4, <2>5 DEF Activate
<1> QED
  BY <1>4, <1>5, <1>6, <1>7

LEMMA MarkTable ==
  ASSUME Typed, MarkExpired
  PROVE  TableKept
<1>1. Len(grants) \in Nat
  BY LenProperties DEF Typed, TypeOK
<1>2. \A g \in Ids : /\ grants'[g] \in GrantRow
                     /\ grants'[g].by = grants[g].by /\ grants'[g].revoked = grants[g].revoked
                     /\ grants'[g].status \in {"expired", grants[g].status}
  <2> SUFFICES ASSUME NEW g \in Ids
               PROVE  /\ grants'[g] \in GrantRow
                      /\ grants'[g].by = grants[g].by /\ grants'[g].revoked = grants[g].revoked
                      /\ grants'[g].status \in {"expired", grants[g].status}
    OBVIOUS
  <2>1. grants[g] \in GrantRow
    BY RowsTyped DEF Typed
  <2>2. grants'[g] = IF g \in sweep.lapsed THEN [grants[g] EXCEPT !.status = "expired"] ELSE grants[g]
    BY DEF MarkExpired
  <2> QED
    BY <2>1, <2>2 DEF GrantRow, Statuses
<1>3. grants' \in [1..Len(grants) -> GrantRow]
  BY <1>2 DEF MarkExpired, Ids
<1>4. grants' \in Seq(GrantRow)
  BY <1>1, <1>3, SeqDef
<1>5. Len(grants') = Len(grants)
  BY <1>1, <1>3, <1>4, LenProperties
<1> QED
  BY <1>1, <1>2, <1>4, <1>5 DEF TableKept, Ids, MarkExpired, Typed, TypeOK

\* The steps that change the table.
Writes(r) == Insert(r) \/ Approve(r) \/ Deny(r) \/ Activate(r) \/ Revoke(r)

LEMMA StepTable ==
  ASSUME Typed, [Next]_vars
  PROVE  TableKept
<1>1. CASE UNCHANGED <<grants, approved, withdrawn>>
  BY <1>1, UntouchedTable
<1>2. ASSUME NEW r \in Requests, Writes(r) PROVE TableKept
  BY <1>2, InsertTable, UpdateTable DEF Writes
<1>3. CASE MarkExpired
  BY <1>3, MarkTable
<1>4. \/ UNCHANGED <<grants, approved, withdrawn>> \/ MarkExpired
      \/ \E r \in Requests : Writes(r)
  BY DEF Next, vars, Request, Progress, Housekeeping, Writes, CountOpen, ReadSession,
         ReadToDecide, ReadToRevoke, ReadToActivate, Bind, Detach, Admit, Refuse, Clear,
         Finish, ReadLapsed, DetachLapsed, SweepFails, Tick
<1> QED
  BY <1>1, <1>2, <1>3, <1>4

-----------------------------------------------------------------------------
(* Types.                                                                   *)

\* A value a slot may hold.
Fits(o) ==
  /\ o \in Ops
  /\ o.grant <= Len(grants)
  /\ o.kind \notin {"none", "insert"} => o.grant \in Ids
  /\ o.kind \in {"insert", "activate", "bind", "resolve", "serve", "clear"} => o.by \in Staff

OpsFit == op \in [Requests -> Ops] /\ \A r \in Requests : Fits(op[r])

LEMMA TypedOps ==
  TypeOK /\ Targeted => OpsFit
BY DEF TypeOK, Targeted, OpsFit, Fits

\* The table only grows, so what fitted fits.
LEMMA StillFits ==
  ASSUME Typed, TableKept, NEW o, Fits(o)
  PROVE  /\ o \in Ops /\ o.grant <= Len(grants')
         /\ o.kind \notin {"none", "insert"} => o.grant \in Ids'
<1>1. Len(grants) \in Nat /\ Len(grants') \in Nat
  BY LenProperties DEF Typed, TypeOK, TableKept
<1>2. o.grant \in 0..MaxGrants
  BY DEF Fits, Ops
<1> QED
  BY <1>1, <1>2, SupportAssumption DEF Fits, TableKept, Ids

LEMMA SlotSet ==
  ASSUME Typed, TableKept, NEW r \in Requests, NEW o, Fits(o),
         op' = [op EXCEPT ![r] = o]
  PROVE  OpsFit'
<1>1. OpsFit
  BY TypedOps DEF Typed
<1>2. \A q \in Requests : Fits(op'[q])
  BY <1>1 DEF OpsFit
<1>3. op' \in [Requests -> Ops]
  BY <1>1 DEF OpsFit, Fits
<1>4. \A q \in Requests : /\ op'[q] \in Ops /\ op'[q].grant <= Len(grants')
                          /\ op'[q].kind \notin {"none", "insert"} => op'[q].grant \in Ids'
  BY <1>2, StillFits
<1> QED
  BY <1>2, <1>3, <1>4 DEF OpsFit, Fits

LEMMA SlotsKept ==
  ASSUME Typed, TableKept, op' = op
  PROVE  OpsFit'
<1>1. OpsFit
  BY TypedOps DEF Typed
<1>4. \A q \in Requests : /\ op[q] \in Ops /\ op[q].grant <= Len(grants')
                          /\ op[q].kind \notin {"none", "insert"} => op[q].grant \in Ids'
  BY <1>1, StillFits DEF OpsFit
<1> QED
  BY <1>1, <1>4 DEF OpsFit, Fits

LEMMA StepOps ==
  ASSUME Typed, TableKept, [Next]_vars
  PROVE  OpsFit'
<1>0. OpsFit /\ Len(grants) \in Nat
  BY TypedOps, LenProperties DEF Typed, TypeOK
<1>n. Fits(NoOp)
  BY <1>0, SupportAssumption DEF Fits, NoOp, Op, Ops
<1>g. Ids \subseteq 0..MaxGrants /\ 0 \in 0..MaxGrants /\ 0 \in 0..MaxTime /\ now \in 0..MaxTime
  BY <1>0, SupportAssumption DEF Ids, Typed, TypeOK
<1>h. \A g \in Ids : g <= Len(grants)
  BY <1>0 DEF Ids
<1>1. CASE op' = op
  BY <1>1, SlotsKept
<1>2. ASSUME NEW r \in Requests, op' = [op EXCEPT ![r] = NoOp]
      PROVE  OpsFit'
  BY <1>2, <1>n, SlotSet
<1>3. ASSUME NEW r \in Requests, NEW s \in Staff, CountOpen(r, s)
      PROVE  OpsFit'
  <2>1. Fits(Op("insert", s, 0))
    BY <1>0, SupportAssumption DEF Fits, Op, NoOp, Ops
  <2> QED
    BY <1>3, <2>1, SlotSet DEF CountOpen, Start
<1>4. ASSUME NEW r \in Requests, NEW s \in Staff, ReadSession(r, s)
      PROVE  OpsFit'
  <2>1. scope[s] \in Ids
    BY <1>0, <1>4 DEF ReadSession, Typed, TypeOK, Ids
  <2>2. \A late \in BOOLEAN : Fits([Op("resolve", s, scope[s]) EXCEPT !.late = late])
    BY <1>g, <1>h, <2>1 DEF Fits, Op, Ops
  <2>3. (scope[s] \in withdrawn) \in BOOLEAN
    OBVIOUS
  <2> QED
    BY <1>4, <2>2, <2>3, SlotSet DEF ReadSession, Start
<1>5. ASSUME NEW r \in Requests, NEW g \in Ids, ReadToDecide(r, g)
      PROVE  OpsFit'
  <2>1. PICK a \in BOOLEAN : op' = [op EXCEPT ![r] = [Op("decide", NoStaff, g) EXCEPT !.approve = a]]
    BY <1>5 DEF ReadToDecide, Start
  <2>2. Fits([Op("decide", NoStaff, g) EXCEPT !.approve = a])
    BY <1>g, <1>h DEF Fits, Op, Ops
  <2> QED
    BY <2>1, <2>2, SlotSet
<1>6. ASSUME NEW r \in Requests, NEW g \in Ids, ReadToRevoke(r, g)
      PROVE  OpsFit'
  <2>1. Fits(Op("revoke", NoStaff, g))
    BY <1>g, <1>h DEF Fits, Op, Ops
  <2> QED
    BY <1>6, <2>1, SlotSet DEF ReadToRevoke, Start
<1>7. ASSUME NEW r \in Requests, NEW s \in Staff, NEW g \in Ids, ReadToActivate(r, s, g)
      PROVE  OpsFit'
  <2>1. Fits([Op("activate", s, g) EXCEPT !.at = now])
    BY <1>g, <1>h DEF Fits, Op, Ops
  <2> QED
    BY <1>7, <2>1, SlotSet DEF ReadToActivate, Start
<1>8. ASSUME NEW r \in Requests, Activate(r)
      PROVE  OpsFit'
  <2>1. Fits([op[r] EXCEPT !.kind = "bind", !.at = 0])
    <3>1. op[r] \in Ops /\ op[r].kind = "activate" /\ Fits(op[r])
      BY <1>0, <1>8 DEF OpsFit, Fits, Activate
    <3> QED
      BY <1>g, <3>1 DEF Fits, Ops
  <2>2. op' = [op EXCEPT ![r] = [op[r] EXCEPT !.kind = "bind", !.at = 0]]
    BY <1>0, <1>8 DEF Activate, OpsFit
  <2> QED
    BY <2>1, <2>2, SlotSet
<1>9. ASSUME NEW r \in Requests, Revoke(r) \/ Admit(r) \/ Refuse(r)
      PROVE  OpsFit'
  <2>1. PICK kind \in {"detach", "serve", "clear"} :
          op' = [op EXCEPT ![r] = [op[r] EXCEPT !.kind = kind]] /\ (kind # "detach" => op[r].kind = "resolve")
    BY <1>0, <1>9 DEF Revoke, Admit, Refuse, Go, OpsFit
  <2>2. Fits([op[r] EXCEPT !.kind = kind])
    BY <1>0, <1>9, <2>1 DEF OpsFit, Fits, Ops, Revoke, Admit, Refuse
  <2> QED
    BY <2>1, <2>2, SlotSet
<1>10. ASSUME NEW r \in Requests, Request(r)
       PROVE  OpsFit'
  BY <1>3, <1>4, <1>5, <1>6, <1>7, <1>10 DEF Request
<1>11. ASSUME NEW r \in Requests, Progress(r)
       PROVE  OpsFit'
  <2>1. \/ op' = [op EXCEPT ![r] = NoOp]
        \/ Activate(r) \/ Revoke(r) \/ Admit(r) \/ Refuse(r)
    BY <1>11 DEF Progress, Insert, Approve, Deny, Bind, Detach, Clear, Finish, Answer
  <2> QED
    BY <1>2, <1>8, <1>9, <2>1
<1> QED
  BY <1>1, <1>10, <1>11 DEF Next, vars, Housekeeping, ReadLapsed, MarkExpired, DetachLapsed,
                            SweepFails, Tick

\* The sessions point at grants that exist.
LEMMA StepScope ==
  ASSUME Typed, TableKept, [Next]_vars
  PROVE  scope' \in [Staff -> 0..Len(grants')]
<1>0. /\ scope \in [Staff -> 0..Len(grants)] /\ Len(grants) \in Nat
      /\ Len(grants') \in Nat /\ Len(grants) <= Len(grants')
  BY LenProperties DEF Typed, TypeOK, TableKept
<1>1. CASE scope' = scope
  BY <1>0, <1>1
<1>2. ASSUME NEW gs, scope' = Detached(gs)
      PROVE  scope' \in [Staff -> 0..Len(grants')]
  BY <1>0, <1>2 DEF Detached
<1>3. ASSUME NEW r \in Requests, Bind(r) \/ Clear(r)
      PROVE  scope' \in [Staff -> 0..Len(grants')]
  <2>1. op[r].by \in Staff /\ op[r].grant \in Ids
    BY <1>3 DEF Typed, Targeted, Bind, Clear
  <2> QED
    BY <1>0, <1>3, <2>1 DEF Bind, Clear, Ids
<1>4. \/ scope' = scope
      \/ \E gs \in {sweep.lapsed} \cup {{op[r].grant} : r \in Requests} : scope' = Detached(gs)
      \/ \E r \in Requests : Bind(r) \/ Clear(r)
  BY DEF Next, vars, Request, Progress, Housekeeping, CountOpen, ReadSession, Insert, Approve,
         Deny, Activate, Revoke, ReadToDecide, ReadToRevoke, ReadToActivate, Detach, Admit,
         Refuse, Finish, ReadLapsed, MarkExpired, DetachLapsed, SweepFails, Tick
<1> QED
  BY <1>1, <1>2, <1>3, <1>4

LEMMA StepClock ==
  ASSUME Typed, TableKept, [Next]_vars
  PROVE  /\ now' \in 0..MaxTime
         /\ sweep' \in [step : {"idle", "mark", "detach"}, lapsed : SUBSET Ids']
<1>0. /\ now \in 0..MaxTime
      /\ sweep \in [step : {"idle", "mark", "detach"}, lapsed : SUBSET Ids]
      /\ Ids \subseteq Ids'
  BY LenProperties DEF Typed, TypeOK, TableKept, Ids
<1>1. now' = now \/ Tick
  BY DEF Next, vars, Request, Progress, Housekeeping, CountOpen, ReadSession, Insert, Approve,
         Deny, Activate, Revoke, Bind, ReadToDecide, ReadToRevoke, ReadToActivate, Detach, Admit,
         Refuse, Clear, Finish, ReadLapsed, MarkExpired, DetachLapsed, SweepFails
<1>2. now' \in 0..MaxTime
  BY <1>0, <1>1, SupportAssumption DEF Tick
<1>3. sweep' = sweep \/ Housekeeping
  BY DEF Next, vars, Request, Progress, CountOpen, ReadSession, Insert, Approve,
         Deny, Activate, Revoke, Bind, ReadToDecide, ReadToRevoke, ReadToActivate, Detach, Admit,
         Refuse, Clear, Finish, Tick
<1>4. sweep' \in [step : {"idle", "mark", "detach"}, lapsed : SUBSET Ids']
  BY <1>0, <1>3 DEF Housekeeping, ReadLapsed, MarkExpired, DetachLapsed, SweepFails, Idle, Lapsed
<1> QED
  BY <1>2, <1>4

LEMMA InitTyped ==
  Init => Typed
<1> SUFFICES ASSUME Init PROVE Typed
  OBVIOUS
<1>1. grants \in Seq(GrantRow) /\ Len(grants) = 0
  BY EmptySeq DEF Init
<1>2. NoOp \in Ops /\ NoOp.grant = 0 /\ NoOp.kind = "none"
  BY SupportAssumption DEF NoOp, Op, Ops
<1> QED
  BY <1>1, <1>2, SupportAssumption DEF Init, Typed, TypeOK, Targeted, Idle, Ids

LEMMA StepTyped ==
  Typed /\ [Next]_vars => Typed'
<1> SUFFICES ASSUME Typed, [Next]_vars PROVE Typed'
  OBVIOUS
<1>1. TableKept
  BY StepTable
<1> QED
  BY <1>1, StepOps, StepScope, StepClock DEF Typed, TypeOK, Targeted, OpsFit, Fits, TableKept

\* Every variable keeps its type, for every number of accounts, requests and grants.
THEOREM TypeCorrect == Spec => []TypeOK
<1>1. Typed => TypeOK
  BY DEF Typed
<1> QED
  BY <1>1, InitTyped, StepTyped, PTL DEF Spec

-----------------------------------------------------------------------------
(* Revocation.                                                              *)

\* How a request arrives in its slot.
LEMMA Arrivals ==
  ASSUME Typed, NEW r \in Requests, Request(r)
  PROVE  \/ op'[r].kind \in {"insert", "decide", "revoke"}
         \/ op'[r].kind = "resolve" /\ \E s \in Staff : ReadSession(r, s)
         \/ op'[r].kind = "activate" /\ \E s \in Staff, g \in Ids : ReadToActivate(r, s, g)
<1>0. op \in [Requests -> Ops]
  BY DEF Typed, TypeOK
<1>1. ASSUME NEW s \in Staff, CountOpen(r, s) PROVE op'[r].kind = "insert"
  BY <1>0, <1>1 DEF CountOpen, Start, Op
<1>2. ASSUME NEW s \in Staff, ReadSession(r, s) PROVE op'[r].kind = "resolve"
  BY <1>0, <1>2 DEF ReadSession, Start, Op
<1>3. ASSUME NEW g \in Ids, ReadToDecide(r, g) PROVE op'[r].kind = "decide"
  <2>1. PICK a \in BOOLEAN : op' = [op EXCEPT ![r] = [Op("decide", NoStaff, g) EXCEPT !.approve = a]]
    BY <1>3 DEF ReadToDecide, Start
  <2> QED
    BY <1>0, <2>1 DEF Op
<1>4. ASSUME NEW g \in Ids, ReadToRevoke(r, g) PROVE op'[r].kind = "revoke"
  BY <1>0, <1>4 DEF ReadToRevoke, Start, Op
<1>5. ASSUME NEW s \in Staff, NEW g \in Ids, ReadToActivate(r, s, g) PROVE op'[r].kind = "activate"
  BY <1>0, <1>5 DEF ReadToActivate, Start, Op
<1> QED
  BY <1>1, <1>2, <1>3, <1>4, <1>5 DEF Request

\* A slot comes to resolve or serve a request in two ways only.
LEMMA ResolvingSlots ==
  ASSUME Typed, [Next]_vars, NEW q \in Requests
  PROVE  \/ op'[q] = op[q]
         \/ op'[q].kind \notin {"resolve", "serve"}
         \/ \E s \in Staff : ReadSession(q, s)
         \/ Admit(q)
<1>0. op \in [Requests -> Ops]
  BY DEF Typed, TypeOK
<1>1. CASE op' = op
  BY <1>1
<1>2. ASSUME NEW r \in Requests, Request(r), r = q
      PROVE  op'[q].kind \notin {"resolve", "serve"} \/ \E s \in Staff : ReadSession(q, s)
  BY <1>2, Arrivals
<1>3. ASSUME NEW r \in Requests, Progress(r), r = q
      PROVE  op'[q].kind \notin {"resolve", "serve"} \/ Admit(q)
  BY <1>0, <1>3 DEF Progress, Insert, Approve, Deny, Activate, Bind, Revoke, Detach, Refuse,
                    Clear, Finish, Answer, Go, NoOp, Op, Ops
<1>4. ASSUME NEW r \in Requests, Request(r) \/ Progress(r), r # q
      PROVE  op'[q] = op[q]
  BY <1>0, <1>4 DEF Request, CountOpen, ReadSession, ReadToDecide, ReadToRevoke, ReadToActivate,
                    Start, Progress, Insert, Approve, Deny, Activate, Bind, Revoke, Detach, Admit,
                    Refuse, Clear, Finish, Answer, Go
<1> QED
  BY <1>1, <1>2, <1>3, <1>4 DEF Next, vars, Housekeeping, ReadLapsed, MarkExpired, DetachLapsed,
                                SweepFails, Tick

LEMMA StepRevocation ==
  Typed /\ Revocation /\ [Next]_vars => Revocation'
<1> SUFFICES ASSUME Typed, Revocation, [Next]_vars PROVE Revocation'
  OBVIOUS
<1>0. TableKept /\ op \in [Requests -> Ops]
  BY StepTable DEF Typed, TypeOK
<1>1. \A g \in withdrawn' : grants'[g].revoked
  BY <1>0 DEF Revocation, TableKept, Typed, TypeOK
<1>2. ASSUME NEW q \in Requests
      PROVE  /\ op'[q].kind = "resolve" /\ op'[q].late => op'[q].grant \in withdrawn'
             /\ op'[q].kind = "serve" => ~op'[q].late
  <2>1. CASE op'[q] = op[q]
    BY <1>0, <2>1 DEF Revocation, TableKept
  <2>2. ASSUME NEW s \in Staff, ReadSession(q, s)
        PROVE  op'[q].kind = "resolve" /\ (op'[q].late => op'[q].grant \in withdrawn')
    BY <1>0, <2>2 DEF ReadSession, Start, Op
  <2>3. CASE Admit(q)
    <3>1. ~op[q].late
      BY <2>3 DEF Admit, IsLive, Revocation
    <3>2. op'[q] = [op[q] EXCEPT !.kind = "serve"]
      BY <1>0, <2>3 DEF Admit, Go
    <3> QED
      BY <1>0, <3>1, <3>2 DEF Ops
  <2> QED
    BY <2>1, <2>2, <2>3, ResolvingSlots
<1> QED
  BY <1>1, <1>2 DEF Revocation

\* Whatever overwrites its status, a revoked grant lets no later request through.
THEOREM RevocationIsFinal == Spec => []RevokedNotServed
<1>1. Init => Revocation
  BY DEF Init, Revocation, NoOp, Op
<1>2. Revocation => RevokedNotServed
  BY DEF Revocation, RevokedNotServed
<1> QED
  BY <1>1, <1>2, InitTyped, StepTyped, StepRevocation, PTL DEF Spec

-----------------------------------------------------------------------------
(* Approval.                                                                *)

LEMMA ActivatingSlots ==
  ASSUME Typed, [Next]_vars, NEW q \in Requests
  PROVE  \/ op'[q] = op[q]
         \/ op'[q].kind \notin {"activate", "bind"}
         \/ \E s \in Staff, g \in Ids : ReadToActivate(q, s, g)
         \/ Activate(q)
<1>0. op \in [Requests -> Ops]
  BY DEF Typed, TypeOK
<1>1. CASE op' = op
  BY <1>1
<1>2. ASSUME NEW r \in Requests, Request(r), r = q
      PROVE  \/ op'[q].kind \notin {"activate", "bind"}
             \/ \E s \in Staff, g \in Ids : ReadToActivate(q, s, g)
  BY <1>2, Arrivals
<1>3. ASSUME NEW r \in Requests, Progress(r), r = q
      PROVE  op'[q].kind \notin {"activate", "bind"} \/ Activate(q)
  BY <1>0, <1>3 DEF Progress, Insert, Approve, Deny, Admit, Bind, Revoke, Detach, Refuse,
                    Clear, Finish, Answer, Go, NoOp, Op, Ops
<1>4. ASSUME NEW r \in Requests, Request(r) \/ Progress(r), r # q
      PROVE  op'[q] = op[q]
  BY <1>0, <1>4 DEF Request, CountOpen, ReadSession, ReadToDecide, ReadToRevoke, ReadToActivate,
                    Start, Progress, Insert, Approve, Deny, Activate, Bind, Revoke, Detach, Admit,
                    Refuse, Clear, Finish, Answer, Go
<1> QED
  BY <1>1, <1>2, <1>3, <1>4 DEF Next, vars, Housekeeping, ReadLapsed, MarkExpired, DetachLapsed,
                                SweepFails, Tick

\* The scope of a session changes by Bind, and is otherwise kept or dropped.
LEMMA BoundSessions ==
  ASSUME Typed, [Next]_vars, NEW s \in Staff
  PROVE  \/ scope'[s] \in {0, scope[s]}
         \/ \E r \in Requests : Bind(r) /\ op[r].by = s /\ scope'[s] = op[r].grant
<1>0. scope \in [Staff -> 0..Len(grants)]
  BY DEF Typed, TypeOK
<1>1. CASE scope' = scope
  BY <1>1
<1>2. ASSUME NEW gs, scope' = Detached(gs)
      PROVE  scope'[s] \in {0, scope[s]}
  BY <1>0, <1>2 DEF Detached
<1>3. ASSUME NEW r \in Requests, Bind(r) \/ Clear(r)
      PROVE  \/ scope'[s] \in {0, scope[s]}
             \/ Bind(r) /\ op[r].by = s /\ scope'[s] = op[r].grant
  BY <1>0, <1>3 DEF Bind, Clear
<1>4. \/ scope' = scope
      \/ \E gs \in {sweep.lapsed} \cup {{op[r].grant} : r \in Requests} : scope' = Detached(gs)
      \/ \E r \in Requests : Bind(r) \/ Clear(r)
  BY DEF Next, vars, Request, Progress, Housekeeping, CountOpen, ReadSession, Insert, Approve,
         Deny, Activate, Revoke, ReadToDecide, ReadToRevoke, ReadToActivate, Detach, Admit,
         Refuse, Finish, ReadLapsed, MarkExpired, DetachLapsed, SweepFails, Tick
<1> QED
  BY <1>1, <1>2, <1>3, <1>4

LEMMA StepApproval ==
  Typed /\ Approval /\ [Next]_vars => Approval'
<1> SUFFICES ASSUME Typed, Approval, [Next]_vars PROVE Approval'
  OBVIOUS
<1>0. TableKept /\ op \in [Requests -> Ops] /\ approved \subseteq Ids
  BY StepTable DEF Typed, TypeOK
<1>1. \A g \in Ids' : grants'[g].status = "approved" => g \in approved'
  BY <1>0 DEF Approval, TableKept
<1>2. ASSUME NEW q \in Requests, op'[q].kind \in {"activate", "bind"}
      PROVE  op'[q].grant \in approved' /\ op'[q].by = grants'[op'[q].grant].by
  <2>1. CASE op'[q] = op[q]
    BY <1>0, <1>2, <2>1 DEF Approval, TableKept
  <2>2. ASSUME NEW s \in Staff, NEW g \in Ids, ReadToActivate(q, s, g)
        PROVE  op'[q].grant = g /\ op'[q].by = s /\ g \in approved /\ grants[g].by = s
    BY <1>0, <2>2 DEF ReadToActivate, MayActivate, Start, Op, Approval
  <2>3. CASE Activate(q)
    <3>1. op'[q] = [op[q] EXCEPT !.kind = "bind", !.at = 0]
      BY <1>0, <2>3 DEF Activate
    <3>2. op'[q].grant = op[q].grant /\ op'[q].by = op[q].by
      BY <1>0, <3>1 DEF Ops
    <3> QED
      BY <1>0, <2>3, <3>2 DEF Activate, Approval, TableKept
  <2>4. ASSUME NEW s \in Staff, NEW g \in Ids, ReadToActivate(q, s, g)
        PROVE  op'[q].grant \in approved' /\ op'[q].by = grants'[op'[q].grant].by
    BY <1>0, <2>2, <2>4 DEF TableKept
  <2> QED
    BY <1>2, <2>1, <2>3, <2>4, ActivatingSlots
<1>3. ASSUME NEW s \in Staff, scope'[s] # 0
      PROVE  grants'[scope'[s]].by = s /\ scope'[s] \in approved'
  <2>1. grants[scope'[s]].by = s /\ scope'[s] \in approved
    BY <1>3, BoundSessions DEF Approval, ScopeByApproval, Bind
  <2> QED
    BY <1>0, <2>1 DEF TableKept
<1> QED
  BY <1>1, <1>2, <1>3 DEF Approval, ScopeByApproval

\* A session only ever acts under an approved grant of its own account.
THEOREM ScopeIsApproved == Spec => []ScopeByApproval
<1>1. Init => Approval
  BY DEF Init, Approval, ScopeByApproval, Ids, NoOp, Op
<1>2. Approval => ScopeByApproval
  BY DEF Approval
<1> QED
  BY <1>1, <1>2, InitTyped, StepTyped, StepApproval, PTL DEF Spec
=============================================================================
