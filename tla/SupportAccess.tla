--------------------------- MODULE SupportAccess ----------------------------
(***************************************************************************)
(* Support access to one band: a platform account asks, a band admin       *)
(* decides, the requester opens the window, either side revokes it, and it *)
(* lapses.  Nothing runs in a transaction: a handler reads the grant and   *)
(* later updates it by its id alone, and the sessions in another statement.*)
(***************************************************************************)
EXTENDS Integers, Sequences

CONSTANTS
  Requests,   \* slots for requests served at the same time
  Staff,      \* platform accounts, each with one session
  NoStaff,
  MaxGrants,  \* bound: requests for access
  Duration,   \* length of a window
  MaxTime     \* bound: the last moment

ASSUME SupportAssumption ==
  /\ NoStaff \notin Staff
  /\ MaxGrants \in Nat \ {0}
  /\ Duration \in Nat \ {0}
  /\ MaxTime \in Nat

VARIABLES
  grants,    \* table support_access_grants
  scope,     \* acting_grant_id of each account's session, 0 for NULL
  now,
  op,        \* the requests being served
  sweep,     \* the scheduler's pass over lapsed windows
  approved,  \* grants a band admin approved (observation)
  withdrawn  \* grants somebody revoked (observation)

vars == <<grants, scope, now, op, sweep, approved, withdrawn>>

Ids == 1..Len(grants)
Open == {"pending", "approved", "active"}
Statuses == Open \cup {"denied", "expired", "revoked"}
Grant(s) == [by |-> s, status |-> "pending", expires |-> 0, revoked |-> FALSE]

\* at is when Activate read the grant; late says that the grant had been revoked
\* when the request arrived.
Op(kind, s, g) == [kind |-> kind, by |-> s, grant |-> g, approve |-> FALSE, at |-> 0, late |-> FALSE]
NoOp == Op("none", NoStaff, 0)
Idle == [step |-> "idle", lapsed |-> {}]

\* Fault: IsLive looks at the status and the end of the window alone.
IsLiveByStatus(g) == grants[g].status = "active" /\ now < grants[g].expires

IsLive(g) == /\ grants[g].status = "active"
             /\ now < grants[g].expires
             /\ ~grants[g].revoked
\* Fault: ExpireLapsed passes over what was revoked, the way LiveGrantForBand does.
LapsedUnrevoked == {g \in Ids : grants[g].status = "active" /\ grants[g].expires <= now /\ ~grants[g].revoked}

Lapsed == {g \in Ids : grants[g].status = "active" /\ grants[g].expires <= now}

\* The sessions bound to one of the grants lose their scope.
Detached(gs) == [s \in Staff |-> IF scope[s] \in gs THEN 0 ELSE scope[s]]

Free(r) == op[r].kind = "none"
Start(r, o) == Free(r) /\ op' = [op EXCEPT ![r] = o]
Go(r, kind) == op' = [op EXCEPT ![r].kind = kind]
Answer(r) == op' = [op EXCEPT ![r] = NoOp]
SetStatus(g, status) == grants' = [grants EXCEPT ![g].status = status]

-----------------------------------------------------------------------------
Init ==
  /\ grants = <<>>
  /\ scope = [s \in Staff |-> 0]
  /\ now = 0
  /\ op = [r \in Requests |-> NoOp]
  /\ sweep = Idle
  /\ approved = {} /\ withdrawn = {}

\* RequestAccess: no open request is counted, and the new one is inserted.
CountOpen(r, s) ==
  /\ Len(grants) < MaxGrants
  /\ \A g \in Ids : grants[g].status \notin Open
  /\ Start(r, Op("insert", s, 0))
  /\ UNCHANGED <<grants, scope, now, sweep, approved, withdrawn>>

Insert(r) ==
  /\ op[r].kind = "insert"
  /\ Len(grants) < MaxGrants
  /\ grants' = Append(grants, Grant(op[r].by))
  /\ Answer(r)
  /\ UNCHANGED <<scope, now, sweep, approved, withdrawn>>

\* Decide, by an admin of the band.
ReadToDecide(r, g) ==
  /\ grants[g].status = "pending"
  /\ \E a \in BOOLEAN : Start(r, [Op("decide", NoStaff, g) EXCEPT !.approve = a])
  /\ UNCHANGED <<grants, scope, now, sweep, approved, withdrawn>>

Approve(r) ==
  /\ op[r].kind = "decide" /\ op[r].approve
  /\ SetStatus(op[r].grant, "approved")
  /\ approved' = approved \cup {op[r].grant}
  /\ Answer(r)
  /\ UNCHANGED <<scope, now, sweep, withdrawn>>

Deny(r) ==
  /\ op[r].kind = "decide" /\ ~op[r].approve
  /\ SetStatus(op[r].grant, "denied")
  /\ Answer(r)
  /\ UNCHANGED <<scope, now, sweep, approved, withdrawn>>

\* Fault: Activate checks the requester alone.
MayActivateOwn(s, g) == grants[g].by = s /\ grants[g].status \in Open

MayActivate(s, g) == grants[g].by = s /\ grants[g].status = "approved"

\* Activate, after the second factor.
ReadToActivate(r, s, g) ==
  /\ MayActivate(s, g)
  /\ now + Duration <= MaxTime
  /\ Start(r, [Op("activate", s, g) EXCEPT !.at = now])
  /\ UNCHANGED <<grants, scope, now, sweep, approved, withdrawn>>

\* The update; the window counts from a moment between the read and the update.
Activate(r) ==
  /\ op[r].kind = "activate"
  /\ \E t \in op[r].at..now :
       /\ t + Duration <= MaxTime
       /\ grants' = [grants EXCEPT ![op[r].grant].status = "active",
                                   ![op[r].grant].expires = t + Duration]
  /\ op' = [op EXCEPT ![r].kind = "bind", ![r].at = 0]
  /\ UNCHANGED <<scope, now, sweep, approved, withdrawn>>

\* ApplySupportScope, whatever became of the grant meanwhile.
Bind(r) ==
  /\ op[r].kind = "bind"
  /\ scope' = [scope EXCEPT ![op[r].by] = op[r].grant]
  /\ Answer(r)
  /\ UNCHANGED <<grants, now, sweep, approved, withdrawn>>

\* Revoke, by either side: the grant, then the sessions.
ReadToRevoke(r, g) ==
  /\ grants[g].status \in {"active", "approved"}
  /\ Start(r, Op("revoke", NoStaff, g))
  /\ UNCHANGED <<grants, scope, now, sweep, approved, withdrawn>>

Revoke(r) ==
  /\ op[r].kind = "revoke"
  /\ grants' = [grants EXCEPT ![op[r].grant].status = "revoked", ![op[r].grant].revoked = TRUE]
  /\ withdrawn' = withdrawn \cup {op[r].grant}
  /\ Go(r, "detach")
  /\ UNCHANGED <<scope, now, sweep, approved>>

Detach(r) ==
  /\ op[r].kind = "detach"
  /\ scope' = Detached({op[r].grant})
  /\ Answer(r)
  /\ UNCHANGED <<grants, now, sweep, approved, withdrawn>>

-----------------------------------------------------------------------------
\* A request for band data: LoadSession reads the session, then its grant.
ReadSession(r, s) ==
  /\ scope[s] # 0
  /\ Start(r, [Op("resolve", s, scope[s]) EXCEPT !.late = scope[s] \in withdrawn])
  /\ UNCHANGED <<grants, scope, now, sweep, approved, withdrawn>>

\* A live grant lets the request through to the band's data.
Admit(r) ==
  /\ op[r].kind = "resolve" /\ IsLive(op[r].grant)
  /\ Go(r, "serve")
  /\ UNCHANGED <<grants, scope, now, sweep, approved, withdrawn>>

Refuse(r) ==
  /\ op[r].kind = "resolve" /\ ~IsLive(op[r].grant)
  /\ Go(r, "clear")
  /\ UNCHANGED <<grants, scope, now, sweep, approved, withdrawn>>

\* ClearSupportScope, whatever the session is bound to meanwhile.
Clear(r) ==
  /\ op[r].kind = "clear"
  /\ scope' = [scope EXCEPT ![op[r].by] = 0]
  /\ Answer(r)
  /\ UNCHANGED <<grants, now, sweep, approved, withdrawn>>

\* The band's data is answered; or a request ends in an error.
Finish(r) ==
  /\ ~Free(r)
  /\ Answer(r)
  /\ UNCHANGED <<grants, scope, now, sweep, approved, withdrawn>>

-----------------------------------------------------------------------------
\* ExpireLapsed, from the scheduler's housekeeping.
ReadLapsed ==
  /\ sweep = Idle /\ Lapsed # {}
  /\ sweep' = [step |-> "mark", lapsed |-> Lapsed]
  /\ UNCHANGED <<grants, scope, now, op, approved, withdrawn>>

MarkExpired ==
  /\ sweep.step = "mark"
  /\ grants' = [g \in Ids |-> IF g \in sweep.lapsed THEN [grants[g] EXCEPT !.status = "expired"] ELSE grants[g]]
  /\ sweep' = [sweep EXCEPT !.step = "detach"]
  /\ UNCHANGED <<scope, now, op, approved, withdrawn>>

DetachLapsed ==
  /\ sweep.step = "detach"
  /\ scope' = Detached(sweep.lapsed)
  /\ sweep' = Idle
  /\ UNCHANGED <<grants, now, op, approved, withdrawn>>

SweepFails ==
  /\ sweep # Idle
  /\ sweep' = Idle
  /\ UNCHANGED <<grants, scope, now, op, approved, withdrawn>>

Tick ==
  /\ now < MaxTime
  /\ now' = now + 1
  /\ UNCHANGED <<grants, scope, op, sweep, approved, withdrawn>>

-----------------------------------------------------------------------------
Request(r) ==
  \/ \E s \in Staff : CountOpen(r, s) \/ ReadSession(r, s)
  \/ \E g \in Ids : ReadToDecide(r, g) \/ ReadToRevoke(r, g)
  \/ \E s \in Staff, g \in Ids : ReadToActivate(r, s, g)

Progress(r) ==
  \/ Insert(r) \/ Approve(r) \/ Deny(r)
  \/ Activate(r) \/ Bind(r) \/ Revoke(r) \/ Detach(r)
  \/ Admit(r) \/ Refuse(r) \/ Clear(r) \/ Finish(r)

Housekeeping == ReadLapsed \/ MarkExpired \/ DetachLapsed \/ SweepFails

Next == (\E r \in Requests : Request(r) \/ Progress(r)) \/ Housekeeping \/ Tick

Spec == Init /\ [][Next]_vars

\* Time passes, the scheduler keeps starting its pass, and not every pass fails.
Fairness == WF_vars(Tick) /\ WF_vars(ReadLapsed \/ DetachLapsed) /\ SF_vars(MarkExpired)

FairSpec == Spec /\ Fairness

-----------------------------------------------------------------------------
GrantRow == [by : Staff, status : Statuses, expires : 0..MaxTime, revoked : BOOLEAN]
Ops == [kind : {"none", "insert", "decide", "activate", "bind", "revoke", "detach", "resolve", "serve", "clear"},
        by : Staff \cup {NoStaff}, grant : 0..MaxGrants, approve : BOOLEAN,
        at : 0..MaxTime, late : BOOLEAN]

\* Every variable holds what its column or handler can hold.
TypeOK ==
  /\ grants \in Seq(GrantRow)
  /\ Len(grants) <= MaxGrants
  /\ scope \in [Staff -> 0..Len(grants)]
  /\ now \in 0..MaxTime
  /\ op \in [Requests -> Ops]
  /\ \A r \in Requests : op[r].grant <= Len(grants)
  /\ sweep \in [step : {"idle", "mark", "detach"}, lapsed : SUBSET Ids]
  /\ approved \subseteq Ids /\ withdrawn \subseteq Ids

\* A request that arrives after a revocation is never let through under the
\* revoked grant, although Activate, Decide and ExpireLapsed may overwrite its
\* status and ApplySupportScope may bind a session to it once more.
RevokedNotServed ==
  \A r \in Requests : op[r].kind = "serve" => ~op[r].late

\* A session acts under a grant its own account asked for and a band admin
\* approved, whatever order requests, decisions and activations come in.
ScopeByApproval ==
  \A s \in Staff : scope[s] # 0 => grants[scope[s]].by = s /\ scope[s] \in approved

\* Every window that was opened is closed: by its end or by a revocation, even
\* when a late Activate reopens what was already revoked or expired.
WindowCloses ==
  \A g \in 1..MaxGrants :
    (g \in Ids /\ grants[g].status = "active") ~> (g \in Ids /\ grants[g].status # "active")

=============================================================================
