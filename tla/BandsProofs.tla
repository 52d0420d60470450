----------------------------- MODULE BandsProofs -----------------------------
(***************************************************************************)
(* Theorems about what becomes of a band: Accounts, for any number of      *)
(* accounts, sign-ins and changes at a time and any quota; Registration,   *)
(* for any number of requests, calls at a time and login names; Purchases  *)
(* over Catalogue, for any options, any grid and any ledgers.              *)
(***************************************************************************)
EXTENDS Accounts, Registration, Purchases, FiniteSetTheorems, SequenceTheorems, TLAPS

-----------------------------------------------------------------------------
(* Accounts.                                                                *)

Row == [state : {"none", "there", "gone"}, active : BOOLEAN, admin : BOOLEAN, setup : BOOLEAN,
        mfa : BOOLEAN, version : Nat, changes : Nat]
Kinds == Guarded \cup {"password", "mfa", "setup", "create", "none"}
Change ==
  [kind : Kinds, step : {"idle", "count", "write", "revoke", "erase", "open"},
   who : People, row : Row, to : BOOLEAN]

AccountsTyped ==
  /\ users \in [People -> Row]
  /\ band \in [active : BOOLEAN, call : {"idle", "raise", "wipe"}]
  /\ sessions \subseteq [who : People, version : Nat, seen : Nat]
  /\ pendingAuth \subseteq People \X {"setup", "mfa"}
  /\ login \in [Logins -> [step : {"idle", "band", "consume", "open"}, who : People, row : Row]]
  /\ change \in [AccountChanges -> Change]

\* The version of a row is the number of changes that signed out, and a row that
\* is not there lets nobody in.
Versions ==
  \A p \in People :
    /\ There(p) => users[p].version = users[p].changes
    /\ ~There(p) => ~users[p].active /\ ~users[p].mfa

\* What a sign-in or a session took over from a row was true of it then.
Copies ==
  /\ \A s \in sessions : s.version = s.seen
  /\ \A l \in Logins : login[l].step # "idle" => login[l].row.version = login[l].row.changes

\* One change of an account at a time where it is made or a whole row is written back.
Overlaps ==
  \A c, d \in AccountChanges :
    c # d /\ change[c].step # "idle" /\ change[d].step # "idle" /\ change[c].who = change[d].who
      => change[c].kind \notin SavedWhole \cup {"create"}

\* What a change holds of its account.
Held(c) ==
  /\ change[c].step = "idle" <=> change[c].kind = "none"
  /\ change[c].kind = "create" => change[c].step = "write" /\ users[change[c].who].state = "none"
  /\ change[c].kind \notin {"create", "none"} => users[change[c].who].state # "none"
  /\ change[c].kind = "delete" => change[c].step \in {"count", "revoke", "erase"}
  /\ change[c].step = "open" => change[c].kind = "setup"
  /\ change[c].kind \in SavedWhole => band.call # "raise" /\ change[c].step # "count"
  /\ change[c].kind \in SavedWhole /\ change[c].step = "write" /\ There(change[c].who) =>
       change[c].row.state = "there" /\ change[c].row.version = users[change[c].who].changes
  /\ change[c].kind = "setup" /\ change[c].step \in {"revoke", "open"} =>
       change[c].row.version = change[c].row.changes

AccountsInductive == AccountsTyped /\ Versions /\ Copies /\ Overlaps /\ \A c \in AccountChanges : Held(c)

-----------------------------------------------------------------------------
(* Signing in.                                                              *)

\* A step that leaves the accounts, the band and the changes alone keeps all that
\* is said of them.
LEMMA ChangesUntouched ==
  ASSUME AccountsInductive, UNCHANGED <<users, band, change>>
  PROVE  Versions' /\ Overlaps' /\ \A c \in AccountChanges : Held(c)'
BY DEF AccountsInductive, Versions, Overlaps, Held, There, SavedWhole

LEMMA SignInKeeps ==
  ASSUME AccountsInductive, NEW l \in Logins, NEW p \in People,
         Authenticate(l, p) \/ PeekPending(l, p)
  PROVE  AccountsInductive'
<1>1. AccountsTyped'
  BY DEF Authenticate, PeekPending, AccountsInductive, AccountsTyped
<1>2. users[p].version = users[p].changes
  BY DEF Authenticate, PeekPending, AccountsInductive, Versions, There
<1>3. Copies'
  BY <1>2 DEF Authenticate, PeekPending, AccountsInductive, AccountsTyped, Copies
<1>4. UNCHANGED <<users, band, change>>
  BY DEF Authenticate, PeekPending
<1>. QED
  BY <1>1, <1>3, <1>4, ChangesUntouched DEF AccountsInductive

LEMMA SignInGoesOn ==
  ASSUME AccountsInductive, AccountsAssumption, NEW l \in Logins, CheckBand(l) \/ ConsumePending(l) \/ CreateSession(l)
  PROVE  AccountsInductive'
<1>1. login[l] \in [step : {"idle", "band", "consume", "open"}, who : People, row : Row]
  BY DEF AccountsInductive, AccountsTyped
<1>2. NoLogin \in [step : {"idle", "band", "consume", "open"}, who : People, row : Row]
  BY DEF NoLogin, Unmade, Row, AccountsAssumption
<1>3. CASE CheckBand(l)
  <2>1. AccountsTyped'
    BY <1>1, <1>2, <1>3 DEF CheckBand, AccountsInductive, AccountsTyped
  <2>2. Copies'
    BY <1>1, <1>3 DEF CheckBand, AccountsInductive, AccountsTyped, Copies, NoLogin
  <2>. QED
    BY <1>3, <2>1, <2>2, ChangesUntouched DEF CheckBand, AccountsInductive
<1>4. CASE ConsumePending(l)
  <2>1. AccountsTyped'
    BY <1>1, <1>2, <1>4 DEF ConsumePending, AccountsInductive, AccountsTyped
  <2>2. Copies'
    BY <1>1, <1>4 DEF ConsumePending, AccountsInductive, AccountsTyped, Copies, NoLogin
  <2>. QED
    BY <1>4, <2>1, <2>2, ChangesUntouched DEF ConsumePending, AccountsInductive
<1>5. CASE CreateSession(l)
  <2>1. AccountsTyped'
    BY <1>1, <1>2, <1>5 DEF CreateSession, SessionOf, AccountsInductive, AccountsTyped, Row
  <2>2. Copies'
    BY <1>1, <1>5 DEF CreateSession, SessionOf, AccountsInductive, AccountsTyped, Copies, NoLogin
  <2>. QED
    BY <1>5, <2>1, <2>2, ChangesUntouched DEF CreateSession, AccountsInductive
<1>. QED
  BY <1>3, <1>4, <1>5

LEMMA SessionsGo ==
  ASSUME AccountsInductive, \/ \E s \in sessions : EndSession(s)
                    \/ \E token \in pendingAuth : PendingExpires(token)
  PROVE  AccountsInductive'
<1>1. UNCHANGED <<users, band, change, login>> /\ sessions' \subseteq sessions /\ pendingAuth' \subseteq pendingAuth
  BY DEF EndSession, PendingExpires
<1>2. AccountsTyped' /\ Copies'
  BY <1>1 DEF AccountsInductive, AccountsTyped, Copies
<1>. QED
  BY <1>1, <1>2, ChangesUntouched DEF AccountsInductive

-----------------------------------------------------------------------------
(* Changing an account.                                                     *)

LEMMA Blank ==
  ASSUME AccountsAssumption
  PROVE  NotChanging \in Change /\ Unmade \in Row /\ \A isAdmin \in BOOLEAN : Made(isAdmin) \in Row
BY DEF NotChanging, Change, Unmade, Made, Row, AccountsAssumption, Kinds

\* A step of one change that leaves the accounts alone: what it holds must be right
\* of it, and where it holds a whole row, it must be alone.
LEMMA ChangeMoves ==
  ASSUME AccountsInductive, NEW c \in AccountChanges, NEW next \in Change,
         change' = [change EXCEPT ![c] = next],
         UNCHANGED <<users, band, login>>,
         sessions' \subseteq sessions, pendingAuth' \subseteq pendingAuth,
         Held(c)',
         \/ next.step = "idle"
         \/ next.kind = change[c].kind /\ next.who = change[c].who /\ change[c].step # "idle"
         \/ Alone(next.kind, next.who) /\ next.kind # "create"
         \/ \A d \in AccountChanges \ {c} : change[d].step # "idle" => change[d].who # next.who
  PROVE  AccountsInductive'
<1>1. change \in [AccountChanges -> Change]
  BY DEF AccountsInductive, AccountsTyped, Change
<1>2. change' \in [AccountChanges -> Change] /\ change'[c] = next /\ \A d \in AccountChanges \ {c} : change'[d] = change[d]
  BY <1>1
<1>3. AccountsTyped' /\ Copies'
  BY <1>2 DEF AccountsInductive, AccountsTyped, Copies, Change
<1>4. Versions'
  BY DEF AccountsInductive, Versions, There
<1>5. ASSUME NEW d \in AccountChanges PROVE Held(d)'
  BY <1>2 DEF AccountsInductive, Held, There
<1>6. Overlaps'
  BY <1>1, <1>2 DEF AccountsInductive, Overlaps, Alone, SavedWhole, Held
<1>. QED
  BY <1>3, <1>4, <1>5, <1>6 DEF AccountsInductive

LEMMA BeginChangeKeeps ==
  ASSUME AccountsInductive, AccountsAssumption, NEW c \in AccountChanges, NEW actor \in People, NEW p \in People,
         NEW to \in BOOLEAN, NEW kind \in Guarded \cup {"password", "mfa"},
         BeginChange(c, kind, actor, p, to)
  PROVE  AccountsInductive'
<1>. DEFINE next == [kind |-> kind, who |-> p, to |-> to,
                     row |-> IF kind \in SavedWhole THEN users[p] ELSE Unmade,
                     step |-> IF Leaves(kind, p, to) THEN "count" ELSE FirstStep(kind)]
<1>1. next \in Change
  BY Blank DEF AccountsInductive, AccountsTyped, Change, Kinds, FirstStep
<1>2. change' = [change EXCEPT ![c] = next] /\ UNCHANGED <<users, band, sessions, pendingAuth, login>>
  BY DEF BeginChange
<1>3. change'[c] = next
  BY <1>2 DEF AccountsInductive, AccountsTyped
<1>4. Held(c)'
  BY <1>2, <1>3 DEF BeginChange, Held, AccountsInductive, AccountsTyped, Versions, There, Leaves, Removes, FirstStep,
     Guarded, SavedWhole, Alone
<1>5. Alone(next.kind, next.who) /\ next.kind # "create"
  BY DEF BeginChange, Guarded
<1>. QED
  BY <1>1, <1>2, <1>4, <1>5, ChangeMoves

LEMMA BeginSetupKeeps ==
  ASSUME AccountsInductive, AccountsAssumption, NEW c \in AccountChanges, NEW p \in People, BeginSetup(c, p)
  PROVE  AccountsInductive'
<1>. DEFINE next == [kind |-> "setup", who |-> p, row |-> users[p], to |-> FALSE, step |-> "write"]
<1>1. next \in Change
  BY DEF AccountsInductive, AccountsTyped, Change, Kinds
<1>2. change' = [change EXCEPT ![c] = next] /\ UNCHANGED <<users, band, sessions, login>>
      /\ pendingAuth' \subseteq pendingAuth
  BY DEF BeginSetup
<1>3. change'[c] = next
  BY <1>2 DEF AccountsInductive, AccountsTyped
<1>4. There(p)
  BY DEF BeginSetup, AccountsInductive, Versions
<1>5. Held(c)'
  BY <1>2, <1>3, <1>4 DEF BeginSetup, Held, AccountsInductive, AccountsTyped, Versions, There, SavedWhole, Alone
<1>6. Alone(next.kind, next.who)
  BY DEF BeginSetup
<1>. QED
  BY <1>1, <1>2, <1>5, <1>6, ChangeMoves

LEMMA QuotaChecked ==
  ASSUME AccountsInductive, AccountsAssumption, NEW c \in AccountChanges, NEW actor \in People, NEW p \in People,
         NEW to \in BOOLEAN, CheckUserQuota(c, actor, p, to)
  PROVE  AccountsInductive'
<1>. DEFINE next == [NotChanging EXCEPT !.kind = "create", !.who = p, !.to = to, !.step = "write"]
<1>1. next \in Change /\ next.kind = "create" /\ next.who = p /\ next.step = "write"
  BY Blank DEF Change, NotChanging, Kinds
<1>2. change' = [change EXCEPT ![c] = next] /\ UNCHANGED <<users, band, sessions, pendingAuth, login>>
  BY DEF CheckUserQuota
<1>3. change'[c] = next
  BY <1>2 DEF AccountsInductive, AccountsTyped
<1>4. Held(c)'
  BY <1>1, <1>2, <1>3 DEF CheckUserQuota, Held, SavedWhole
<1>5. \A d \in AccountChanges \ {c} : change[d].step # "idle" => change[d].who # next.who
  BY <1>1 DEF CheckUserQuota, AccountsInductive, Held, AccountsTyped, Kinds
<1>. QED
  BY <1>1, <1>2, <1>4, <1>5, ChangeMoves

LEMMA ChangeEnds ==
  ASSUME AccountsInductive, AccountsAssumption, NEW c \in AccountChanges,
         change' = [change EXCEPT ![c] = NotChanging], UNCHANGED <<users, band, login, pendingAuth>>,
         sessions' \subseteq sessions
  PROVE  AccountsInductive'
<1>1. NotChanging.step = "idle" /\ NotChanging.kind = "none"
  BY DEF NotChanging
<1>2. change'[c] = NotChanging
  BY DEF AccountsInductive, AccountsTyped
<1>3. Held(c)'
  BY <1>1, <1>2 DEF Held, SavedWhole
<1>. QED
  BY <1>1, <1>3, Blank, ChangeMoves

LEMMA NextStepTaken ==
  ASSUME AccountsInductive, NEW c \in AccountChanges, NEW step \in {"write", "revoke", "erase", "open"},
         change' = [change EXCEPT ![c].step = step], change[c].step # "idle",
         UNCHANGED <<users, band, login, pendingAuth>>, sessions' \subseteq sessions,
         step = "write" => change[c].step = "count",
         step = "revoke" => change[c].kind = "delete",
         step = "erase" => change[c].kind = "delete",
         step = "open" => change[c].kind = "setup" /\ change[c].step = "revoke",
         change[c].kind = "delete" => step # "write", change[c].kind # "create"
  PROVE  AccountsInductive'
<1>1. PICK next \in Change : next = [change[c] EXCEPT !.step = step]
  BY DEF AccountsInductive, AccountsTyped, Change
<1>2. /\ next.step = step /\ next.kind = change[c].kind
      /\ next.who = change[c].who /\ next.row = change[c].row
  BY <1>1 DEF AccountsInductive, AccountsTyped
<1>3. change' = [change EXCEPT ![c] = next] /\ change'[c] = next
  BY <1>1 DEF AccountsInductive, AccountsTyped
<1>4. Held(c)
  BY DEF AccountsInductive
<1>5. Held(c)'
  BY <1>2, <1>3, <1>4 DEF Held, SavedWhole, There
<1>. QED
  BY <1>2, <1>3, <1>5, ChangeMoves

LEMMA ChangeGoesOn ==
  ASSUME AccountsInductive, AccountsAssumption, NEW c \in AccountChanges,
         EnsureAnotherBandAdmin(c) \/ RevokeUserSessions(c) \/ DropChange(c)
  PROVE  AccountsInductive'
<1>1. Held(c)
  BY DEF AccountsInductive
<1>2. CASE change' = [change EXCEPT ![c] = NotChanging]
  BY <1>2, ChangeEnds DEF EnsureAnotherBandAdmin, RevokeUserSessions, DropChange
<1>3. CASE EnsureAnotherBandAdmin(c) /\ change' = [change EXCEPT ![c].step = FirstStep(change[c].kind)]
  <2>1. change[c].kind # "create"
    BY <1>1, <1>3 DEF Held, EnsureAnotherBandAdmin
  <2>. QED
    BY <1>3, <2>1, NextStepTaken DEF EnsureAnotherBandAdmin, FirstStep
<1>4. CASE RevokeUserSessions(c) /\ change[c].kind = "delete"
  BY <1>4, NextStepTaken DEF RevokeUserSessions, NextStep
<1>5. CASE RevokeUserSessions(c) /\ change[c].kind = "setup"
  BY <1>5, NextStepTaken DEF RevokeUserSessions, NextStep
<1>. QED
  BY <1>2, <1>3, <1>4, <1>5 DEF EnsureAnotherBandAdmin, RevokeUserSessions, DropChange, NextStep

LEMMA OpenAfterSetupKeeps ==
  ASSUME AccountsInductive, AccountsAssumption, NEW c \in AccountChanges, OpenAfterSetup(c)
  PROVE  AccountsInductive'
<1>1. change[c] \in Change /\ change[c].row.version = change[c].row.changes
  BY DEF OpenAfterSetup, AccountsInductive, AccountsTyped, Change, Held
<1>2. change' = [change EXCEPT ![c] = NotChanging] /\ UNCHANGED <<users, band, login, pendingAuth>>
  BY DEF OpenAfterSetup
<1>3. \A s \in sessions' : s \in sessions \/ s = SessionOf(change[c].who, change[c].row)
  BY DEF OpenAfterSetup
<1>4. /\ SessionOf(change[c].who, change[c].row) \in [who : People, version : Nat, seen : Nat]
      /\ SessionOf(change[c].who, change[c].row).version = SessionOf(change[c].who, change[c].row).seen
  BY <1>1 DEF SessionOf, Change, Row
<1>5. Copies' /\ sessions' \subseteq [who : People, version : Nat, seen : Nat]
  BY <1>2, <1>3, <1>4 DEF AccountsInductive, Copies, AccountsTyped
<1>6. AccountsTyped'
  BY <1>2, <1>5, Blank DEF AccountsInductive, AccountsTyped, Change
<1>7. change'[c] = NotChanging /\ \A d \in AccountChanges \ {c} : change'[d] = change[d]
  BY <1>2 DEF AccountsInductive, AccountsTyped
<1>8. Overlaps' /\ \A d \in AccountChanges : Held(d)'
  BY <1>2, <1>7 DEF AccountsInductive, Overlaps, Held, NotChanging, There, SavedWhole
<1>9. Versions'
  BY <1>2 DEF AccountsInductive, Versions, There
<1>. QED
  BY <1>5, <1>6, <1>8, <1>9 DEF AccountsInductive

-----------------------------------------------------------------------------
(* Writing an account.                                                      *)

LEMMA RaisedRow ==
  ASSUME NEW row \in Row, row.state = "there", row.version = row.changes
  PROVE  /\ Raised(row) \in Row /\ Raised(row).state = "there"
         /\ Raised(row).version = Raised(row).changes + 1
BY DEF Raised, Row

LEMMA CountedRow ==
  ASSUME AccountsInductive, NEW c \in AccountChanges,
         change[c].step = "write", change[c].kind # "create", There(change[c].who)
  PROVE  /\ Counted(c) \in Row /\ Counted(c).state = "there"
         /\ Counted(c).version = Counted(c).changes
<1>. DEFINE kept == [change[c].row EXCEPT !.changes = users[change[c].who].changes]
            Right(row, more) == row \in Row /\ row.state = "there" /\ row.version = row.changes + more
<1>1. PICK old \in Row : old = users[change[c].who] /\ old.state = "there" /\ old.version = old.changes
  BY DEF AccountsInductive, AccountsTyped, Change, Versions, There
<1>2. change[c].kind \in SavedWhole => kept \in Row /\ kept.state = "there" /\ kept.version = kept.changes
  <2>1. change[c].row \in Row
    BY DEF AccountsInductive, AccountsTyped, Change
  <2>2. change[c].kind \in SavedWhole => change[c].row.state = "there" /\ change[c].row.version = old.changes
    BY <1>1 DEF AccountsInductive, Held
  <2>. QED
    BY <1>1, <2>1, <2>2 DEF Row
<1>3. change[c].kind \in {"role", "active", "resetMFA", "reset", "password", "setup", "mfa"}
  BY DEF AccountsInductive, AccountsTyped, Change, Held, Kinds, Guarded
<1>4. change[c].to \in BOOLEAN
  BY DEF AccountsInductive, AccountsTyped, Change
<1>5. PICK raised : Raised(old) = raised /\ Right(raised, 1)
  BY <1>1, RaisedRow
<1>6. CASE change[c].kind = "mfa"
  <2>1. PICK own \in Row : own = kept /\ Right(own, 0)
    BY <1>2, <1>6 DEF SavedWhole, Row
  <2>2. RowWritten(c) = [own EXCEPT !.mfa = ~@]
    BY <1>6, <2>1 DEF RowWritten
  <2>3. Right([own EXCEPT !.mfa = ~@], 0)
    BY <2>1 DEF Row
  <2>4. PICK written : RowWritten(c) = written /\ Right(written, 0)
    BY <2>2, <2>3
  <2>5. Counted(c) = [written EXCEPT !.changes = @]
    BY <1>6, <2>4 DEF Counted
  <2>. QED
    BY <2>4, <2>5 DEF Row
<1>7. ASSUME change[c].kind # "mfa", NEW written, RowWritten(c) = written, Right(written, 1)
      PROVE  Right(Counted(c), 0)
  <2>1. Counted(c) = [written EXCEPT !.changes = @ + 1]
    BY <1>7 DEF Counted
  <2>. QED
    BY <1>7, <2>1 DEF Row
<1>8. CASE change[c].kind = "role"
  <2>1. RowWritten(c) = [raised EXCEPT !.admin = change[c].to]
    BY <1>1, <1>5, <1>8 DEF RowWritten
  <2>2. Right([raised EXCEPT !.admin = change[c].to], 1)
    BY <1>4, <1>5 DEF Row
  <2>. QED
    BY <1>7, <1>8, <2>1, <2>2 DEF Row
<1>9. CASE change[c].kind = "active"
  <2>1. RowWritten(c) = [raised EXCEPT !.active = change[c].to]
    BY <1>1, <1>5, <1>9 DEF RowWritten
  <2>2. Right([raised EXCEPT !.active = change[c].to], 1)
    BY <1>4, <1>5 DEF Row
  <2>. QED
    BY <1>7, <1>9, <2>1, <2>2 DEF Row
<1>10. CASE change[c].kind = "resetMFA"
  <2>1. RowWritten(c) = [raised EXCEPT !.mfa = FALSE]
    BY <1>1, <1>5, <1>10 DEF RowWritten
  <2>2. Right([raised EXCEPT !.mfa = FALSE], 1)
    BY <1>5 DEF Row
  <2>. QED
    BY <1>7, <1>10, <2>1, <2>2 DEF Row
<1>11. CASE change[c].kind \in {"reset", "password", "setup"}
  <2>1. PICK saved : Raised(kept) = saved /\ Right(saved, 1)
    BY <1>2, <1>11, RaisedRow DEF SavedWhole
  <2>2. PICK setup \in BOOLEAN : RowWritten(c) = [saved EXCEPT !.setup = setup]
    BY <1>11, <2>1 DEF RowWritten
  <2>3. Right([saved EXCEPT !.setup = setup], 1)
    BY <2>1 DEF Row
  <2>. QED
    BY <1>7, <1>11, <2>2, <2>3 DEF Row
<1>. QED
  BY <1>3, <1>6, <1>8, <1>9, <1>10, <1>11 DEF Row

LEMMA WriteChangeKeeps ==
  ASSUME AccountsInductive, AccountsAssumption, NEW c \in AccountChanges, WriteChange(c)
  PROVE  AccountsInductive'
<1>. DEFINE p == change[c].who
<1>1. CASE ~There(p)
  BY <1>1, ChangeEnds DEF WriteChange
<1>2. CASE There(p)
  <2>1. PICK row \in Row : row = Counted(c) /\ row.state = "there" /\ row.version = row.changes
    BY <1>2, CountedRow DEF WriteChange
  <2>2. users' = [users EXCEPT ![p] = row] /\ UNCHANGED <<band, sessions, pendingAuth, login>>
    BY <1>2, <2>1 DEF WriteChange
  <2>3. p \in People /\ change[c] \in Change
    BY DEF AccountsInductive, AccountsTyped, Change
  <2>4. users'[p] = row /\ \A q \in People \ {p} : users'[q] = users[q]
    BY <2>2, <2>3 DEF AccountsInductive, AccountsTyped
  <2>5. PICK next \in Change :
          /\ next = AfterWrite(c)
          /\ next.step = "idle" \/ (next.step = "revoke" /\ next.kind = change[c].kind /\ next.who = p)
          /\ next.step = "idle" <=> next.kind = "none"
          /\ next.kind = "setup" => next.row = row
    <3>1. CASE AfterWrite(c) = NotChanging
      BY <3>1, Blank DEF NotChanging
    <3>2. CASE AfterWrite(c) # NotChanging
      <4>1. PICK held \in Row :
              /\ AfterWrite(c) = [change[c] EXCEPT !.step = "revoke", !.row = held]
              /\ change[c].kind = "setup" => held = row
        BY <2>1, <3>2, Blank DEF AfterWrite
      <4>2. change[c].kind # "none"
        BY DEF WriteChange, AccountsInductive, Held
      <4>. QED
        BY <2>3, <4>1, <4>2 DEF Change
    <3>. QED
      BY <3>1, <3>2
  <2>6. change'[c] = next /\ change' \in [AccountChanges -> Change] /\ \A d \in AccountChanges \ {c} : change'[d] = change[d]
    BY <1>2, <2>5 DEF WriteChange, AccountsInductive, AccountsTyped, Change
  <2>7. AccountsTyped' /\ Copies'
    BY <2>1, <2>2, <2>3, <2>6 DEF AccountsInductive, AccountsTyped, Copies, Change
  <2>8. Versions'
    BY <2>1, <2>4 DEF AccountsInductive, Versions, There
  <2>9. Overlaps'
    BY <2>5, <2>6 DEF WriteChange, AccountsInductive, Overlaps, SavedWhole
  <2>10. Held(c)'
    BY <2>1, <2>2, <2>4, <2>5, <2>6 DEF WriteChange, AccountsInductive, Held, SavedWhole, There
  <2>11. ASSUME NEW d \in AccountChanges \ {c} PROVE Held(d)'
    <3>1. Held(d) /\ change'[d] = change[d] /\ change[d] \in Change
      BY <2>6 DEF AccountsInductive, AccountsTyped, Change
    <3>2. CASE change[d].who # p
      BY <2>2, <2>4, <3>1, <3>2 DEF Held, There, Change
    <3>3. CASE change[d].who = p
      <4>1. change[d].kind \notin SavedWhole
        BY <3>1, <3>3 DEF WriteChange, AccountsInductive, Overlaps, Held, SavedWhole
      <4>. QED
        BY <1>2, <2>1, <2>2, <2>4, <3>1, <3>3, <4>1 DEF Held, There, SavedWhole
    <3>. QED
      BY <3>2, <3>3
  <2>. QED
    BY <2>7, <2>8, <2>9, <2>10, <2>11 DEF AccountsInductive
<1>. QED
  BY <1>1, <1>2

LEMMA CreateUserKeeps ==
  ASSUME AccountsInductive, AccountsAssumption, NEW c \in AccountChanges, CreateUser(c)
  PROVE  AccountsInductive'
<1>. DEFINE p == change[c].who
<1>1. PICK row \in Row : row = Made(change[c].to) /\ row.state = "there" /\ row.version = row.changes
  <2>1. change[c].to \in BOOLEAN
    BY DEF AccountsInductive, AccountsTyped, Change
  <2>2. Made(change[c].to).state = "there" /\ Made(change[c].to).version = Made(change[c].to).changes
    BY DEF Made, Unmade
  <2>. QED
    BY <2>1, <2>2, Blank
<1>2. /\ users' = [users EXCEPT ![p] = row] /\ change' = [change EXCEPT ![c] = NotChanging]
      /\ UNCHANGED <<band, sessions, pendingAuth, login>>
  BY <1>1 DEF CreateUser
<1>3. p \in People /\ users[p].state = "none"
  BY DEF CreateUser, AccountsInductive, AccountsTyped, Change, Held
<1>4. users'[p] = row /\ \A q \in People \ {p} : users'[q] = users[q]
  BY <1>2, <1>3 DEF AccountsInductive, AccountsTyped
<1>5. change'[c] = NotChanging /\ \A d \in AccountChanges \ {c} : change'[d] = change[d]
  BY <1>2 DEF AccountsInductive, AccountsTyped
<1>6. AccountsTyped' /\ Copies'
  BY <1>2, Blank DEF AccountsInductive, AccountsTyped, Copies, Change
<1>7. Versions'
  BY <1>1, <1>4 DEF AccountsInductive, Versions, There
<1>8. Overlaps'
  BY <1>5 DEF AccountsInductive, Overlaps, NotChanging
<1>9. Held(c)'
  BY <1>5 DEF Held, NotChanging, SavedWhole
<1>10. ASSUME NEW d \in AccountChanges \ {c} PROVE Held(d)'
  <2>1. Held(d) /\ change'[d] = change[d]
    BY <1>5 DEF AccountsInductive
  <2>2. change[d].kind = "none" \/ change[d].who # p
    BY <1>3, <2>1 DEF Held, CreateUser, AccountsInductive, Overlaps
  <2>3. change[d].who \in People
    BY DEF AccountsInductive, AccountsTyped, Change
  <2>. QED
    BY <1>2, <1>4, <2>1, <2>2, <2>3 DEF Held, SavedWhole, There
<1>. QED
  BY <1>6, <1>7, <1>8, <1>9, <1>10 DEF AccountsInductive

LEMMA EraseAccountKeeps ==
  ASSUME AccountsInductive, AccountsAssumption, NEW c \in AccountChanges, EraseAccount(c)
  PROVE  AccountsInductive'
<1>. DEFINE p == change[c].who
<1>1. PICK row \in Row : row = [Unmade EXCEPT !.state = "gone", !.changes = MaxVersion]
                       /\ row.state = "gone" /\ ~row.active /\ ~row.mfa
  <2>1. PICK unmade \in Row : unmade = Unmade /\ ~unmade.active /\ ~unmade.mfa
    BY Blank DEF Unmade
  <2>. DEFINE left == [unmade EXCEPT !.state = "gone"]
              row == [left EXCEPT !.changes = MaxVersion]
  <2>2. left \in Row /\ left.state = "gone" /\ ~left.active /\ ~left.mfa
    BY <2>1 DEF Row
  <2>3. row \in Row /\ row.state = "gone" /\ ~row.active /\ ~row.mfa
    <3>. HIDE DEF left
    <3>. QED
      BY <2>2 DEF Row, AccountsAssumption
  <2>4. row = [Unmade EXCEPT !.state = "gone", !.changes = MaxVersion]
    BY <2>1
  <2>. HIDE DEF row
  <2>. QED
    BY <2>3, <2>4
<1>2. /\ users' = [users EXCEPT ![p] = row] /\ change' = [change EXCEPT ![c] = NotChanging]
      /\ sessions' \subseteq sessions /\ pendingAuth' \subseteq pendingAuth /\ UNCHANGED <<band, login>>
  BY <1>1 DEF EraseAccount
<1>3. p \in People /\ users[p].state # "none"
  BY DEF EraseAccount, AccountsInductive, AccountsTyped, Change, Held, Kinds
<1>4. users'[p] = row /\ \A q \in People \ {p} : users'[q] = users[q]
  BY <1>2, <1>3 DEF AccountsInductive, AccountsTyped
<1>5. change'[c] = NotChanging /\ \A d \in AccountChanges \ {c} : change'[d] = change[d]
  BY <1>2 DEF AccountsInductive, AccountsTyped
<1>6. AccountsTyped' /\ Copies'
  BY <1>2, Blank DEF AccountsInductive, AccountsTyped, Copies, Change
<1>7. Versions'
  BY <1>1, <1>4 DEF AccountsInductive, Versions, There
<1>8. Overlaps'
  BY <1>5 DEF AccountsInductive, Overlaps, NotChanging
<1>9. Held(c)'
  BY <1>5 DEF Held, NotChanging, SavedWhole
<1>10. ASSUME NEW d \in AccountChanges \ {c} PROVE Held(d)'
  <2>1. Held(d) /\ change'[d] = change[d] /\ change[d].who \in People
    BY <1>5 DEF AccountsInductive, AccountsTyped, Change
  <2>. QED
    BY <1>1, <1>2, <1>3, <1>4, <2>1 DEF Held, SavedWhole, There
<1>. QED
  BY <1>6, <1>7, <1>8, <1>9, <1>10 DEF AccountsInductive

-----------------------------------------------------------------------------
(* The band as a whole.                                                     *)

LEMMA BandKeeps ==
  ASSUME AccountsInductive, AccountsAssumption, DeactivateBand \/ RevokeBandSessions \/ ActivateBand
  PROVE  AccountsInductive'
<1>1. UNCHANGED <<users, pendingAuth, login, change>> /\ sessions' \subseteq sessions
  BY DEF DeactivateBand, RevokeBandSessions, ActivateBand
<1>2. band' \in [active : BOOLEAN, call : {"idle", "raise", "wipe"}]
  <2>1. CASE DeactivateBand
    BY <2>1 DEF DeactivateBand
  <2>2. CASE RevokeBandSessions
    BY <2>2 DEF AccountsInductive, AccountsTyped, RevokeBandSessions
  <2>3. CASE ActivateBand
    BY <2>3 DEF AccountsInductive, AccountsTyped, ActivateBand
  <2>. QED
    BY <2>1, <2>2, <2>3
<1>. AccountsTyped' /\ Copies'
  BY <1>1, <1>2 DEF AccountsInductive, AccountsTyped, Copies
<1>3. Versions' /\ Overlaps'
  BY <1>1 DEF AccountsInductive, Versions, Overlaps, There
<1>4. ASSUME NEW c \in AccountChanges PROVE Held(c)'
  BY <1>1 DEF AccountsInductive, AccountsTyped, Held, There, DeactivateBand, RevokeBandSessions, ActivateBand
<1>. QED
  BY <1>3, <1>4 DEF AccountsInductive

LEMMA RaiseVersionsKeeps ==
  ASSUME AccountsInductive, AccountsAssumption, RaiseVersions
  PROVE  AccountsInductive'
<1>1. ASSUME NEW p \in People
      PROVE  /\ users'[p] \in Row /\ users'[p].state = users[p].state
             /\ users'[p].active = users[p].active /\ users'[p].mfa = users[p].mfa
             /\ There(p) => users'[p].version = users'[p].changes
  <2>1. users[p] \in Row
    BY DEF AccountsInductive, AccountsTyped
  <2>2. CASE There(p)
    <3>1. users[p].state = "there" /\ users[p].version = users[p].changes
      BY <2>2 DEF AccountsInductive, Versions, There
    <3>2. PICK raised \in Row : raised = Raised(users[p]) /\ raised.version = raised.changes + 1
      BY <2>1, <3>1, RaisedRow
    <3>3. /\ raised.state = users[p].state /\ raised.active = users[p].active /\ raised.mfa = users[p].mfa
      BY <2>1, <3>2 DEF Raised, Row
    <3>4. users'[p] = [raised EXCEPT !.changes = @ + 1]
      BY <2>2, <3>2 DEF RaiseVersions
    <3>. QED
      BY <3>2, <3>3, <3>4 DEF Row
  <2>3. CASE ~There(p)
    BY <2>1, <2>3 DEF RaiseVersions
  <2>. QED
    BY <2>2, <2>3
<1>2. UNCHANGED <<sessions, pendingAuth, login, change>> /\ band' = [band EXCEPT !.call = "wipe"] /\ band.call = "raise"
  BY DEF RaiseVersions
<1>3. users' \in [People -> Row]
  BY <1>1 DEF RaiseVersions
<1>4. AccountsTyped' /\ Copies'
  BY <1>2, <1>3 DEF AccountsInductive, AccountsTyped, Copies
<1>5. Versions'
  BY <1>1 DEF AccountsInductive, Versions, There
<1>6. Overlaps'
  BY <1>2 DEF AccountsInductive, Overlaps
<1>7. ASSUME NEW c \in AccountChanges PROVE Held(c)'
  <2>1. Held(c) /\ change[c].who \in People
    BY DEF AccountsInductive, AccountsTyped, Change
  <2>. QED
    BY <1>1, <1>2, <2>1 DEF AccountsInductive, AccountsTyped, Held, There
<1>. QED
  BY <1>4, <1>5, <1>6, <1>7 DEF AccountsInductive

-----------------------------------------------------------------------------
(* Theorems.                                                                *)

LEMMA StartsInductive ==
  ASSUME AccountsAssumption, AccountsInit
  PROVE  AccountsInductive
<1>1. ASSUME NEW p \in People
      PROVE  /\ users[p] \in Row
             /\ There(p) => users[p].version = users[p].changes
             /\ ~There(p) => ~users[p].active /\ ~users[p].mfa
  <2>1. PICK made \in Row : made = Made(TRUE) /\ made.state = "there" /\ made.version = made.changes
    BY Blank DEF Made, Unmade
  <2>2. users[p] \in {Unmade, made, [made EXCEPT !.setup = FALSE]}
    BY <2>1 DEF AccountsInit
  <2>3. CASE users[p] = Unmade
    BY <2>3, Blank DEF There, Unmade
  <2>4. CASE users[p] \in {made, [made EXCEPT !.setup = FALSE]}
    BY <2>1, <2>4 DEF There, Row
  <2>. QED
    BY <2>2, <2>3, <2>4
<1>2. NoLogin \in [step : {"idle", "band", "consume", "open"}, who : People, row : Row] /\ NoLogin.step = "idle"
  BY Blank DEF NoLogin, AccountsAssumption
<1>3. users \in [People -> Row]
  BY <1>1 DEF AccountsInit
<1>4. AccountsTyped
  BY <1>2, <1>3, Blank DEF AccountsInit, AccountsTyped, Change
<1>5. Versions
  BY <1>1 DEF Versions
<1>6. Copies
  BY <1>2 DEF AccountsInit, Copies
<1>7. Overlaps /\ \A c \in AccountChanges : Held(c)
  BY DEF AccountsInit, Overlaps, Held, NotChanging, SavedWhole
<1>. QED
  BY <1>4, <1>5, <1>6, <1>7 DEF AccountsInductive

LEMMA StaysInductive ==
  ASSUME AccountsAssumption, AccountsInductive, [AccountsNext]_accountVars
  PROVE  AccountsInductive'
<1>1. CASE \E l \in Logins :
             \/ \E p \in People : Authenticate(l, p) \/ PeekPending(l, p)
             \/ CheckBand(l) \/ ConsumePending(l) \/ CreateSession(l)
  BY <1>1, SignInKeeps, SignInGoesOn
<1>2. CASE (\E s \in sessions : EndSession(s)) \/ (\E token \in pendingAuth : PendingExpires(token))
  BY <1>2, SessionsGo
<1>3. CASE \E c \in AccountChanges :
             \/ \E p \in People : BeginSetup(c, p)
             \/ \E actor, p \in People, to \in BOOLEAN :
                  \/ \E kind \in Guarded \cup {"password", "mfa"} : BeginChange(c, kind, actor, p, to)
                  \/ CheckUserQuota(c, actor, p, to)
  BY <1>3, BeginSetupKeeps, BeginChangeKeeps, QuotaChecked
<1>4. CASE \E c \in AccountChanges :
             \/ EnsureAnotherBandAdmin(c) \/ WriteChange(c) \/ RevokeUserSessions(c)
             \/ EraseAccount(c) \/ OpenAfterSetup(c) \/ CreateUser(c) \/ DropChange(c)
  BY <1>4, ChangeGoesOn, WriteChangeKeeps, EraseAccountKeeps, OpenAfterSetupKeeps, CreateUserKeeps
<1>5. CASE DeactivateBand \/ RaiseVersions \/ RevokeBandSessions \/ ActivateBand
  BY <1>5, BandKeeps, RaiseVersionsKeeps
<1>6. CASE UNCHANGED accountVars
  BY <1>6 DEF accountVars, AccountsInductive, AccountsTyped, Versions, Copies, Overlaps, Held, There
<1>. QED
  BY <1>1, <1>2, <1>3, <1>4, <1>5, <1>6 DEF AccountsNext

\* No sign-in under way survives a change that signs out, in a band of any size:
\* whatever an accepted session was opened with (LoadSession, createSession), its
\* account has not been changed since.
THEOREM NobodySlipsIn == AccountsSpec => []SignedOutEverywhere
<1>1. AccountsInit => AccountsInductive
  BY AccountsAssumption, StartsInductive
<1>2. AccountsInductive /\ [AccountsNext]_accountVars => AccountsInductive'
  BY AccountsAssumption, StaysInductive
<1>3. AccountsInductive => SignedOutEverywhere
  BY DEF AccountsInductive, Versions, Copies, AccountsTyped, SignedOutEverywhere, Accepted
<1>. QED
  BY <1>1, <1>2, <1>3, PTL DEF AccountsSpec

-----------------------------------------------------------------------------
(* Registration.                                                            *)

Application ==
  [status : {"none", "pending", "approved", "rejected", "expired"}, slug : Slugs \cup {""},
   expires : Nat, code : BOOLEAN, claimed : BOOLEAN]
OneCall == [op : Operations \cup {"none"}, on : Applications \cup {"none"},
            stage : {"idle", "called", "locked", "overdue"}]

RegistrationTyped ==
  /\ applications \in [Applications -> Application]
  /\ founded \subseteq Slugs \X Applications
  /\ call \in [Calls -> OneCall]
  /\ handed \in [Applications -> Nat]
  /\ day \in Nat

HasBand(q) == \E b \in founded : b[2] = q

Slugged == \A b1, b2 \in founded : b1[1] = b2[1] \/ b1[2] = b2[2] => b1 = b2

\* Where a request can stand.
Standing(q) ==
  /\ applications[q].status = "approved" => HasBand(q)
  /\ applications[q].status \in {"none", "pending", "rejected"} => ~HasBand(q)
  /\ handed[q] <= 1
  /\ handed[q] = 1 => HasBand(q) /\ applications[q].claimed
  /\ applications[q].code => applications[q].status = "approved" /\ handed[q] = 0

\* What was found under the lock of a row still holds, for no other call has it.
Locks ==
  /\ \A c, d \in Calls :
       call[c].stage = "locked" /\ call[d].stage = "locked" /\ call[c].on = call[d].on => c = d
  /\ \A c \in Calls :
       /\ call[c].stage # "idle" => call[c].on \in Applications
       /\ call[c].stage = "locked" =>
            IF call[c].op = "claim"
            THEN applications[call[c].on].code
            ELSE applications[call[c].on].status = "pending"

RegistrationInductive == RegistrationTyped /\ Slugged /\ Locks /\ \A q \in Applications : Standing(q)

-----------------------------------------------------------------------------
LEMMA RowExpired ==
  ASSUME NEW r \in Application
  PROVE  /\ Closed(r) \in Application /\ Closed(r).status = "expired"
         /\ ~Closed(r).code /\ Closed(r).claimed = r.claimed
<1>1. Closed(r) \in Application
  BY DEF Closed, Application
<1>2. Closed(r).status = "expired" /\ ~Closed(r).code
  BY DEF Closed, Application
<1>3. Closed(r).claimed = r.claimed
  BY DEF Closed, Application
<1>. QED
  BY <1>1, <1>2, <1>3

LEMMA BlankRequest == NoApplication \in Application /\ NoApplication.status = "none" /\ ~NoApplication.code
BY DEF NoApplication, Application

\* A step that writes one row, of a request no call has locked but the one that
\* ends with it.
LEMMA RowKept ==
  ASSUME RegistrationInductive, NEW q \in Applications, NEW row \in Application,
         applications' = [applications EXCEPT ![q] = row],
         NEW c \in Calls, call' = call \/ call' = [call EXCEPT ![c] = IdleCall],
         \A d \in Calls : call'[d].stage = "locked" => call[d].on # q,
         UNCHANGED day
  PROVE  /\ applications' \in [Applications -> Application] /\ call' \in [Calls -> OneCall] /\ day' \in Nat
         /\ applications'[q] = row /\ \A p \in Applications \ {q} : applications'[p] = applications[p]
         /\ Locks'
<1>1. IdleCall \in OneCall /\ IdleCall.stage = "idle"
  BY DEF IdleCall, OneCall
<1>2. applications' \in [Applications -> Application] /\ call' \in [Calls -> OneCall] /\ day' \in Nat
  BY <1>1 DEF RegistrationInductive, RegistrationTyped
<1>3. applications'[q] = row /\ \A p \in Applications \ {q} : applications'[p] = applications[p]
  BY DEF RegistrationInductive, RegistrationTyped
<1>4. \A d \in Calls : call'[d].stage # "idle" => call'[d] = call[d]
  BY <1>1 DEF RegistrationInductive, RegistrationTyped
<1>5. Locks'
  BY <1>3, <1>4 DEF RegistrationInductive, Locks
<1>. QED
  BY <1>2, <1>3, <1>5

\* A step that leaves the rows alone.
LEMMA CallMoves ==
  ASSUME RegistrationInductive, NEW c \in Calls, NEW next \in OneCall,
         call' = [call EXCEPT ![c] = next], UNCHANGED <<applications, founded, handed, day>>,
         next.stage # "idle" => next.on \in Applications,
         next.stage = "locked" =>
           /\ \A d \in Calls \ {c} : call[d].stage = "locked" => call[d].on # next.on
           /\ IF next.op = "claim" THEN applications[next.on].code ELSE applications[next.on].status = "pending"
  PROVE  RegistrationInductive'
<1>1. call' \in [Calls -> OneCall] /\ call'[c] = next /\ \A d \in Calls \ {c} : call'[d] = call[d]
  BY DEF RegistrationInductive, RegistrationTyped
<1>2. RegistrationTyped' /\ Slugged'
  BY <1>1 DEF RegistrationInductive, RegistrationTyped, Slugged
<1>3. \A q \in Applications : Standing(q)'
  BY DEF RegistrationInductive, Standing, HasBand
<1>4. Locks'
  BY <1>1 DEF RegistrationInductive, Locks
<1>. QED
  BY <1>2, <1>3, <1>4 DEF RegistrationInductive

LEMMA CallEnds ==
  ASSUME RegistrationInductive, NEW c \in Calls, Done(c), UNCHANGED <<applications, founded, handed, day>>
  PROVE  RegistrationInductive'
BY CallMoves DEF Done, IdleCall, OneCall

\* A call begins, takes the lock, looks or gives up.
LEMMA CallsKeep ==
  ASSUME RegistrationInductive, NEW c \in Calls,
         \/ \E op \in Operations, q \in Applications : Call(c, op, q)
         \/ LockRow(c) \/ GiveUp(c) \/ LookUp(c)
  PROVE  RegistrationInductive'
<1>1. CASE Done(c) /\ UNCHANGED <<applications, founded, handed, day>>
  BY <1>1, CallEnds
<1>2. ASSUME NEW op \in Operations, NEW q \in Applications, Call(c, op, q) PROVE RegistrationInductive'
  <2>1. [op |-> op, on |-> q, stage |-> "called"] \in OneCall
    BY DEF OneCall
  <2>. QED
    BY <1>2, <2>1, CallMoves DEF Call
<1>3. ASSUME NEW stage \in {"locked", "overdue"}, call[c].stage = "called",
             call' = [call EXCEPT ![c].stage = stage], UNCHANGED <<applications, founded, handed, day>>,
             stage = "locked" => RowFree(c) /\ Allowed(c)
      PROVE  RegistrationInductive'
  <2>1. PICK next \in OneCall : next = [call[c] EXCEPT !.stage = stage]
    BY DEF RegistrationInductive, RegistrationTyped, OneCall
  <2>2. next.stage = stage /\ next.on = call[c].on /\ next.op = call[c].op /\ next.on \in Applications
    BY <1>3, <2>1 DEF RegistrationInductive, RegistrationTyped, Locks
  <2>3. stage = "locked" =>
          /\ \A d \in Calls \ {c} : call[d].stage = "locked" => call[d].on # next.on
          /\ IF next.op = "claim" THEN applications[next.on].code ELSE applications[next.on].status = "pending"
    BY <1>3, <2>2 DEF RowFree, Allowed
  <2>4. call' = [call EXCEPT ![c] = next]
    BY <1>3, <2>1
  <2>. QED
    BY <1>3, <2>2, <2>3, <2>4, CallMoves
<1>4. CASE LockRow(c)
  BY <1>1, <1>3, <1>4 DEF LockRow
<1>5. CASE GiveUp(c)
  BY <1>1, <1>5 DEF GiveUp
<1>6. CASE LookUp(c)
  BY <1>1, <1>3, <1>6 DEF LookUp
<1>. QED
  BY <1>2, <1>4, <1>5, <1>6

LEMMA ApplyKeeps ==
  ASSUME RegistrationAssumption, RegistrationInductive, NEW q \in Applications, NEW slug \in Slugs, Apply(q, slug)
  PROVE  RegistrationInductive'
<1>. DEFINE row == [NoApplication EXCEPT !.status = "pending", !.slug = slug, !.expires = day + PendingTTL]
<1>1. day + PendingTTL \in Nat
  BY DEF RegistrationInductive, RegistrationTyped, RegistrationAssumption
<1>2. PICK blank \in Application : blank = NoApplication /\ ~blank.code
  BY BlankRequest
<1>3. row \in Application /\ row.status = "pending" /\ ~row.code
  <2>1. [blank EXCEPT !.status = "pending", !.slug = slug, !.expires = day + PendingTTL] \in Application
    BY <1>1 DEF Application
  <2>2. [blank EXCEPT !.status = "pending", !.slug = slug, !.expires = day + PendingTTL].status = "pending"
    BY DEF Application
  <2>3. ~[blank EXCEPT !.status = "pending", !.slug = slug, !.expires = day + PendingTTL].code
    BY <1>2 DEF Application
  <2>. QED
    BY <1>2, <2>1, <2>2, <2>3
<1>. HIDE DEF row
<1>4. applications' = [applications EXCEPT ![q] = row] /\ UNCHANGED <<founded, call, day, handed>>
      /\ applications[q].status = "none"
  BY DEF Apply, row
<1>5. /\ applications' \in [Applications -> Application] /\ applications'[q] = row
      /\ \A p \in Applications \ {q} : applications'[p] = applications[p]
  BY <1>3, <1>4 DEF RegistrationInductive, RegistrationTyped
<1>6. Locks'
  BY <1>3, <1>4, <1>5 DEF RegistrationInductive, Locks, Standing
<1>7. \A p \in Applications : Standing(p)'
  BY <1>3, <1>4, <1>5 DEF RegistrationInductive, Standing, HasBand, RegistrationTyped
<1>. QED
  BY <1>4, <1>5, <1>6, <1>7 DEF RegistrationInductive, RegistrationTyped, Slugged

\* What was found under the lock.
LEMMA Pending ==
  ASSUME RegistrationInductive, NEW c \in Calls, call[c].stage = "locked", call[c].op # "claim"
  PROVE  /\ call[c].on \in Applications /\ applications[call[c].on].status = "pending"
         /\ ~HasBand(call[c].on) /\ handed[call[c].on] = 0 /\ ~applications[call[c].on].code
<1>1. call[c].on \in Applications /\ applications[call[c].on].status = "pending"
  BY DEF RegistrationInductive, Locks
<1>2. Standing(call[c].on) /\ handed[call[c].on] \in Nat /\ applications[call[c].on].code \in BOOLEAN
  BY <1>1 DEF RegistrationInductive, RegistrationTyped, Application
<1>. QED
  BY <1>1, <1>2 DEF Standing

LEMMA ApproveKeeps ==
  ASSUME RegistrationAssumption, RegistrationInductive, NEW c \in Calls, NEW slug \in Slugs, Approve(c, slug)
  PROVE  RegistrationInductive'
<1>1. PICK q \in Applications :
        q = call[c].on /\ applications[q].status = "pending" /\ ~HasBand(q) /\ handed[q] = 0
  BY Pending DEF Approve
<1>2. CASE \E b \in founded : b[1] = slug
  BY <1>2, CallEnds DEF Approve
<1>3. CASE ~\E b \in founded : b[1] = slug
  <2>0. PICK old \in Application, later \in Nat : old = applications[q] /\ later = day + DecisionTTL
    BY <1>1 DEF RegistrationInductive, RegistrationTyped, RegistrationAssumption
  <2>. DEFINE row == [old EXCEPT !.status = "approved", !.slug = slug, !.code = TRUE, !.expires = later]
  <2>1. row \in Application /\ row.status = "approved"
    <3>1. row \in Application
      BY DEF Application
    <3>2. row.status = "approved"
      BY DEF Application
    <3>. QED
      BY <3>1, <3>2
  <2>2. applications' = [applications EXCEPT ![q] = row]
    BY <1>1, <1>3, <2>0 DEF Approve
  <2>. HIDE DEF row
  <2>3. founded' = founded \cup {<<slug, q>>} /\ Done(c) /\ UNCHANGED <<day, handed>>
    BY <1>1, <1>3 DEF Approve
  <2>4. \A d \in Calls : call'[d].stage = "locked" => call[d].on # q
    BY <1>1, <2>3 DEF Approve, Done, IdleCall, RegistrationInductive, RegistrationTyped, Locks
  <2>5. /\ applications' \in [Applications -> Application] /\ call' \in [Calls -> OneCall] /\ day' \in Nat
        /\ applications'[q] = row /\ \A p \in Applications \ {q} : applications'[p] = applications[p]
        /\ Locks'
    BY <1>1, <2>1, <2>2, <2>3, <2>4, RowKept DEF Done
  <2>6. RegistrationTyped' /\ Slugged'
    BY <1>1, <1>3, <2>3, <2>5 DEF RegistrationInductive, RegistrationTyped, Slugged, HasBand
  <2>7. Standing(q)'
    <3>1. HasBand(q)'
      <4>1. <<slug, q>> \in founded' /\ <<slug, q>>[2] = q
        BY <2>3
      <4>. QED
        BY <4>1 DEF HasBand
    <3>. QED
      BY <1>1, <2>1, <2>3, <2>5, <3>1 DEF Standing
  <2>8. ASSUME NEW p \in Applications \ {q} PROVE Standing(p)'
    <3>1. HasBand(p)' <=> HasBand(p)
      BY <2>3 DEF HasBand
    <3>2. Standing(p) /\ applications'[p] = applications[p] /\ handed'[p] = handed[p]
      BY <2>3, <2>5 DEF RegistrationInductive
    <3>. QED
      BY <3>1, <3>2 DEF Standing
  <2>. QED
    BY <2>5, <2>6, <2>7, <2>8 DEF RegistrationInductive
<1>. QED
  BY <1>2, <1>3

\* Rejecting, handing over and expiring one request write its row and end the call.
LEMMA RowClosed ==
  ASSUME RegistrationInductive, NEW c \in Calls, NEW q \in Applications, NEW row \in Application,
         call[c].on = q, applications' = [applications EXCEPT ![q] = row], Done(c), UNCHANGED <<founded, day>>,
         call[c].stage = "locked" \/ RowFree(c),
         handed' \in [Applications -> Nat], \A p \in Applications \ {q} : handed'[p] = handed[p],
         /\ row.status = "approved" => HasBand(q)
         /\ row.status \in {"none", "pending", "rejected"} => ~HasBand(q)
         /\ handed'[q] <= 1
         /\ handed'[q] = 1 => HasBand(q) /\ row.claimed
         /\ ~row.code
  PROVE  RegistrationInductive'
<1>1. \A d \in Calls : call'[d].stage = "locked" => call[d].on # q
  BY DEF Done, IdleCall, RowFree, RegistrationInductive, RegistrationTyped, Locks
<1>2. /\ applications' \in [Applications -> Application] /\ call' \in [Calls -> OneCall] /\ day' \in Nat
      /\ applications'[q] = row /\ \A p \in Applications \ {q} : applications'[p] = applications[p]
      /\ Locks'
  BY <1>1, RowKept DEF Done
<1>3. \A p \in Applications : Standing(p)'
  BY <1>2 DEF RegistrationInductive, Standing, HasBand
<1>. QED
  BY <1>2, <1>3 DEF RegistrationInductive, RegistrationTyped, Slugged

LEMMA RejectKeeps ==
  ASSUME RegistrationAssumption, RegistrationInductive, NEW c \in Calls, Reject(c)
  PROVE  RegistrationInductive'
<1>1. PICK q \in Applications :
        q = call[c].on /\ ~HasBand(q) /\ handed[q] = 0 /\ ~applications[q].code
  BY Pending DEF Reject
<1>2. PICK old \in Application, later \in Nat : old = applications[q] /\ later = day + DecisionTTL
  BY <1>1 DEF RegistrationInductive, RegistrationTyped, RegistrationAssumption
<1>. DEFINE row == [old EXCEPT !.status = "rejected", !.expires = later]
<1>3. row \in Application /\ row.status = "rejected" /\ row.code = old.code
  <2>1. row \in Application
    BY DEF Application
  <2>2. row.status = "rejected"
    BY DEF Application
  <2>3. row.code = old.code
    BY DEF Application
  <2>. QED
    BY <2>1, <2>2, <2>3
<1>4. applications' = [applications EXCEPT ![q] = row]
  BY <1>1, <1>2 DEF Reject
<1>. HIDE DEF row
<1>5. Done(c) /\ UNCHANGED <<founded, day, handed>> /\ call[c].stage = "locked"
  BY DEF Reject
<1>6. handed' \in [Applications -> Nat] /\ handed'[q] = 0 /\ \A p \in Applications \ {q} : handed'[p] = handed[p]
  BY <1>1, <1>5 DEF RegistrationInductive, RegistrationTyped
<1>7. ~row.code
  BY <1>1, <1>2, <1>3
<1>8. handed'[q] <= 1 /\ handed'[q] # 1
  BY <1>6
<1>9. row.status # "approved" /\ call[c].on = q
  BY <1>1, <1>3
<1>. QED
  BY <1>1, <1>3, <1>4, <1>5, <1>6, <1>7, <1>8, <1>9, RowClosed

LEMMA ClaimKeeps ==
  ASSUME RegistrationInductive, NEW c \in Calls, Claim(c)
  PROVE  RegistrationInductive'
<1>. DEFINE q == call[c].on
            row == [applications[q] EXCEPT !.claimed = TRUE, !.code = FALSE]
<1>1. q \in Applications /\ applications[q].code /\ call[c].stage = "locked"
  BY DEF Claim, RegistrationInductive, Locks
<1>2. applications[q].status = "approved" /\ HasBand(q) /\ handed[q] = 0 /\ applications[q] \in Application
  BY <1>1 DEF RegistrationInductive, RegistrationTyped, Standing
<1>3. applications' = [applications EXCEPT ![q] = row] /\ Done(c) /\ UNCHANGED <<founded, day>>
      /\ handed' = [handed EXCEPT ![q] = @ + 1]
  BY DEF Claim
<1>4. row \in Application /\ row.status = "approved" /\ ~row.code /\ row.claimed
  <2>1. row \in Application
    BY <1>2 DEF Application
  <2>2. row.status = "approved" /\ ~row.code
    BY <1>2 DEF Application
  <2>3. row.claimed
    BY <1>2 DEF Application
  <2>. QED
    BY <2>1, <2>2, <2>3
<1>5. handed' \in [Applications -> Nat] /\ handed'[q] = 1 /\ \A p \in Applications \ {q} : handed'[p] = handed[p]
  BY <1>1, <1>2, <1>3 DEF RegistrationInductive, RegistrationTyped
<1>. HIDE DEF row
<1>6. handed'[q] <= 1
  BY <1>5
<1>. QED
  BY <1>1, <1>2, <1>3, <1>4, <1>5, <1>6, RowClosed

-----------------------------------------------------------------------------
(* Expiry, which nothing keeps from a request that was decided meanwhile.   *)

LEMMA ExpireOneKeeps ==
  ASSUME RegistrationInductive, NEW c \in Calls, ExpireOne(c)
  PROVE  RegistrationInductive'
<1>. DEFINE q == call[c].on
            row == Closed(applications[q])
<1>1. q \in Applications /\ applications[q] \in Application /\ RowFree(c)
  BY DEF ExpireOne, RegistrationInductive, Locks, RegistrationTyped
<1>2. row \in Application /\ row.status = "expired" /\ ~row.code /\ row.claimed = applications[q].claimed
  BY <1>1, RowExpired
<1>3. applications' = [applications EXCEPT ![q] = row] /\ Done(c) /\ UNCHANGED <<founded, day, handed>>
  BY DEF ExpireOne
<1>. HIDE DEF row
<1>4. handed' \in [Applications -> Nat] /\ Standing(q)
  BY <1>1, <1>3 DEF RegistrationInductive, RegistrationTyped
<1>. QED
  BY <1>1, <1>2, <1>3, <1>4, RowClosed DEF Standing

LEMMA ExpireKeeps ==
  ASSUME RegistrationInductive, Expire
  PROVE  RegistrationInductive'
<1>1. UNCHANGED <<founded, call, day, handed>> /\ \A c \in Calls : call[c].stage # "locked"
  BY DEF Expire
<1>2. /\ applications' \in [Applications -> Application]
      /\ \A q \in Applications :
           \/ applications'[q] = applications[q]
           \/ /\ applications'[q].status = "expired" /\ ~applications'[q].code
              /\ applications'[q].claimed = applications[q].claimed
  BY RowExpired DEF Expire, RegistrationInductive, RegistrationTyped
<1>3. RegistrationTyped' /\ Slugged'
  BY <1>1, <1>2 DEF RegistrationInductive, RegistrationTyped, Slugged
<1>4. Locks'
  BY <1>1 DEF RegistrationInductive, Locks
<1>5. \A q \in Applications : Standing(q)'
  BY <1>1, <1>2 DEF RegistrationInductive, Standing, HasBand
<1>. QED
  BY <1>3, <1>4, <1>5 DEF RegistrationInductive

-----------------------------------------------------------------------------
LEMMA Initially ==
  ASSUME RegistrationInit
  PROVE  RegistrationInductive
<1>1. NoApplication \in Application /\ NoApplication.status = "none" /\ ~NoApplication.code
  BY BlankRequest
<1>2. IdleCall \in OneCall /\ IdleCall.stage = "idle"
  BY DEF IdleCall, OneCall
<1>3. RegistrationTyped /\ Slugged /\ Locks
  BY <1>1, <1>2 DEF RegistrationInit, RegistrationTyped, Slugged, Locks
<1>4. \A q \in Applications : Standing(q)
  BY <1>1 DEF RegistrationInit, Standing, HasBand
<1>. QED
  BY <1>3, <1>4 DEF RegistrationInductive

LEMMA StepKeeps ==
  ASSUME RegistrationAssumption, RegistrationInductive, [RegistrationNext]_registrationVars
  PROVE  RegistrationInductive'
<1>1. CASE UNCHANGED registrationVars
  BY <1>1 DEF registrationVars, RegistrationInductive, RegistrationTyped, Slugged, Locks, Standing, HasBand
<1>2. CASE NextDay
  <2>1. UNCHANGED <<applications, founded, call, handed>> /\ day' \in Nat
    BY <1>2 DEF NextDay, RegistrationInductive, RegistrationTyped
  <2>. QED
    BY <2>1 DEF RegistrationInductive, RegistrationTyped, Slugged, Locks, Standing, HasBand
<1>3. CASE Expire
  BY <1>3, ExpireKeeps
<1>4. ASSUME NEW q \in Applications, NEW slug \in Slugs, Apply(q, slug) PROVE RegistrationInductive'
  BY <1>4, ApplyKeeps
<1>5. ASSUME NEW c \in Calls,
             \/ \E op \in Operations, q \in Applications : Call(c, op, q)
             \/ LockRow(c) \/ Reject(c) \/ Claim(c) \/ GiveUp(c) \/ LookUp(c) \/ ExpireOne(c)
             \/ \E slug \in Slugs : Approve(c, slug)
      PROVE  RegistrationInductive'
  BY <1>5, CallsKeep, RejectKeeps, ClaimKeeps, ExpireOneKeeps, ApproveKeeps
<1>. QED
  BY <1>1, <1>2, <1>3, <1>4, <1>5 DEF RegistrationNext

LEMMA HandoverFollows ==
  ASSUME RegistrationInductive
  PROVE  Handover
BY DEF Handover, RegistrationInductive, Slugged, Standing, HasBand

\* However decisions, claims, status checks and expiry meet, a request founds at
\* most one band, no two bands share a slug, a rejected request founds none, and
\* Claim (registration.go) hands the setup code out at most once.
THEOREM HandedOverOnce == RegistrationSpec => []Handover
<1>1. RegistrationInit => RegistrationInductive
  BY Initially
<1>2. RegistrationInductive /\ [RegistrationNext]_registrationVars => RegistrationInductive'
  BY StepKeeps, RegistrationAssumption
<1>3. RegistrationInductive => Handover
  BY HandoverFollows
<1>. QED
  BY <1>1, <1>2, <1>3, PTL DEF RegistrationSpec

-----------------------------------------------------------------------------
(* Goods.                                                                   *)

ArticleRow == [exists : BOOLEAN, offered : BOOLEAN, priced : BOOLEAN]
VariantRow == [key : SUBSET OptionValues, active : BOOLEAN, offered : BOOLEAN, noReorder : BOOLEAN]
PurchaseRow == [receipt : Nat, variant : VariantIds, quantity : Nat, mode : {"unit", "basket"},
                cancelled : BOOLEAN]
OptionState == {"absent", "active", "inactive"}

GoodsTyped ==
  /\ article \in ArticleRow
  /\ groups \in [OptionGroups -> OptionState]
  /\ values \in [OptionValues -> OptionState]
  /\ variants \in Seq(VariantRow) /\ Len(variants) <= MaxVariants
  /\ purchased \in Seq(PurchaseRow)
  /\ sold \in [VariantIds -> Nat]

\* What is active is what the options make; without an article there is nothing.
Derived == \A i \in ActiveIds(variants) : variants[i].key \in ExpectedCombinations(groups, values)
Present == ~article.exists => variants = <<>>

GoodsInductive == GoodsTyped /\ Derived /\ Present

-----------------------------------------------------------------------------
(* Pieces and stock.                                                        *)

LEMMA SeqMade ==
  ASSUME NEW S, NEW n \in Nat, NEW f \in [1..n -> S]
  PROVE  f \in Seq(S) /\ Len(f) = n /\ DOMAIN f = 1..n
BY SeqDef

LEMMA PieceOf ==
  ASSUME NEW positions, NEW i, NEW x
  PROVE  x \in Pieces(positions, i) <=>
           \E p \in DOMAIN positions :
             /\ positions[p].variant = i /\ ~positions[p].cancelled
             /\ x \in {p} \X (1..positions[p].quantity)
BY DEF Pieces

LEMMA PiecesFinite ==
  ASSUME NEW positions \in Seq(PurchaseRow), NEW i
  PROVE  IsFiniteSet(Pieces(positions, i))
<1> DEFINE of == {q \in DOMAIN positions : positions[q].variant = i /\ ~positions[q].cancelled}
           f  == [p \in of |-> {p} \X (1..positions[p].quantity)]
           T  == {{p} \X (1..positions[p].quantity) : p \in of}
<1>1. DOMAIN positions = 1..Len(positions) /\ Len(positions) \in Nat
      /\ \A p \in DOMAIN positions : positions[p] \in PurchaseRow
  BY LenProperties
<1>2. IsFiniteSet(of)
  <2>1. IsFiniteSet(DOMAIN positions)
    BY <1>1, FS_Interval
  <2>. QED
    BY <2>1, FS_Subset
<1>3. f \in Surjection(of, T)
  BY DEF Surjection
<1>4. IsFiniteSet(T)
  <2> HIDE DEF T, f, of
  <2>. QED
    BY <1>2, <1>3, FS_Surjection
<1>5. ASSUME NEW p \in of PROVE IsFiniteSet({p} \X (1..positions[p].quantity))
  <2>1. positions[p].quantity \in Nat
    BY <1>1 DEF PurchaseRow
  <2>2. IsFiniteSet(1..positions[p].quantity)
    BY <2>1, FS_Interval
  <2>3. IsFiniteSet({p})
    BY FS_Singleton
  <2>. QED
    BY <2>2, <2>3, FS_Product
<1>6. \A t \in T : IsFiniteSet(t)
  BY <1>5
<1>7. Pieces(positions, i) = UNION T
  BY DEF Pieces
<1> HIDE DEF T
<1>. QED
  BY <1>4, <1>6, <1>7, FS_UNION

\* A variant whose positions stay what they are keeps its pieces.
LEMMA PiecesKept ==
  ASSUME NEW old, NEW new, NEW i, DOMAIN new = DOMAIN old,
         \A p \in DOMAIN old :
           old[p].variant = i \/ new[p].variant = i =>
             /\ new[p].variant = old[p].variant /\ new[p].quantity = old[p].quantity
             /\ new[p].cancelled = old[p].cancelled
  PROVE  Pieces(new, i) = Pieces(old, i)
<1>1. ASSUME NEW x PROVE x \in Pieces(new, i) <=> x \in Pieces(old, i)
  BY PieceOf
<1>. QED
  BY <1>1

\* A delivery adds to the stock.
LEMMA StockGrows ==
  ASSUME NEW old \in Seq(PurchaseRow), NEW more \in Seq(PurchaseRow), NEW i
  PROVE  /\ Cardinality(Pieces(old, i)) <= Cardinality(Pieces(old \o more, i))
         /\ Cardinality(Pieces(old, i)) \in Nat /\ Cardinality(Pieces(old \o more, i)) \in Nat
<1>1. /\ old \o more \in Seq(PurchaseRow) /\ DOMAIN old = 1..Len(old)
      /\ DOMAIN (old \o more) = 1..(Len(old) + Len(more))
      /\ Len(old) \in Nat /\ Len(more) \in Nat
      /\ \A p \in DOMAIN old : (old \o more)[p] = old[p]
  <2>1. /\ Len(old) \in Nat /\ Len(more) \in Nat /\ DOMAIN old = 1..Len(old)
    BY LenProperties
  <2>2. /\ old \o more \in Seq(PurchaseRow) /\ Len(old \o more) = Len(old) + Len(more)
        /\ \A p \in 1..Len(old) + Len(more) :
             (old \o more)[p] = IF p <= Len(old) THEN old[p] ELSE more[p - Len(old)]
    BY ConcatProperties
  <2>3. DOMAIN (old \o more) = 1..Len(old \o more)
    BY <2>2, LenProperties
  <2>. QED
    BY <2>1, <2>2, <2>3
<1>2. Pieces(old, i) \subseteq Pieces(old \o more, i)
  <2>1. ASSUME NEW x, x \in Pieces(old, i) PROVE x \in Pieces(old \o more, i)
    <3>1. PICK p \in DOMAIN old : /\ old[p].variant = i /\ ~old[p].cancelled
                                  /\ x \in {p} \X (1..old[p].quantity)
      BY <2>1, PieceOf
    <3>2. p \in DOMAIN (old \o more) /\ (old \o more)[p] = old[p]
      BY <1>1, <3>1
    <3> HIDE DEF Pieces
    <3>3. \E q \in DOMAIN (old \o more) :
            /\ (old \o more)[q].variant = i /\ ~(old \o more)[q].cancelled
            /\ x \in {q} \X (1..(old \o more)[q].quantity)
      BY <3>1, <3>2
    <3>. QED
      BY <3>3, PieceOf
  <2>. QED
    BY <2>1
<1>3. IsFiniteSet(Pieces(old, i)) /\ IsFiniteSet(Pieces(old \o more, i))
  BY <1>1, PiecesFinite
<1>. QED
  BY <1>2, <1>3, FS_Subset, FS_CardinalityType

-----------------------------------------------------------------------------
(* The withdrawal.                                                          *)

\* A withdrawal takes what is exhausted of these variants out of the assortment and
\* changes nothing else of them, and the article goes with the last.
LEMMA Withdrawal ==
  ASSUME NEW vs \in Seq(VariantRow), Len(vs) <= MaxVariants, NEW art \in ArticleRow,
         NEW ids, NEW positions, NEW sales, Withdraw(vs, art, ids, positions, sales)
  PROVE  /\ variants' \in Seq(VariantRow) /\ Len(variants') <= MaxVariants
         /\ DOMAIN variants' = DOMAIN vs /\ Len(variants') = Len(vs)
         /\ ActiveIds(variants') = ActiveIds(vs)
         /\ \A i \in DOMAIN vs :
              /\ variants'[i].key = vs[i].key /\ variants'[i].noReorder = vs[i].noReorder
              /\ vs[i].active = variants'[i].active
              /\ variants'[i].offered => vs[i].offered
              /\ i \in ids \cap ActiveIds(vs) /\ Exhausted(vs[i], Stock(positions, sales)[i])
                   => ~variants'[i].offered
         /\ article' \in ArticleRow /\ article'.exists = art.exists
         /\ article'.offered => art.offered
         /\ ids \cap ActiveIds(vs) # {} /\ (\A i \in ActiveIds(vs) : Exhausted(vs[i], Stock(positions, sales)[i]))
              => ~article'.offered
<1> DEFINE stock   == Stock(positions, sales)
           result  == AutoWithdrawDepleted(vs, art, ids, stock)
           gone(i) == i \in ids \cap ActiveIds(vs) /\ Exhausted(vs[i], stock[i])
<1>1. /\ variants' = [i \in DOMAIN vs |-> IF gone(i) THEN [vs[i] EXCEPT !.offered = FALSE] ELSE vs[i]]
      /\ article' = IF ids \cap ActiveIds(vs) # {} /\ \A i \in ActiveIds(vs) : Exhausted(vs[i], stock[i])
                    THEN [art EXCEPT !.offered = FALSE] ELSE art
  BY DEF Withdraw, AutoWithdrawDepleted
<1>2. /\ Len(vs) \in Nat /\ DOMAIN vs = 1..Len(vs) /\ \A i \in DOMAIN vs : vs[i] \in VariantRow
  BY LenProperties
<1> HIDE DEF stock, gone
<1>3. ASSUME NEW i \in DOMAIN vs
      PROVE  /\ variants'[i] \in VariantRow
             /\ variants'[i].key = vs[i].key /\ variants'[i].noReorder = vs[i].noReorder
             /\ vs[i].active = variants'[i].active
             /\ variants'[i].offered => vs[i].offered
             /\ gone(i) => ~variants'[i].offered
  <2>1. vs[i] \in VariantRow
    BY <1>2
  <2>2. CASE gone(i)
    <3>1. variants'[i] = [vs[i] EXCEPT !.offered = FALSE]
      BY <1>1, <2>2
    <3>. QED
      BY <2>1, <3>1 DEF VariantRow
  <2>3. CASE ~gone(i)
    <3>1. variants'[i] = vs[i]
      BY <1>1, <2>3
    <3>. QED
      BY <2>1, <2>3, <3>1
  <2>. QED
    BY <2>2, <2>3
<1>4. variants' \in [1..Len(vs) -> VariantRow]
  BY <1>1, <1>2, <1>3
<1>5. variants' \in Seq(VariantRow) /\ Len(variants') = Len(vs) /\ DOMAIN variants' = DOMAIN vs
  BY <1>2, <1>4, SeqMade
<1>6. ActiveIds(variants') = ActiveIds(vs)
  BY <1>3, <1>5 DEF ActiveIds
<1>7. /\ article' \in ArticleRow /\ article'.exists = art.exists
      /\ article'.offered => art.offered
      /\ ids \cap ActiveIds(vs) # {} /\ (\A i \in ActiveIds(vs) : Exhausted(vs[i], stock[i]))
           => ~article'.offered
  BY <1>1 DEF ArticleRow
<1>. QED
  BY <1>3, <1>5, <1>6, <1>7 DEF gone, stock

\* A save that withdraws from the whole grid leaves nothing depleted on offer.
LEMMA GridWithdrawn ==
  ASSUME NEW vs \in Seq(VariantRow), Len(vs) <= MaxVariants, NEW art \in ArticleRow,
         Withdraw(vs, art, DOMAIN vs, purchased, sold), UNCHANGED <<purchased, sold>>
  PROVE  DepletedNotOffered'
<1>1. ActiveIds(vs) \subseteq DOMAIN vs
  BY DEF ActiveIds
<1>2. \A i : OnHand(i)' = Stock(purchased, sold)[i]
  BY DEF OnHand
<1>3. /\ ActiveIds(variants') = ActiveIds(vs)
      /\ \A i \in DOMAIN vs :
           /\ variants'[i].noReorder = vs[i].noReorder
           /\ i \in DOMAIN vs \cap ActiveIds(vs) /\ Exhausted(vs[i], Stock(purchased, sold)[i])
                => ~variants'[i].offered
      /\ DOMAIN vs \cap ActiveIds(vs) # {}
           /\ (\A i \in ActiveIds(vs) : Exhausted(vs[i], Stock(purchased, sold)[i]))
           => ~article'.offered
  BY Withdrawal
<1>4. \A i \in ActiveIds(vs) : Exhausted(variants'[i], OnHand(i)') <=> Exhausted(vs[i], Stock(purchased, sold)[i])
  BY <1>1, <1>2, <1>3 DEF Exhausted
<1>5. \A i \in ActiveIds(variants') : Exhausted(variants[i], OnHand(i))' => ~variants'[i].offered
  BY <1>1, <1>3, <1>4 DEF Exhausted
<1>6. ActiveIds(variants') # {} /\ (\A i \in ActiveIds(variants') : Exhausted(variants'[i], OnHand(i)'))
        => ~article'.offered
  BY <1>1, <1>3, <1>4
<1> HIDE DEF OnHand
<1>. QED
  BY <1>5, <1>6 DEF DepletedNotOffered, Exhausted

\* A correction withdraws from the variants it touches; of the others nothing is lost.
LEMMA ShelfWithdrawn ==
  ASSUME GoodsTyped, DepletedNotOffered, NEW ids, NEW positions, NEW sales,
         Withdraw(variants, article, ids, positions, sales), purchased' = positions, sold' = sales,
         \A i \in ActiveIds(variants) \ ids : Stock(positions, sales)[i] <= 0 => OnHand(i) <= 0
  PROVE  DepletedNotOffered'
<1>1. ActiveIds(variants) \subseteq DOMAIN variants
  BY DEF ActiveIds
<1>2. \A i : OnHand(i)' = Stock(positions, sales)[i]
  BY DEF OnHand
<1>3. /\ ActiveIds(variants') = ActiveIds(variants)
      /\ \A i \in DOMAIN variants :
           /\ variants'[i].noReorder = variants[i].noReorder
           /\ variants'[i].offered => variants[i].offered
           /\ i \in ids \cap ActiveIds(variants) /\ Exhausted(variants[i], Stock(positions, sales)[i])
                => ~variants'[i].offered
      /\ article'.offered => article.offered
      /\ ids \cap ActiveIds(variants) # {}
           /\ (\A i \in ActiveIds(variants) : Exhausted(variants[i], Stock(positions, sales)[i]))
           => ~article'.offered
  BY Withdrawal DEF GoodsTyped
<1>4. \A i \in ActiveIds(variants) :
        Exhausted(variants'[i], OnHand(i)') <=> Exhausted(variants[i], Stock(positions, sales)[i])
  BY <1>1, <1>2, <1>3 DEF Exhausted
<1>5. \A i \in ActiveIds(variants) \ ids :
        Exhausted(variants[i], Stock(positions, sales)[i]) => Exhausted(variants[i], OnHand(i))
  BY DEF Exhausted
<1>6. \A i \in ActiveIds(variants) : Exhausted(variants'[i], OnHand(i)') => ~variants'[i].offered
  BY <1>1, <1>3, <1>4, <1>5 DEF DepletedNotOffered
<1>7. ActiveIds(variants) # {} /\ (\A i \in ActiveIds(variants) : Exhausted(variants'[i], OnHand(i)'))
        => ~article'.offered
  <2>1. CASE ids \cap ActiveIds(variants) # {}
    BY <1>3, <1>4, <2>1
  <2>2. CASE ids \cap ActiveIds(variants) = {}
    <3>1. \A i \in ActiveIds(variants) : i \in ActiveIds(variants) \ ids
      BY <2>2
    <3>. QED
      BY <1>3, <1>4, <1>5, <3>1 DEF DepletedNotOffered
  <2>. QED
    BY <2>1, <2>2
<1> HIDE DEF OnHand
<1>. QED
  BY <1>3, <1>6, <1>7 DEF DepletedNotOffered

-----------------------------------------------------------------------------
(* The grid.                                                                *)

LEMMA CombinationsFinite ==
  ASSUME NEW gs \in [OptionGroups -> OptionState], NEW vals \in [OptionValues -> OptionState]
  PROVE  ExpectedCombinations(gs, vals) \subseteq SUBSET OptionValues /\ IsFiniteSet(ExpectedCombinations(gs, vals))
<1>1. ExpectedCombinations(gs, vals) \subseteq SUBSET OptionValues
  <2>1. ASSUME NEW key \in ExpectedCombinations(gs, vals) PROVE key \subseteq OptionValues
    <3>1. PICK f \in [ActiveRows(gs) -> ActiveRows(vals)] : key = {f[g] : g \in ActiveRows(gs)}
      BY DEF ExpectedCombinations
    <3>. QED
      BY <3>1 DEF ActiveRows
  <2>. QED
    BY <2>1
<1>2. IsFiniteSet(SUBSET OptionValues)
  BY CatalogueAssumption, FS_SUBSET
<1>. QED
  BY <1>1, <1>2, FS_Subset

\* The rows that are missing are made for combinations that are expected.
LEMMA MissingRows ==
  ASSUME NEW S, IsFiniteSet(S), S \subseteq SUBSET OptionValues
  PROVE  LET rows == [n \in 1..Cardinality(S) |-> Variant(SetToSeq(S)[n])]
         IN  /\ rows \in Seq(VariantRow)
             /\ \A n \in 1..Len(rows) : rows[n].key \in S /\ ~rows[n].noReorder
<1> DEFINE rows == [n \in 1..Cardinality(S) |-> Variant(SetToSeq(S)[n])]
<1>1. Cardinality(S) \in Nat /\ \E f \in [1..Cardinality(S) -> S] : IsInjective(f)
  BY FS_CardinalityType DEF ExistsBijection, Bijection, Injection
<1>2. SetToSeq(S) \in [1..Cardinality(S) -> S]
  BY <1>1 DEF SetToSeq
<1>3. ASSUME NEW n \in 1..Cardinality(S)
      PROVE  rows[n] \in VariantRow /\ rows[n].key \in S /\ ~rows[n].noReorder
  <2>1. SetToSeq(S)[n] \in S
    BY <1>2
  <2>2. rows[n] = Variant(SetToSeq(S)[n])
    OBVIOUS
  <2> HIDE DEF rows
  <2>. QED
    BY <2>1, <2>2 DEF Variant, VariantRow
<1>4. rows \in [1..Cardinality(S) -> VariantRow]
  BY <1>3
<1>5. rows \in Seq(VariantRow) /\ Len(rows) = Cardinality(S)
  <2> HIDE DEF rows
  <2>. QED
    BY <1>1, <1>4, SeqMade
<1>. QED
  BY <1>3, <1>5

\* Every row stays in its place, and is active if it belongs to the grid.
LEMMA GridRows ==
  ASSUME NEW gs \in [OptionGroups -> OptionState], NEW vals \in [OptionValues -> OptionState],
         NEW vs \in Seq(VariantRow)
  PROVE  LET grid == SyncVariants(gs, vals, vs)
         IN  /\ grid \in Seq(VariantRow) /\ DOMAIN vs \subseteq DOMAIN grid
             /\ \A i \in DOMAIN vs :
                  /\ grid[i].key = vs[i].key
                  /\ grid[i].active = (vs[i].key \in ExpectedCombinations(gs, vals))
             /\ \A i \in ActiveIds(grid) : grid[i].key \in ExpectedCombinations(gs, vals)
             /\ vs = <<>> => \A i \in DOMAIN grid : ~grid[i].noReorder
<1> DEFINE expected == ExpectedCombinations(gs, vals)
           missing  == expected \ {vs[i].key : i \in DOMAIN vs}
           old      == [i \in DOMAIN vs |-> [vs[i] EXCEPT !.active = vs[i].key \in expected]]
           new      == [n \in 1..Cardinality(missing) |-> Variant(SetToSeq(missing)[n])]
           grid     == SyncVariants(gs, vals, vs)
<1>1. grid = old \o new
  BY DEF SyncVariants
<1>2. /\ Len(vs) \in Nat /\ DOMAIN vs = 1..Len(vs) /\ \A i \in DOMAIN vs : vs[i] \in VariantRow
  BY LenProperties
<1>3. expected \subseteq SUBSET OptionValues /\ IsFiniteSet(expected)
  BY CombinationsFinite
<1>4. missing \subseteq SUBSET OptionValues /\ IsFiniteSet(missing) /\ missing \subseteq expected
  <2> HIDE DEF expected
  <2>. QED
    BY <1>3, FS_Difference
<1>5. ASSUME NEW i \in DOMAIN vs
      PROVE  /\ old[i] \in VariantRow /\ old[i].key = vs[i].key
             /\ old[i].active = (vs[i].key \in expected)
  <2> DEFINE b == vs[i].key \in expected
  <2>1. old[i] = [vs[i] EXCEPT !.active = b] /\ b \in BOOLEAN
    OBVIOUS
  <2> HIDE DEF b, old
  <2>2. old[i] \in VariantRow /\ old[i].key = vs[i].key /\ old[i].active = b
    BY <1>2, <2>1 DEF VariantRow
  <2>. QED
    BY <2>2 DEF b
<1> HIDE DEF expected, missing
<1>6. old \in [1..Len(vs) -> VariantRow]
  BY <1>2, <1>5
<1>7. old \in Seq(VariantRow) /\ Len(old) = Len(vs)
  <2> HIDE DEF old
  <2>. QED
    BY <1>2, <1>6, SeqMade
<1>8. new \in Seq(VariantRow) /\ \A n \in 1..Len(new) : new[n].key \in missing /\ ~new[n].noReorder
  BY <1>4, MissingRows
<1> HIDE DEF old, new
<1>9. Len(new) \in Nat
  BY <1>8, LenProperties
<1>10. /\ old \o new \in Seq(VariantRow) /\ Len(old \o new) = Len(vs) + Len(new)
       /\ \A i \in 1..(Len(vs) + Len(new)) :
            (old \o new)[i] = IF i <= Len(vs) THEN old[i] ELSE new[i - Len(vs)]
  <2>1. /\ Len(old \o new) = Len(old) + Len(new)
        /\ \A i \in 1..(Len(old) + Len(new)) :
             (old \o new)[i] = IF i <= Len(old) THEN old[i] ELSE new[i - Len(old)]
    BY <1>7, <1>8, ConcatProperties
  <2>2. old \o new \in Seq(VariantRow)
    BY <1>7, <1>8, ConcatProperties
  <2>. QED
    BY <1>7, <2>1, <2>2
<1>11. DOMAIN (old \o new) = 1..(Len(vs) + Len(new))
  BY <1>10, LenProperties
<1>12. \A i \in DOMAIN vs : i \in DOMAIN grid /\ grid[i] = old[i]
  BY <1>1, <1>2, <1>9, <1>10, <1>11
<1>13. ASSUME NEW i \in DOMAIN grid, i \notin DOMAIN vs
       PROVE  grid[i].key \in expected /\ ~grid[i].noReorder
  <2>1. i - Len(vs) \in 1..Len(new) /\ grid[i] = new[i - Len(vs)]
    BY <1>1, <1>2, <1>9, <1>10, <1>11, <1>13
  <2>. QED
    BY <1>4, <1>8, <2>1
<1>14. grid \in Seq(VariantRow) /\ DOMAIN vs \subseteq DOMAIN grid
  BY <1>1, <1>10, <1>12
<1> HIDE DEF grid
<1>15. \A i \in DOMAIN vs : grid[i].key = vs[i].key /\ grid[i].active = (vs[i].key \in expected)
  BY <1>5, <1>12
<1>16. \A i \in ActiveIds(grid) : grid[i].key \in expected
  BY <1>13, <1>15 DEF ActiveIds
<1>17. vs = <<>> => \A i \in DOMAIN grid : ~grid[i].noReorder
  <2>1. vs = <<>> => DOMAIN vs = {}
    OBVIOUS
  <2>. QED
    BY <1>13, <2>1
<1>. QED
  BY <1>14, <1>15, <1>16, <1>17 DEF grid, expected

LEMMA Preserved ==
  ASSUME NEW firstValues \in SUBSET OptionValues, variants \in Seq(VariantRow)
  PROVE  LET vs == Preserve(variants, firstValues)
         IN  /\ vs \in Seq(VariantRow) /\ DOMAIN vs = DOMAIN variants
             /\ \A i \in DOMAIN variants :
                  vs[i].key = IF variants[i].active THEN variants[i].key \cup firstValues ELSE variants[i].key
<1> DEFINE vs == Preserve(variants, firstValues)
<1>1. /\ Len(variants) \in Nat /\ DOMAIN variants = 1..Len(variants)
      /\ \A i \in DOMAIN variants : variants[i] \in VariantRow
  BY LenProperties
<1>2. ASSUME NEW i \in DOMAIN variants
      PROVE  /\ vs[i] \in VariantRow
             /\ vs[i].key = IF variants[i].active THEN variants[i].key \cup firstValues ELSE variants[i].key
  <2>1. vs[i] = IF variants[i].active THEN [variants[i] EXCEPT !.key = @ \cup firstValues] ELSE variants[i]
    BY DEF Preserve
  <2>2. variants[i] \in VariantRow
    BY <1>1
  <2> HIDE DEF vs
  <2>. QED
    BY <2>1, <2>2 DEF VariantRow
<1>3. vs \in [1..Len(variants) -> VariantRow]
  BY <1>1, <1>2 DEF Preserve
<1> HIDE DEF vs
<1>4. vs \in Seq(VariantRow) /\ DOMAIN vs = DOMAIN variants
  BY <1>1, <1>3, SeqMade
<1>. QED
  BY <1>2, <1>4 DEF vs

-----------------------------------------------------------------------------
(* The catalogue's operations.                                              *)

\* A grid that was derived from the options is saved with them.
LEMMA Configured ==
  ASSUME GoodsInductive, NEW gs \in [OptionGroups -> OptionState], NEW vals \in [OptionValues -> OptionState],
         NEW grid \in Seq(VariantRow), NEW art \in ArticleRow, art.exists,
         \A i \in ActiveIds(grid) : grid[i].key \in ExpectedCombinations(gs, vals),
         Configure(gs, vals, grid, art)
  PROVE  /\ GoodsInductive' /\ DepletedNotOffered'
         /\ DOMAIN variants' = DOMAIN grid /\ ActiveIds(variants') = ActiveIds(grid)
<1>1. /\ Len(grid) <= MaxVariants /\ groups' = gs /\ values' = vals
      /\ Withdraw(grid, art, DOMAIN grid, purchased, sold) /\ UNCHANGED <<purchased, sold>>
  BY DEF Configure
<1>2. /\ variants' \in Seq(VariantRow) /\ Len(variants') <= MaxVariants
      /\ DOMAIN variants' = DOMAIN grid /\ ActiveIds(variants') = ActiveIds(grid)
      /\ \A i \in DOMAIN grid : variants'[i].key = grid[i].key
      /\ article' \in ArticleRow /\ article'.exists
  BY <1>1, Withdrawal
<1>3. DepletedNotOffered'
  BY <1>1, GridWithdrawn
<1>4. GoodsTyped'
  BY <1>1, <1>2 DEF GoodsInductive, GoodsTyped
<1>5. Derived'
  BY <1>1, <1>2 DEF Derived, ActiveIds
<1>6. Present'
  BY <1>2 DEF Present
<1>. QED
  BY <1>2, <1>3, <1>4, <1>5, <1>6 DEF GoodsInductive

LEMMA CreateArticleKeeps ==
  ASSUME GoodsInductive, NEW priced \in BOOLEAN, NEW deferred \in BOOLEAN,
         CreateArticle(priced, deferred)
  PROVE  GoodsInductive' /\ DepletedNotOffered'
<1> DEFINE gs   == [g \in OptionGroups |->
                      IF \E v \in DefaultValues : GroupOf[v] = g THEN "active" ELSE "absent"]
           vals == [v \in OptionValues |-> IF v \in DefaultValues THEN "active" ELSE "absent"]
           grid == SyncVariants(gs, vals, <<>>)
<1>1. gs \in [OptionGroups -> OptionState] /\ vals \in [OptionValues -> OptionState]
  BY DEF OptionState
<1>2. /\ article' = [exists |-> TRUE, offered |-> TRUE, priced |-> priced \/ ~deferred]
      /\ groups' = gs /\ values' = vals /\ Len(grid) <= MaxVariants
      /\ variants' = IF deferred THEN <<>> ELSE grid
      /\ UNCHANGED <<purchased, sold>>
  BY DEF CreateArticle
<1> HIDE DEF gs, vals
<1>3. /\ grid \in Seq(VariantRow)
      /\ \A i \in ActiveIds(grid) : grid[i].key \in ExpectedCombinations(gs, vals)
      /\ \A i \in DOMAIN grid : ~grid[i].noReorder
  BY <1>1, GridRows, EmptySeq
<1> HIDE DEF grid
<1>4. <<>> \in Seq(VariantRow) /\ Len(<<>>) = 0 /\ DOMAIN <<>> = {} /\ ActiveIds(<<>>) = {}
  BY EmptySeq DEF ActiveIds
<1>5. /\ variants' \in Seq(VariantRow) /\ Len(variants') <= MaxVariants
      /\ \A i \in ActiveIds(variants') : variants'[i].key \in ExpectedCombinations(gs, vals)
      /\ \A i \in ActiveIds(variants') : ~variants'[i].noReorder
  <2>1. CASE deferred
    BY <1>2, <1>4, <2>1, PurchasesAssumption, CatalogueAssumption
  <2>2. CASE ~deferred
    BY <1>2, <1>3, <2>2 DEF ActiveIds
  <2>. QED
    BY <2>1, <2>2
<1>6. article' \in ArticleRow /\ article'.exists
  <2>1. (priced \/ ~deferred) \in BOOLEAN
    OBVIOUS
  <2>2. ASSUME NEW b \in BOOLEAN
        PROVE  /\ [exists |-> TRUE, offered |-> TRUE, priced |-> b] \in ArticleRow
               /\ [exists |-> TRUE, offered |-> TRUE, priced |-> b].exists
    BY DEF ArticleRow
  <2>. QED
    BY <1>2, <2>1, <2>2
<1>7. DepletedNotOffered'
  BY <1>5 DEF DepletedNotOffered, Exhausted
<1>. QED
  BY <1>1, <1>2, <1>5, <1>6, <1>7 DEF GoodsInductive, GoodsTyped, Derived, Present

LEMMA GridDerived ==
  ASSUME GoodsInductive, NEW firstValues \in SUBSET OptionValues,
         NEW gs \in [OptionGroups -> OptionState], NEW vals \in [OptionValues -> OptionState]
  PROVE  LET grid == Grid(gs, vals, firstValues)
         IN  /\ grid \in Seq(VariantRow) /\ DOMAIN variants \subseteq DOMAIN grid
             /\ \A i \in ActiveIds(grid) : grid[i].key \in ExpectedCombinations(gs, vals)
             /\ \A i \in ActiveIds(variants) :
                  variants[i].key \cup firstValues \in ExpectedCombinations(gs, vals) => grid[i].active
<1> DEFINE vs == Preserve(variants, firstValues)
<1>1. /\ vs \in Seq(VariantRow) /\ DOMAIN vs = DOMAIN variants
      /\ \A i \in DOMAIN variants :
           vs[i].key = IF variants[i].active THEN variants[i].key \cup firstValues ELSE variants[i].key
  BY Preserved DEF GoodsInductive, GoodsTyped
<1>2. Grid(gs, vals, firstValues) = SyncVariants(gs, vals, vs)
  BY DEF Grid
<1> HIDE DEF vs
<1>3. LET grid == SyncVariants(gs, vals, vs)
      IN  /\ grid \in Seq(VariantRow) /\ DOMAIN vs \subseteq DOMAIN grid
          /\ \A i \in DOMAIN vs :
               /\ grid[i].key = vs[i].key
               /\ grid[i].active = (vs[i].key \in ExpectedCombinations(gs, vals))
          /\ \A i \in ActiveIds(grid) : grid[i].key \in ExpectedCombinations(gs, vals)
  BY <1>1, GridRows
<1>. QED
  BY <1>1, <1>2, <1>3 DEF ActiveIds

\* The options after a save of these values.
Named(sent) == {GroupOf[v] : v \in sent}
GroupsAfter(sent) ==
  [g \in OptionGroups |-> IF g \in Named(sent) THEN "active"
                          ELSE IF groups[g] = "active" THEN "inactive" ELSE groups[g]]
ValuesAfter(sent) ==
  [v \in OptionValues |-> IF v \in sent THEN "active"
                          ELSE IF values[v] = "active" /\ GroupOf[v] \in Named(sent)
                               THEN "inactive" ELSE values[v]]

LEMMA OptionsSaved ==
  ASSUME GoodsInductive, NEW sent \in SUBSET OptionValues, SaveOptions(sent)
  PROVE  \E firstValues \in FirstValues(sent) :
           LET grid == Grid(GroupsAfter(sent), ValuesAfter(sent), firstValues)
           IN  /\ GoodsInductive' /\ DepletedNotOffered'
               /\ GroupsAfter(sent) \in [OptionGroups -> OptionState]
               /\ ValuesAfter(sent) \in [OptionValues -> OptionState]
               /\ firstValues \in SUBSET OptionValues
               /\ DOMAIN variants' = DOMAIN grid /\ ActiveIds(variants') = ActiveIds(grid)
<1>1. PICK firstValues \in FirstValues(sent) :
        Configure(GroupsAfter(sent), ValuesAfter(sent),
                  Grid(GroupsAfter(sent), ValuesAfter(sent), firstValues), [article EXCEPT !.priced = TRUE])
  BY DEF SaveOptions, GroupsAfter, ValuesAfter, Named
<1>2. /\ GroupsAfter(sent) \in [OptionGroups -> OptionState]
      /\ ValuesAfter(sent) \in [OptionValues -> OptionState]
  BY DEF GoodsInductive, GoodsTyped, OptionState, GroupsAfter, ValuesAfter
<1>3. firstValues \in SUBSET OptionValues
  BY DEF FirstValues
<1> DEFINE grid == Grid(GroupsAfter(sent), ValuesAfter(sent), firstValues)
<1>4. /\ grid \in Seq(VariantRow)
      /\ \A i \in ActiveIds(grid) :
           grid[i].key \in ExpectedCombinations(GroupsAfter(sent), ValuesAfter(sent))
  BY <1>2, <1>3, GridDerived
<1>5. [article EXCEPT !.priced = TRUE] \in ArticleRow /\ [article EXCEPT !.priced = TRUE].exists
  BY DEF SaveOptions, GoodsInductive, GoodsTyped, ArticleRow
<1> HIDE DEF grid
<1>6. /\ GoodsInductive' /\ DepletedNotOffered'
      /\ DOMAIN variants' = DOMAIN grid /\ ActiveIds(variants') = ActiveIds(grid)
  BY <1>1, <1>2, <1>4, <1>5, Configured DEF grid
<1>. QED
  BY <1>2, <1>3, <1>6 DEF grid

\* A page that leaves the options alone derives the rows that were active before.
LEMMA SameOptions ==
  ASSUME GoodsInductive
  PROVE  LET grid == Grid(groups, values, {})
         IN  /\ groups \in [OptionGroups -> OptionState] /\ values \in [OptionValues -> OptionState]
             /\ grid \in Seq(VariantRow) /\ DOMAIN variants \subseteq DOMAIN grid
             /\ \A i \in ActiveIds(grid) : grid[i].key \in ExpectedCombinations(groups, values)
             /\ ActiveIds(variants) \subseteq ActiveIds(grid)
<1> DEFINE grid == Grid(groups, values, {})
<1>1. groups \in [OptionGroups -> OptionState] /\ values \in [OptionValues -> OptionState]
  BY DEF GoodsInductive, GoodsTyped
<1>2. /\ grid \in Seq(VariantRow) /\ DOMAIN variants \subseteq DOMAIN grid
      /\ \A i \in ActiveIds(grid) : grid[i].key \in ExpectedCombinations(groups, values)
      /\ \A i \in ActiveIds(variants) :
           variants[i].key \cup {} \in ExpectedCombinations(groups, values) => grid[i].active
  BY <1>1, GridDerived
<1> HIDE DEF grid
<1>3. \A i \in ActiveIds(variants) : grid[i].active /\ i \in DOMAIN grid
  <2>. SUFFICES ASSUME NEW i \in ActiveIds(variants) PROVE grid[i].active /\ i \in DOMAIN grid
    OBVIOUS
  <2>1. variants[i].key \in ExpectedCombinations(groups, values) /\ i \in DOMAIN variants
    BY DEF GoodsInductive, Derived, ActiveIds
  <2>2. variants[i].key \cup {} = variants[i].key
    OBVIOUS
  <2>. QED
    BY <1>2, <2>1, <2>2
<1>. QED
  BY <1>1, <1>2, <1>3 DEF ActiveIds, grid

LEMMA VariantSaved ==
  ASSUME GoodsInductive, NEW i \in VariantIds, NEW offered \in BOOLEAN, NEW noReorder \in BOOLEAN,
         SaveVariant(i, offered, noReorder)
  PROVE  /\ GoodsInductive' /\ DepletedNotOffered'
         /\ DOMAIN variants \subseteq DOMAIN variants' /\ ActiveIds(variants) \subseteq ActiveIds(variants')
<1> DEFINE grid == Grid(groups, values, {})
           page == [grid EXCEPT ![i].offered = offered, ![i].noReorder = noReorder]
<1>1. /\ groups \in [OptionGroups -> OptionState] /\ values \in [OptionValues -> OptionState]
      /\ grid \in Seq(VariantRow) /\ DOMAIN variants \subseteq DOMAIN grid
      /\ \A j \in ActiveIds(grid) : grid[j].key \in ExpectedCombinations(groups, values)
      /\ ActiveIds(variants) \subseteq ActiveIds(grid)
  BY SameOptions
<1>2. i \in DOMAIN variants /\ Configure(groups, values, page, article)
  BY DEF SaveVariant
<1> HIDE DEF grid
<1>3. Len(grid) \in Nat /\ DOMAIN grid = 1..Len(grid) /\ \A j \in DOMAIN grid : grid[j] \in VariantRow
  BY <1>1, LenProperties
<1>4. ASSUME NEW j \in DOMAIN grid
      PROVE  page[j] \in VariantRow /\ page[j].key = grid[j].key /\ page[j].active = grid[j].active
  <2>1. CASE j = i
    <3>1. page[j] = [grid[j] EXCEPT !.offered = offered, !.noReorder = noReorder]
      BY <2>1
    <3> HIDE DEF page
    <3>. QED
      BY <1>3, <3>1 DEF VariantRow
  <2>2. CASE j # i
    BY <1>3, <2>2
  <2>. QED
    BY <2>1, <2>2
<1>5. page \in [1..Len(grid) -> VariantRow]
  BY <1>3, <1>4
<1> HIDE DEF page
<1>6. page \in Seq(VariantRow) /\ DOMAIN page = DOMAIN grid
  BY <1>3, <1>5, SeqMade
<1>7. ActiveIds(page) = ActiveIds(grid) /\ \A j \in ActiveIds(page) : page[j].key \in ExpectedCombinations(groups, values)
  BY <1>1, <1>4, <1>6 DEF ActiveIds
<1>8. article \in ArticleRow /\ article.exists
  BY <1>2 DEF GoodsInductive, GoodsTyped, Present
<1>. QED
  BY <1>1, <1>2, <1>6, <1>7, <1>8, Configured

LEMMA ArticleSaved ==
  ASSUME GoodsInductive, NEW offered \in BOOLEAN, SaveArticle(offered)
  PROVE  /\ GoodsInductive' /\ DepletedNotOffered'
         /\ DOMAIN variants \subseteq DOMAIN variants' /\ ActiveIds(variants) \subseteq ActiveIds(variants')
<1> DEFINE grid == Grid(groups, values, {})
           art  == [article EXCEPT !.offered = offered]
<1>1. /\ groups \in [OptionGroups -> OptionState] /\ values \in [OptionValues -> OptionState]
      /\ grid \in Seq(VariantRow) /\ DOMAIN variants \subseteq DOMAIN grid
      /\ \A j \in ActiveIds(grid) : grid[j].key \in ExpectedCombinations(groups, values)
      /\ ActiveIds(variants) \subseteq ActiveIds(grid)
  BY SameOptions
<1>2. article.exists /\ Configure(groups, values, grid, art)
  BY DEF SaveArticle
<1>3. art \in ArticleRow /\ art.exists
  BY <1>2 DEF GoodsInductive, GoodsTyped, ArticleRow
<1> HIDE DEF grid, art
<1>. QED
  BY <1>1, <1>2, <1>3, Configured

LEMMA DraftDeleted ==
  ASSUME GoodsInductive, DeleteIncomplete
  PROVE  /\ GoodsInductive' /\ DepletedNotOffered'
         /\ \A i \in DOMAIN variants : OnHand(i) = 0
<1>1. <<>> \in Seq(VariantRow) /\ Len(<<>>) = 0 /\ ActiveIds(<<>>) = {}
  BY EmptySeq DEF ActiveIds
<1>2. NoArticle \in ArticleRow
  BY DEF NoArticle, ArticleRow
<1>3. GoodsInductive'
  BY <1>1, <1>2, PurchasesAssumption, CatalogueAssumption
     DEF DeleteIncomplete, GoodsInductive, GoodsTyped, Derived, Present, OptionState
<1>4. DepletedNotOffered'
  BY <1>1 DEF DeleteIncomplete, DepletedNotOffered
<1>5. ASSUME NEW i \in DOMAIN variants PROVE OnHand(i) = 0
  <2>1. Pieces(purchased, i) = {}
    BY DEF DeleteIncomplete, Pieces
  <2>2. sold[i] = 0
    BY DEF DeleteIncomplete
  <2>3. i \in VariantIds
    <3>1. DOMAIN variants = 1..Len(variants) /\ Len(variants) \in Nat /\ Len(variants) <= MaxVariants
      BY LenProperties DEF GoodsInductive, GoodsTyped
    <3>. QED
      BY <3>1, CatalogueAssumption DEF VariantIds
  <2>. QED
    BY <2>1, <2>2, <2>3, FS_EmptySet DEF OnHand, Stock
<1>. QED
  BY <1>3, <1>4, <1>5

-----------------------------------------------------------------------------
(* Goods receipts and sales.                                                *)

\* Steps that leave the options alone and end with a withdrawal.
LEMMA ShelfKeeps ==
  ASSUME GoodsInductive, NEW ids, NEW positions \in Seq(PurchaseRow), NEW sales \in [VariantIds -> Nat],
         Withdraw(variants, article, ids, positions, sales), purchased' = positions, sold' = sales,
         UNCHANGED <<groups, values>>
  PROVE  GoodsInductive' /\ DOMAIN variants' = DOMAIN variants /\ ActiveIds(variants') = ActiveIds(variants)
<1>1. /\ variants \in Seq(VariantRow) /\ Len(variants) <= MaxVariants /\ article \in ArticleRow
  BY DEF GoodsInductive, GoodsTyped
<1>2. /\ variants' \in Seq(VariantRow) /\ Len(variants') = Len(variants)
      /\ DOMAIN variants' = DOMAIN variants /\ ActiveIds(variants') = ActiveIds(variants)
      /\ \A i \in DOMAIN variants : variants'[i].key = variants[i].key
      /\ article' \in ArticleRow /\ article'.exists = article.exists
  BY <1>1, Withdrawal
<1>3. GoodsTyped'
  BY <1>1, <1>2 DEF GoodsInductive, GoodsTyped
<1>4. Derived'
  BY <1>2 DEF GoodsInductive, Derived, ActiveIds
<1>5. Present'
  <2>1. variants = <<>> => variants' = <<>>
    BY <1>2, EmptySeq
  <2>. QED
    BY <1>2, <2>1 DEF GoodsInductive, Present
<1>. QED
  BY <1>2, <1>3, <1>4, <1>5 DEF GoodsInductive

LEMMA PositionsTyped ==
  ASSUME GoodsInductive
  PROVE  /\ Len(purchased) \in Nat /\ DOMAIN purchased = 1..Len(purchased)
         /\ \A p \in DOMAIN purchased : purchased[p] \in PurchaseRow
         /\ ActiveIds(variants) \subseteq VariantIds
<1>1. /\ Len(purchased) \in Nat /\ DOMAIN purchased = 1..Len(purchased)
      /\ \A p \in DOMAIN purchased : purchased[p] \in PurchaseRow
  BY LenProperties DEF GoodsInductive, GoodsTyped
<1>2. DOMAIN variants = 1..Len(variants) /\ Len(variants) \in Nat /\ Len(variants) <= MaxVariants
  BY LenProperties DEF GoodsInductive, GoodsTyped
<1>. QED
  BY <1>1, <1>2, CatalogueAssumption DEF VariantIds, ActiveIds

\* Positions that are rewritten in place.
LEMMA Rewritten ==
  ASSUME GoodsInductive, NEW positions, NEW ids, Correct(positions, ids),
         DOMAIN positions = DOMAIN purchased, \A p \in DOMAIN purchased : positions[p] \in PurchaseRow,
         positions = [p \in DOMAIN purchased |-> positions[p]]
  PROVE  GoodsInductive' /\ DOMAIN variants' = DOMAIN variants /\ ActiveIds(variants') = ActiveIds(variants)
<1>1. positions \in [1..Len(purchased) -> PurchaseRow] /\ Len(purchased) \in Nat
  BY PositionsTyped
<1>2. positions \in Seq(PurchaseRow)
  BY <1>1, SeqMade
<1>. QED
  BY <1>2, ShelfKeeps DEF Correct, GoodsInductive, GoodsTyped

\* ... and the pieces of the variants that are not looked at stay.
LEMMA RewrittenWithdrawn ==
  ASSUME GoodsInductive, DepletedNotOffered, NEW positions, NEW ids, Correct(positions, ids),
         DOMAIN positions = DOMAIN purchased,
         \A i \in VariantIds \ ids : \A p \in DOMAIN purchased :
           purchased[p].variant = i \/ positions[p].variant = i =>
             /\ positions[p].variant = purchased[p].variant
             /\ positions[p].quantity = purchased[p].quantity
             /\ positions[p].cancelled = purchased[p].cancelled
  PROVE  DepletedNotOffered'
<1>1. /\ Withdraw(variants, article, ids, positions, sold)
      /\ purchased' = positions /\ sold' = sold
  BY DEF Correct
<1>2. ASSUME NEW i \in ActiveIds(variants) \ ids PROVE Stock(positions, sold)[i] = OnHand(i)
  <2>1. i \in VariantIds \ ids
    BY PositionsTyped
  <2>2. Pieces(positions, i) = Pieces(purchased, i)
    BY <2>1, PiecesKept
  <2>. QED
    BY <2>1, <2>2 DEF OnHand, Stock
<1>. QED
  BY <1>1, <1>2, ShelfWithdrawn DEF GoodsInductive

LEMMA UpdateKeeps ==
  ASSUME GoodsInductive, NEW p \in DOMAIN purchased, NEW i \in VariantIds, NEW quantity \in Quantities,
         Update(p, i, quantity)
  PROVE  /\ GoodsInductive' /\ DOMAIN variants' = DOMAIN variants /\ ActiveIds(variants') = ActiveIds(variants)
         /\ ~Reassign /\ DepletedNotOffered => DepletedNotOffered'
<1> DEFINE corrected == [purchased EXCEPT ![p].variant = i, ![p].quantity = quantity]
<1>1. Correct(corrected, {i}) /\ (Reassign \/ i = purchased[p].variant)
  BY DEF Update
<1>2. /\ DOMAIN corrected = DOMAIN purchased /\ corrected = [q \in DOMAIN purchased |-> corrected[q]]
      /\ \A q \in DOMAIN purchased \ {p} : corrected[q] = purchased[q]
      /\ corrected[p] = [purchased[p] EXCEPT !.variant = i, !.quantity = quantity]
  OBVIOUS
<1> HIDE DEF corrected
<1>3. \A q \in DOMAIN purchased : purchased[q] \in PurchaseRow
  BY PositionsTyped
<1>4. /\ corrected[p] \in PurchaseRow /\ corrected[p].variant = i
      /\ corrected[p].cancelled = purchased[p].cancelled
  BY <1>2, <1>3, PurchasesAssumption DEF PurchaseRow
<1>5. \A q \in DOMAIN purchased : corrected[q] \in PurchaseRow
  BY <1>2, <1>3, <1>4
<1>6. ASSUME ~Reassign, DepletedNotOffered PROVE DepletedNotOffered'
  <2>1. purchased[p].variant = i
    BY <1>1, <1>6
  <2>. QED
    BY <1>1, <1>2, <1>4, <1>6, <2>1, RewrittenWithdrawn
<1>. QED
  BY <1>1, <1>2, <1>5, <1>6, Rewritten

LEMMA UpdateReceiptKeeps ==
  ASSUME GoodsInductive, NEW r, NEW quantities \in [OnReceipt(r) \cap ActivePositions -> Quantities],
         NEW mode \in {"unit", "basket"}, UpdateReceipt(r, quantities, mode)
  PROVE  /\ GoodsInductive' /\ DOMAIN variants' = DOMAIN variants /\ ActiveIds(variants') = ActiveIds(variants)
         /\ DepletedNotOffered => DepletedNotOffered'
<1> DEFINE active    == OnReceipt(r) \cap ActivePositions
           corrected == [p \in DOMAIN purchased |->
                           IF p \notin OnReceipt(r) THEN purchased[p]
                           ELSE IF p \in active
                                THEN [purchased[p] EXCEPT !.mode = mode, !.quantity = quantities[p]]
                                ELSE [purchased[p] EXCEPT !.mode = mode]]
<1>1. Correct(corrected, VariantsOf(active))
  BY DEF UpdateReceipt
<1>2. DOMAIN corrected = DOMAIN purchased /\ corrected = [p \in DOMAIN purchased |-> corrected[p]]
  OBVIOUS
<1>3. \A p \in DOMAIN purchased : purchased[p] \in PurchaseRow
  BY PositionsTyped
<1>4. ASSUME NEW p \in DOMAIN purchased
      PROVE  /\ corrected[p] \in PurchaseRow
             /\ corrected[p].variant = purchased[p].variant
             /\ corrected[p].cancelled = purchased[p].cancelled
             /\ p \notin active => corrected[p].quantity = purchased[p].quantity
  <2>1. purchased[p] \in PurchaseRow
    BY <1>3
  <2>2. CASE p \notin OnReceipt(r)
    BY <2>1, <2>2
  <2>3. CASE p \in OnReceipt(r) /\ p \in active
    <3>1. corrected[p] = [purchased[p] EXCEPT !.mode = mode, !.quantity = quantities[p]]
      BY <2>3
    <3>2. quantities[p] \in Nat
      BY <2>3, PurchasesAssumption
    <3> HIDE DEF corrected, active
    <3>. QED
      BY <2>1, <2>3, <3>1, <3>2 DEF PurchaseRow
  <2>4. CASE p \in OnReceipt(r) /\ p \notin active
    <3>1. corrected[p] = [purchased[p] EXCEPT !.mode = mode]
      BY <2>4
    <3> HIDE DEF corrected, active
    <3>. QED
      BY <2>1, <3>1 DEF PurchaseRow
  <2> HIDE DEF corrected, active
  <2>. QED
    BY <2>2, <2>3, <2>4
<1> HIDE DEF corrected
<1>5. \A p \in active : purchased[p].variant \in VariantsOf(active)
  BY DEF VariantsOf
<1> HIDE DEF active
<1>6. DepletedNotOffered => DepletedNotOffered'
  BY <1>1, <1>2, <1>4, <1>5, RewrittenWithdrawn
<1>. QED
  BY <1>1, <1>2, <1>4, <1>6, Rewritten

LEMMA CancelPositionKeeps ==
  ASSUME GoodsInductive, NEW p \in DOMAIN purchased, CancelPosition(p)
  PROVE  /\ GoodsInductive' /\ DOMAIN variants' = DOMAIN variants /\ ActiveIds(variants') = ActiveIds(variants)
         /\ DepletedNotOffered => DepletedNotOffered'
<1> DEFINE corrected == [purchased EXCEPT ![p].cancelled = TRUE]
<1>1. Correct(corrected, {purchased[p].variant})
  BY DEF CancelPosition
<1>2. /\ DOMAIN corrected = DOMAIN purchased /\ corrected = [q \in DOMAIN purchased |-> corrected[q]]
      /\ \A q \in DOMAIN purchased \ {p} : corrected[q] = purchased[q]
      /\ corrected[p] = [purchased[p] EXCEPT !.cancelled = TRUE]
  OBVIOUS
<1> HIDE DEF corrected
<1>3. \A q \in DOMAIN purchased : purchased[q] \in PurchaseRow
  BY PositionsTyped
<1>4. corrected[p] \in PurchaseRow /\ corrected[p].variant = purchased[p].variant
  BY <1>2, <1>3 DEF PurchaseRow
<1>5. \A q \in DOMAIN purchased : corrected[q] \in PurchaseRow
  BY <1>2, <1>3, <1>4
<1>6. DepletedNotOffered => DepletedNotOffered'
  BY <1>1, <1>2, <1>4, RewrittenWithdrawn
<1>. QED
  BY <1>1, <1>2, <1>5, <1>6, Rewritten

LEMMA CancelReceiptKeeps ==
  ASSUME GoodsInductive, NEW r, CancelReceipt(r)
  PROVE  /\ GoodsInductive' /\ DOMAIN variants' = DOMAIN variants /\ ActiveIds(variants') = ActiveIds(variants)
         /\ DepletedNotOffered => DepletedNotOffered'
<1> DEFINE corrected == [p \in DOMAIN purchased |->
                           IF p \in OnReceipt(r) THEN [purchased[p] EXCEPT !.cancelled = TRUE] ELSE purchased[p]]
<1>1. Correct(corrected, VariantsOf(OnReceipt(r)))
  BY DEF CancelReceipt
<1>2. /\ DOMAIN corrected = DOMAIN purchased /\ corrected = [p \in DOMAIN purchased |-> corrected[p]]
      /\ \A p \in DOMAIN purchased :
           corrected[p] = IF p \in OnReceipt(r) THEN [purchased[p] EXCEPT !.cancelled = TRUE] ELSE purchased[p]
  OBVIOUS
<1> HIDE DEF corrected
<1>3. \A p \in DOMAIN purchased : purchased[p] \in PurchaseRow
  BY PositionsTyped
<1>4. ASSUME NEW p \in DOMAIN purchased
      PROVE  /\ corrected[p] \in PurchaseRow /\ corrected[p].variant = purchased[p].variant
             /\ p \notin OnReceipt(r) => corrected[p] = purchased[p]
  BY <1>2, <1>3 DEF PurchaseRow
<1>5. \A p \in OnReceipt(r) : purchased[p].variant \in VariantsOf(OnReceipt(r))
  BY DEF VariantsOf
<1>6. DepletedNotOffered => DepletedNotOffered'
  BY <1>1, <1>2, <1>4, <1>5, RewrittenWithdrawn
<1>. QED
  BY <1>1, <1>2, <1>4, <1>6, Rewritten

\* A delivery: the stock grows, and nothing on the shelves changes.
LEMMA CreateKeeps ==
  ASSUME GoodsInductive, NEW lines \in Deliveries, NEW mode \in {"unit", "basket"}, Create(lines, mode)
  PROVE  /\ GoodsInductive' /\ UNCHANGED variants
         /\ DepletedNotOffered => DepletedNotOffered'
<1> DEFINE r    == Cardinality(Receipts) + 1
           more == [n \in DOMAIN lines |-> Position(r, lines[n][1], lines[n][2], mode)]
<1>1. /\ \A n \in DOMAIN lines : lines[n][1] \in DOMAIN variants
      /\ purchased' = purchased \o more
      /\ UNCHANGED <<article, groups, values, variants, sold>>
  BY DEF Create
<1>2. r \in Nat
  <2> DEFINE f == [p \in DOMAIN purchased |-> purchased[p].receipt]
  <2>1. f \in Surjection(DOMAIN purchased, Receipts)
    BY DEF Surjection, Receipts
  <2>2. IsFiniteSet(DOMAIN purchased)
    BY PositionsTyped, FS_Interval
  <2> HIDE DEF f
  <2>3. IsFiniteSet(Receipts)
    BY <2>1, <2>2, FS_Surjection
  <2>. QED
    BY <2>3, FS_CardinalityType
<1>3. PICK n \in 1..2 : lines \in [1..n -> VariantIds \X Quantities]
  BY DEF Deliveries
<1>4. more \in Seq(PurchaseRow)
  <2> HIDE DEF r
  <2>1. ASSUME NEW m \in 1..n PROVE more[m] \in PurchaseRow
    <3>1. lines[m][1] \in VariantIds /\ lines[m][2] \in Nat
      BY <1>3, PurchasesAssumption
    <3>2. more[m] = Position(r, lines[m][1], lines[m][2], mode)
      BY <1>3
    <3> HIDE DEF more
    <3>. QED
      BY <1>2, <3>1, <3>2 DEF Position, PurchaseRow
  <2>2. more \in [1..n -> PurchaseRow]
    BY <1>3, <2>1
  <2> HIDE DEF more
  <2>. QED
    BY <2>2, SeqMade
<1> HIDE DEF more
<1>5. purchased \in Seq(PurchaseRow) /\ sold \in [VariantIds -> Nat]
  BY DEF GoodsInductive, GoodsTyped
<1>6. purchased' \in Seq(PurchaseRow)
  BY <1>1, <1>4, <1>5, ConcatProperties
<1>7. GoodsInductive'
  BY <1>1, <1>6 DEF GoodsInductive, GoodsTyped, Derived, Present
<1>8. ASSUME NEW i \in ActiveIds(variants) PROVE OnHand(i)' <= 0 => OnHand(i) <= 0
  <2>1. i \in VariantIds
    BY PositionsTyped
  <2>2. /\ Cardinality(Pieces(purchased, i)) <= Cardinality(Pieces(purchased', i))
        /\ Cardinality(Pieces(purchased, i)) \in Nat /\ Cardinality(Pieces(purchased', i)) \in Nat
    BY <1>1, <1>4, <1>5, StockGrows
  <2>3. /\ OnHand(i) = Cardinality(Pieces(purchased, i)) - sold[i]
        /\ OnHand(i)' = Cardinality(Pieces(purchased', i)) - sold[i]
    BY <1>1, <2>1 DEF OnHand, Stock
  <2>. QED
    BY <1>5, <2>1, <2>2, <2>3
<1>9. DepletedNotOffered => DepletedNotOffered'
  BY <1>1, <1>8 DEF DepletedNotOffered, Exhausted
<1>. QED
  BY <1>1, <1>7, <1>9

LEMMA SellKeeps ==
  ASSUME GoodsInductive, NEW i \in VariantIds, Sell(i)
  PROVE  /\ GoodsInductive' /\ DOMAIN variants' = DOMAIN variants /\ ActiveIds(variants') = ActiveIds(variants)
         /\ DepletedNotOffered => DepletedNotOffered'
<1> DEFINE sales == [sold EXCEPT ![i] = @ + 1]
<1>1. /\ Withdraw(variants, article, {i}, purchased, sales)
      /\ sold' = sales /\ UNCHANGED <<groups, values, purchased>>
  BY DEF Sell
<1>2. /\ sales \in [VariantIds -> Nat] /\ \A j \in VariantIds \ {i} : sales[j] = sold[j]
  BY DEF GoodsInductive, GoodsTyped
<1> HIDE DEF sales
<1>3. purchased \in Seq(PurchaseRow)
  BY DEF GoodsInductive, GoodsTyped
<1>4. ASSUME NEW j \in ActiveIds(variants) \ {i} PROVE Stock(purchased, sales)[j] = OnHand(j)
  <2>1. j \in VariantIds \ {i}
    BY PositionsTyped
  <2>. QED
    BY <1>2, <2>1 DEF OnHand, Stock
<1>5. DepletedNotOffered => DepletedNotOffered'
  BY <1>1, <1>4, ShelfWithdrawn DEF GoodsInductive
<1>. QED
  BY <1>1, <1>2, <1>3, <1>5, ShelfKeeps

LEMMA CancelSaleKeeps ==
  ASSUME GoodsInductive, NEW i \in VariantIds, CancelSale(i)
  PROVE  /\ GoodsInductive' /\ UNCHANGED variants
         /\ DepletedNotOffered => DepletedNotOffered'
<1>1. /\ sold' = [sold EXCEPT ![i] = @ - 1] /\ sold[i] > 0
      /\ UNCHANGED <<article, groups, values, variants, purchased>>
  BY DEF CancelSale
<1>2. sold \in [VariantIds -> Nat] /\ purchased \in Seq(PurchaseRow)
  BY DEF GoodsInductive, GoodsTyped
<1>3. /\ sold' \in [VariantIds -> Nat] /\ \A j \in VariantIds : sold'[j] <= sold[j]
  BY <1>1, <1>2
<1>4. GoodsInductive'
  BY <1>1, <1>3 DEF GoodsInductive, GoodsTyped, Derived, Present
<1>5. ASSUME NEW j \in ActiveIds(variants) PROVE OnHand(j)' <= 0 => OnHand(j) <= 0
  <2>1. j \in VariantIds
    BY PositionsTyped
  <2>2. Cardinality(Pieces(purchased, j)) \in Nat
    BY <1>2, PiecesFinite, FS_CardinalityType
  <2>3. /\ OnHand(j) = Cardinality(Pieces(purchased, j)) - sold[j]
        /\ OnHand(j)' = Cardinality(Pieces(purchased, j)) - sold'[j]
    BY <1>1, <2>1 DEF OnHand, Stock
  <2>. QED
    BY <1>2, <1>3, <2>1, <2>2, <2>3
<1>6. DepletedNotOffered => DepletedNotOffered'
  BY <1>1, <1>5 DEF DepletedNotOffered, Exhausted
<1>. QED
  BY <1>1, <1>4, <1>6

LEMMA GoodsStart == CatalogueInit => GoodsInductive /\ DepletedNotOffered
<1>. SUFFICES ASSUME CatalogueInit PROVE GoodsInductive /\ DepletedNotOffered
  OBVIOUS
<1>1. /\ \A S : <<>> \in Seq(S) /\ Len(<<>>) = 0
      /\ ActiveIds(<<>>) = {}
  BY EmptySeq DEF ActiveIds
<1>2. NoArticle \in ArticleRow
  BY DEF NoArticle, ArticleRow
<1>. QED
  BY <1>1, <1>2, CatalogueAssumption
     DEF CatalogueInit, GoodsInductive, GoodsTyped, Derived, Present, DepletedNotOffered, OptionState

LEMMA GoodsSteps ==
  ASSUME GoodsInductive, [PurchasesNext]_catalogueVars
  PROVE  GoodsInductive' /\ (~Reassign /\ DepletedNotOffered => DepletedNotOffered')
<1>1. CASE CatalogueNext
  BY <1>1, CreateArticleKeeps, OptionsSaved, VariantSaved, ArticleSaved, DraftDeleted DEF CatalogueNext
<1>2. CASE UNCHANGED catalogueVars
  BY <1>2 DEF catalogueVars, GoodsInductive, GoodsTyped, Derived, Present, DepletedNotOffered, OnHand
<1>. QED
  BY <1>1, <1>2, CreateKeeps, UpdateKeeps, UpdateReceiptKeeps, CancelPositionKeeps, CancelReceiptKeeps,
     SellKeeps, CancelSaleKeeps DEF PurchasesNext

\* services/catalogue/auto_withdraw.go: whatever sells, corrects, cancels or changes
\* the options, what is sold out and not bought again is not offered, as long as no
\* correction moves a position to another variant.
THEOREM DepletedWithdrawnFromSale ==
  ASSUME ~Reassign
  PROVE  PurchasesSpec => []DepletedNotOffered
<1>1. (GoodsInductive /\ DepletedNotOffered) /\ [PurchasesNext]_catalogueVars
        => (GoodsInductive /\ DepletedNotOffered)'
  BY GoodsSteps
<1>. QED
  BY <1>1, GoodsStart, PTL DEF PurchasesSpec

-----------------------------------------------------------------------------
(* New options.                                                             *)

\* A key of the old grid takes one value of every group that is new, and is a key of
\* the new grid.
LEMMA KeyGoesOn ==
  ASSUME GoodsInductive, NEW sent \in SUBSET OptionValues, UpToDate(sent), variants # <<>>,
         MembershipKept(sent), NEW firstValues \in FirstValues(sent),
         NEW key \in ExpectedCombinations(groups, values)
  PROVE  key \cup firstValues \in ExpectedCombinations(GroupsAfter(sent), ValuesAfter(sent))
<1> DEFINE fresh == {v \in sent : groups[GroupOf[v]] = "absent"}
           new   == ActiveRows(GroupsAfter(sent))
           alive == ActiveRows(ValuesAfter(sent))
<1>1. /\ groups \in [OptionGroups -> OptionState] /\ values \in [OptionValues -> OptionState]
      /\ GroupOf \in [OptionValues -> OptionGroups] /\ IsFiniteSet(OptionValues)
  BY CatalogueAssumption DEF GoodsInductive, GoodsTyped
<1>2. PICK f \in [ActiveRows(groups) -> ActiveRows(values)] :
        (\A g \in ActiveRows(groups) : GroupOf[f[g]] = g) /\ key = {f[g] : g \in ActiveRows(groups)}
  BY DEF ExpectedCombinations
<1>3. new = Named(sent) /\ sent \subseteq alive
  BY <1>1 DEF ActiveRows, GroupsAfter, ValuesAfter, Named
<1>4. ASSUME NEW g \in ActiveRows(groups) PROVE g \in new /\ f[g] \in sent
  <2>1. f[g] \in ActiveRows(values) /\ GroupOf[f[g]] = g
    BY <1>2
  <2>2. f[g] \in sent
    BY <2>1 DEF MembershipKept
  <2>. QED
    BY <1>3, <2>1, <2>2 DEF Named
<1>5. \A g \in new : g \in ActiveRows(groups) \/ groups[g] = "absent"
  BY <1>1, <1>3 DEF Named, UpToDate, ActiveRows, OptionState
<1>6. firstValues \subseteq fresh /\ \A v \in fresh : \E w : {u \in firstValues : GroupOf[u] = GroupOf[v]} = {w}
  <2>1. firstValues \subseteq fresh
    BY DEF FirstValues
  <2>2. ASSUME NEW v \in fresh PROVE \E w : {u \in firstValues : GroupOf[u] = GroupOf[v]} = {w}
    <3> DEFINE S == {u \in firstValues : GroupOf[u] = GroupOf[v]}
    <3>1. Cardinality(S) = 1
      BY DEF FirstValues
    <3>2. S \subseteq OptionValues
      BY <2>1
    <3> HIDE DEF S
    <3>3. IsFiniteSet(S)
      BY <1>1, <3>2, FS_Subset
    <3>4. \E w : S = {w}
      BY <3>1, <3>3, FS_Singleton
    <3>. QED
      BY <3>4 DEF S
  <2>. QED
    BY <2>1, <2>2
<1>7. ASSUME NEW g \in new, groups[g] = "absent"
      PROVE  \E w \in firstValues : GroupOf[w] = g /\ \A u \in firstValues : GroupOf[u] = g => u = w
  <2>1. PICK v \in sent : GroupOf[v] = g
    BY <1>3 DEF Named
  <2>2. v \in fresh
    BY <1>7, <2>1
  <2>3. PICK w : {u \in firstValues : GroupOf[u] = g} = {w}
    BY <1>6, <2>1, <2>2
  <2>. QED
    BY <2>3
<1>8. \A u \in firstValues : u \in sent /\ GroupOf[u] \in new /\ groups[GroupOf[u]] = "absent"
  BY <1>3, <1>6 DEF Named
<1> DEFINE first(g) == CHOOSE w \in firstValues : GroupOf[w] = g
           h == [g \in new |-> IF g \in ActiveRows(groups) THEN f[g] ELSE first(g)]
<1> HIDE DEF fresh, new, alive
<1>9. ASSUME NEW g \in new, g \notin ActiveRows(groups)
      PROVE  first(g) \in firstValues /\ GroupOf[first(g)] = g
  <2>1. \E w \in firstValues : GroupOf[w] = g
    BY <1>5, <1>7, <1>9
  <2>. QED
    BY <2>1
<1>10. ASSUME NEW u \in firstValues
       PROVE  GroupOf[u] \in new /\ GroupOf[u] \notin ActiveRows(groups) /\ first(GroupOf[u]) = u
  <2>1. GroupOf[u] \in new /\ GroupOf[u] \notin ActiveRows(groups)
    BY <1>8 DEF ActiveRows
  <2>2. first(GroupOf[u]) \in firstValues /\ GroupOf[first(GroupOf[u])] = GroupOf[u]
    BY <1>9, <2>1
  <2>. QED
    BY <1>7, <1>8, <2>1, <2>2
<1> HIDE DEF first
<1>11. \A g \in new : h[g] \in alive /\ GroupOf[h[g]] = g
  BY <1>2, <1>3, <1>4, <1>8, <1>9
<1>12. h \in [new -> alive]
  BY <1>11
<1>13. {h[g] : g \in new} = key \cup firstValues
  <2>1. ASSUME NEW g \in new PROVE h[g] \in key \cup firstValues
    BY <1>2, <1>9
  <2>2. ASSUME NEW x \in key PROVE \E g \in new : h[g] = x
    <3>1. PICK g \in ActiveRows(groups) : x = f[g]
      BY <1>2
    <3>2. g \in new /\ h[g] = x
      BY <1>4, <3>1
    <3>. QED
      BY <3>2
  <2>3. ASSUME NEW u \in firstValues PROVE \E g \in new : h[g] = u
    <3>1. GroupOf[u] \in new /\ h[GroupOf[u]] = u
      BY <1>10
    <3>. QED
      BY <3>1
  <2> HIDE DEF h
  <2>. QED
    BY <2>1, <2>2, <2>3
<1> HIDE DEF h
<1>. QED
  BY <1>11, <1>12, <1>13 DEF ExpectedCombinations, new, alive

LEMMA KeptStep ==
  ASSUME ~StalePages, GoodsInductive, [PurchasesNext]_catalogueVars
  PROVE  \A i \in DOMAIN variants :
           variants[i].active /\ OnHand(i) > 0 => i \in DOMAIN variants' /\ variants'[i].active
<1>. SUFFICES ASSUME NEW i \in DOMAIN variants, variants[i].active, OnHand(i) > 0
              PROVE  i \in ActiveIds(variants')
  BY DEF ActiveIds
<1>1. i \in ActiveIds(variants)
  BY DEF ActiveIds
<1>2. ASSUME NEW priced \in BOOLEAN, NEW deferred \in BOOLEAN, CreateArticle(priced, deferred)
      PROVE  FALSE
  <2>1. variants = <<>>
    BY <1>2 DEF CreateArticle, GoodsInductive, Present
  <2>. QED
    BY <2>1
<1>3. ASSUME NEW sent \in SUBSET OptionValues, SaveOptions(sent)
      PROVE  i \in ActiveIds(variants')
  <2>1. PICK firstValues \in FirstValues(sent) :
          LET grid == Grid(GroupsAfter(sent), ValuesAfter(sent), firstValues)
          IN  /\ GroupsAfter(sent) \in [OptionGroups -> OptionState]
              /\ ValuesAfter(sent) \in [OptionValues -> OptionState]
              /\ firstValues \in SUBSET OptionValues
              /\ ActiveIds(variants') = ActiveIds(grid)
    BY <1>3, OptionsSaved
  <2> DEFINE grid == Grid(GroupsAfter(sent), ValuesAfter(sent), firstValues)
  <2>2. /\ DOMAIN variants \subseteq DOMAIN grid
        /\ variants[i].key \cup firstValues \in ExpectedCombinations(GroupsAfter(sent), ValuesAfter(sent))
             => grid[i].active
    BY <1>1, <2>1, GridDerived
  <2>3. variants # <<>> /\ UpToDate(sent) /\ MembershipKept(sent)
    BY <1>3 DEF SaveOptions
  <2>4. variants[i].key \in ExpectedCombinations(groups, values)
    BY <1>1 DEF GoodsInductive, Derived
  <2>5. grid[i].active /\ i \in DOMAIN grid
    BY <2>2, <2>3, <2>4, KeyGoesOn
  <2>6. ActiveIds(variants') = ActiveIds(grid)
    BY <2>1
  <2> HIDE DEF grid
  <2>. QED
    BY <2>5, <2>6 DEF ActiveIds
<1>4. ASSUME NEW j \in VariantIds, NEW offered \in BOOLEAN, NEW noReorder \in BOOLEAN,
             SaveVariant(j, offered, noReorder)
      PROVE  i \in ActiveIds(variants')
  BY <1>1, <1>4, VariantSaved
<1>5. ASSUME NEW offered \in BOOLEAN, SaveArticle(offered)
      PROVE  i \in ActiveIds(variants')
  BY <1>1, <1>5, ArticleSaved
<1>6. CASE DeleteIncomplete
  BY <1>6, DraftDeleted
<1>7. CASE CatalogueNext
  BY <1>2, <1>3, <1>4, <1>5, <1>6, <1>7 DEF CatalogueNext
<1>8. CASE UNCHANGED variants
  BY <1>1, <1>8
<1>9. CASE UNCHANGED catalogueVars
  BY <1>8, <1>9 DEF catalogueVars
<1>. QED
  BY <1>1, <1>7, <1>8, <1>9, CreateKeeps, UpdateKeeps, UpdateReceiptKeeps, CancelPositionKeeps,
     CancelReceiptKeeps, SellKeeps, CancelSaleKeeps DEF PurchasesNext

\* services/catalogue PreserveVariantsForNewOptionGroups: no change of the options parks
\* a variant of which something is on hand, saved from pages that are up to date.
THEOREM StockStaysInCatalogue ==
  ASSUME ~StalePages
  PROVE  PurchasesSpec => StockKept
<1>1. GoodsInductive /\ [PurchasesNext]_catalogueVars => GoodsInductive'
  BY GoodsSteps
<1>2. ASSUME GoodsInductive, [PurchasesNext]_catalogueVars
      PROVE  [\A i \in DOMAIN variants :
                variants[i].active /\ OnHand(i) > 0 => i \in DOMAIN variants' /\ variants'[i].active]_catalogueVars
  BY <1>2, KeptStep
<1>. QED
  BY <1>1, <1>2, GoodsStart, PTL DEF PurchasesSpec, StockKept
=============================================================================
