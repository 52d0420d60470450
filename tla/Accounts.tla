------------------------------ MODULE Accounts ------------------------------
(***************************************************************************)
(* The accounts of one band: signing in over several statements, the       *)
(* session's copy of the account's version, the changes a band admin and   *)
(* the owner make, each a read, a check and a write in separate statements,*)
(* and the band's deactivation.  A session is accepted while its copy is   *)
(* the account's version; a change that must sign out raises the version.  *)
(***************************************************************************)
EXTENDS Naturals, FiniteSets

CONSTANTS
  People,     \* accounts, the ones made later included
  Founder,    \* the band's first administrator
  Logins,     \* slots for sign-ins being served
  AccountChanges,    \* slots for changes being served
  UserQuota,  \* the band's limit on accounts; 0 is none
  MaxVersion  \* bound: how often one account changes

ASSUME AccountsAssumption ==
  /\ Founder \in People
  /\ UserQuota \in Nat
  /\ MaxVersion \in Nat

VARIABLES
  users,       \* the rows of users, with their number of changes as history
  band,        \* is_active, and the steps of RevokeBandSessions
  sessions,    \* user and session_version, with the change last seen as history
  pendingAuth, \* the rows of pending_auth: the account and the purpose
  login,
  change

accountVars == <<users, band, sessions, pendingAuth, login, change>>

Unmade == [state |-> "none", active |-> FALSE, admin |-> FALSE, setup |-> FALSE,
           mfa |-> FALSE, version |-> 0, changes |-> 0]
Made(isAdmin) == [Unmade EXCEPT !.state = "there", !.active = TRUE, !.admin = isAdmin, !.setup = TRUE]
There(p) == users[p].state = "there"

NoLogin == [step |-> "idle", who |-> Founder, row |-> Unmade]
NotChanging == [kind |-> "none", step |-> "idle", who |-> Founder, row |-> Unmade, to |-> FALSE]

\* The kinds that save the whole row they read; the others update columns in SQL.
SavedWhole == {"password", "setup", "reset", "mfa"}
Guarded == {"role", "active", "reset", "resetMFA", "delete"}

(***************************************************************************)
(* Signing in                                                              *)
(***************************************************************************)
SessionOf(p, row) == [who |-> p, version |-> row.version, seen |-> row.changes]

\* LoadSession.
Accepted(s) ==
  /\ There(s.who)
  /\ users[s.who].active
  /\ users[s.who].version = s.version

Authenticate(l, p) ==
  /\ login[l].step = "idle"
  /\ There(p) /\ users[p].active
  /\ login' = [login EXCEPT ![l] = [step |-> "band", who |-> p, row |-> users[p]]]
  /\ UNCHANGED <<users, band, sessions, pendingAuth, change>>

\* The band is read after the account; what comes next goes by the account as read.
CheckBand(l) ==
  /\ login[l].step = "band"
  /\ LET purpose == IF login[l].row.setup THEN "setup" ELSE "mfa"
     IN  IF band.active /\ ~login[l].row.setup /\ ~login[l].row.mfa
         THEN /\ login' = [login EXCEPT ![l].step = "open"]
              /\ UNCHANGED pendingAuth
         ELSE /\ login' = [login EXCEPT ![l] = NoLogin]
              /\ pendingAuth' = IF band.active /\ There(login[l].who)
                                THEN pendingAuth \cup {<<login[l].who, purpose>>}
                                ELSE pendingAuth
  /\ UNCHANGED <<users, band, sessions, change>>

\* completeMFALogin opens the session with the account it peeked at.
PeekPending(l, p) ==
  /\ login[l].step = "idle"
  /\ <<p, "mfa">> \in pendingAuth
  /\ users[p].mfa
  /\ login' = [login EXCEPT ![l] = [step |-> "consume", who |-> p, row |-> users[p]]]
  /\ UNCHANGED <<users, band, sessions, pendingAuth, change>>

ConsumePending(l) ==
  LET token == <<login[l].who, "mfa">>
  IN  /\ login[l].step = "consume"
      /\ IF token \in pendingAuth /\ users[login[l].who].active
         THEN /\ pendingAuth' = pendingAuth \ {token}
              /\ login' = [login EXCEPT ![l].step = "open"]
         ELSE /\ login' = [login EXCEPT ![l] = NoLogin]
              /\ UNCHANGED pendingAuth
  /\ UNCHANGED <<users, band, sessions, change>>

\* The session's row needs its account's: a foreign key.
CreateSession(l) ==
  /\ login[l].step = "open"
  /\ sessions' = IF There(login[l].who)
                 THEN sessions \cup {SessionOf(login[l].who, login[l].row)}
                 ELSE sessions
  /\ login' = [login EXCEPT ![l] = NoLogin]
  /\ UNCHANGED <<users, band, pendingAuth, change>>

\* Logout, idling out, and the row of a session that is no longer accepted.
EndSession(s) ==
  /\ s \in sessions
  /\ sessions' = sessions \ {s}
  /\ UNCHANGED <<users, band, pendingAuth, login, change>>

PendingExpires(token) ==
  /\ token \in pendingAuth
  /\ pendingAuth' = pendingAuth \ {token}
  /\ UNCHANGED <<users, band, sessions, login, change>>

(***************************************************************************)
(* Changing an account                                                     *)
(***************************************************************************)
\* A whole-row save writes back all it read, so two such changes of one
\* account, or one and the band's deactivation, are not taken to overlap.
Alone(kind, p) ==
  /\ \A c \in AccountChanges : change[c].step # "idle" /\ change[c].who = p =>
       kind \notin SavedWhole /\ change[c].kind \notin SavedWhole
  /\ kind \in SavedWhole => band.call = "idle"

Removes(kind, to) == kind = "delete" \/ (kind \in {"role", "active"} /\ ~to)

MayChange(kind, actor, p, to) ==
  /\ \E s \in sessions : s.who = actor /\ Accepted(s)
  /\ IF kind \in Guarded THEN users[actor].admin ELSE actor = p
  /\ actor = p => ~Removes(kind, to)

\* With p gone there are fewer administrators: the others are counted.
Leaves(kind, p, to) == users[p].admin /\ Removes(kind, to)

FirstStep(kind) == IF kind = "delete" THEN "revoke" ELSE "write"

BeginChange(c, kind, actor, p, to) ==
  /\ change[c].step = "idle"
  /\ kind \in Guarded \cup {"password", "mfa"}
  /\ There(p) /\ users[p].changes < MaxVersion
  /\ MayChange(kind, actor, p, to)
  /\ Alone(kind, p)
  /\ change' = [change EXCEPT ![c] =
       [kind |-> kind, who |-> p, to |-> to,
        row |-> IF kind \in SavedWhole THEN users[p] ELSE Unmade,
        step |-> IF Leaves(kind, p, to) THEN "count" ELSE FirstStep(kind)]]
  /\ UNCHANGED <<users, band, sessions, pendingAuth, login>>

\* completePasswordSetup: the token is the right to change.
BeginSetup(c, p) ==
  /\ change[c].step = "idle"
  /\ <<p, "setup">> \in pendingAuth
  /\ users[p].active /\ users[p].changes < MaxVersion
  /\ Alone("setup", p)
  /\ pendingAuth' = pendingAuth \ {<<p, "setup">>}
  /\ change' = [change EXCEPT ![c] =
       [kind |-> "setup", who |-> p, row |-> users[p], to |-> FALSE, step |-> "write"]]
  /\ UNCHANGED <<users, band, sessions, login>>

ActiveAdmins == {p \in People : There(p) /\ users[p].active /\ users[p].admin}

EnsureAnotherBandAdmin(c) ==
  /\ change[c].step = "count"
  /\ change' = IF ActiveAdmins \ {change[c].who} # {}
               THEN [change EXCEPT ![c].step = FirstStep(change[c].kind)]
               ELSE [change EXCEPT ![c] = NotChanging]
  /\ UNCHANGED <<users, band, sessions, pendingAuth, login>>

\* Fault: the update leaves the version; only the sessions are deleted.
NotRaised(row) == row

\* session_version + 1.
Raised(row) == [row EXCEPT !.version = @ + 1]

\* The row a change leaves; history counts the changes that sign out.
RowWritten(c) ==
  LET p == change[c].who
      kept == [change[c].row EXCEPT !.changes = users[p].changes]
  IN  CASE change[c].kind = "role" -> [Raised(users[p]) EXCEPT !.admin = change[c].to]
        [] change[c].kind = "active" -> [Raised(users[p]) EXCEPT !.active = change[c].to]
        [] change[c].kind = "resetMFA" -> [Raised(users[p]) EXCEPT !.mfa = FALSE]
        [] change[c].kind = "reset" -> [Raised(kept) EXCEPT !.setup = TRUE]
        [] change[c].kind \in {"password", "setup"} -> [Raised(kept) EXCEPT !.setup = FALSE]
        [] change[c].kind = "mfa" -> [kept EXCEPT !.mfa = ~@]

Counted(c) ==
  [RowWritten(c) EXCEPT !.changes = IF change[c].kind = "mfa" THEN @ ELSE @ + 1]

\* Activating an account, or changing its own second factor, signs nobody out.
AfterWrite(c) ==
  IF change[c].kind = "mfa" \/ (change[c].kind = "active" /\ change[c].to)
  THEN NotChanging
  ELSE [change[c] EXCEPT !.step = "revoke",
                         !.row = IF change[c].kind = "setup" THEN Counted(c) ELSE Unmade]

WriteChange(c) ==
  /\ change[c].step = "write"
  /\ change[c].kind # "create"
  /\ IF There(change[c].who)
     THEN /\ users' = [users EXCEPT ![change[c].who] = Counted(c)]
          /\ change' = [change EXCEPT ![c] = AfterWrite(c)]
     ELSE /\ change' = [change EXCEPT ![c] = NotChanging]
          /\ UNCHANGED users
  /\ UNCHANGED <<band, sessions, pendingAuth, login>>

NextStep(c) ==
  CASE change[c].kind = "delete" -> [change[c] EXCEPT !.step = "erase"]
    [] change[c].kind = "setup" -> [change[c] EXCEPT !.step = "open"]
    [] OTHER -> NotChanging

RevokeUserSessions(c) ==
  /\ change[c].step = "revoke"
  /\ sessions' = {s \in sessions : s.who # change[c].who}
  /\ change' = [change EXCEPT ![c] = NextStep(c)]
  /\ UNCHANGED <<users, band, pendingAuth, login>>

\* Deleting the row deletes what refers to it.
EraseAccount(c) ==
  LET p == change[c].who
  IN  /\ change[c].step = "erase"
      /\ users' = [users EXCEPT ![p] = [Unmade EXCEPT !.state = "gone", !.changes = MaxVersion]]
      /\ sessions' = {s \in sessions : s.who # p}
      /\ pendingAuth' = {token \in pendingAuth : token[1] # p}
      /\ change' = [change EXCEPT ![c] = NotChanging]
      /\ UNCHANGED <<band, login>>

\* The session after a chosen password carries the version just saved.
OpenAfterSetup(c) ==
  /\ change[c].step = "open"
  /\ sessions' = IF There(change[c].who)
                 THEN sessions \cup {SessionOf(change[c].who, change[c].row)}
                 ELSE sessions
  /\ change' = [change EXCEPT ![c] = NotChanging]
  /\ UNCHANGED <<users, band, pendingAuth, login>>

\* checkUserQuota counts, CreateUser inserts.
CheckUserQuota(c, actor, p, isAdmin) ==
  /\ change[c].step = "idle"
  /\ users[p].state = "none" /\ \A d \in AccountChanges : change[d].who = p => change[d].kind # "create"
  /\ users[actor].admin /\ \E s \in sessions : s.who = actor /\ Accepted(s)
  /\ UserQuota = 0 \/ Cardinality({q \in People : There(q)}) < UserQuota
  /\ change' = [change EXCEPT ![c] =
       [NotChanging EXCEPT !.kind = "create", !.who = p, !.to = isAdmin, !.step = "write"]]
  /\ UNCHANGED <<users, band, sessions, pendingAuth, login>>

CreateUser(c) ==
  /\ change[c].step = "write" /\ change[c].kind = "create"
  /\ users' = [users EXCEPT ![change[c].who] = Made(change[c].to)]
  /\ change' = [change EXCEPT ![c] = NotChanging]
  /\ UNCHANGED <<band, sessions, pendingAuth, login>>

\* A request that ends between two statements leaves what it wrote.
DropChange(c) ==
  /\ change[c].step # "idle"
  /\ change' = [change EXCEPT ![c] = NotChanging]
  /\ UNCHANGED <<users, band, sessions, pendingAuth, login>>

(***************************************************************************)
(* The band as a whole                                                     *)
(***************************************************************************)
DeactivateBand ==
  /\ band.active /\ band.call = "idle"
  /\ \A p \in People : users[p].changes < MaxVersion \/ ~There(p)
  /\ \A c \in AccountChanges : change[c].kind \notin SavedWhole
  /\ band' = [active |-> FALSE, call |-> "raise"]
  /\ UNCHANGED <<users, sessions, pendingAuth, login, change>>

RaiseVersions ==
  /\ band.call = "raise"
  /\ users' = [p \in People |-> IF There(p) THEN [Raised(users[p]) EXCEPT !.changes = @ + 1]
                                        ELSE users[p]]
  /\ band' = [band EXCEPT !.call = "wipe"]
  /\ UNCHANGED <<sessions, pendingAuth, login, change>>

RevokeBandSessions ==
  /\ band.call = "wipe"
  /\ sessions' = {}
  /\ band' = [band EXCEPT !.call = "idle"]
  /\ UNCHANGED <<users, pendingAuth, login, change>>

ActivateBand ==
  /\ ~band.active /\ band.call = "idle"
  /\ band' = [band EXCEPT !.active = TRUE]
  /\ UNCHANGED <<users, sessions, pendingAuth, login, change>>

\* The first administrator has just been made or is long in use; so may others be.
AccountsInit ==
  /\ users \in {rows \in [People -> {Unmade, Made(TRUE), [Made(TRUE) EXCEPT !.setup = FALSE]}] :
                rows[Founder] # Unmade}
  /\ band = [active |-> TRUE, call |-> "idle"]
  /\ sessions = {}
  /\ pendingAuth = {}
  /\ login = [l \in Logins |-> NoLogin]
  /\ change = [c \in AccountChanges |-> NotChanging]

AccountsNext ==
  \/ \E l \in Logins :
       \/ \E p \in People : Authenticate(l, p) \/ PeekPending(l, p)
       \/ CheckBand(l) \/ ConsumePending(l) \/ CreateSession(l)
  \/ \E s \in sessions : EndSession(s)
  \/ \E token \in pendingAuth : PendingExpires(token)
  \/ \E c \in AccountChanges :
       \/ \E p \in People : BeginSetup(c, p)
       \/ \E actor, p \in People, to \in BOOLEAN :
            \/ \E kind \in Guarded \cup {"password", "mfa"} : BeginChange(c, kind, actor, p, to)
            \/ CheckUserQuota(c, actor, p, to)
       \/ EnsureAnotherBandAdmin(c) \/ WriteChange(c) \/ RevokeUserSessions(c)
       \/ EraseAccount(c) \/ OpenAfterSetup(c) \/ CreateUser(c) \/ DropChange(c)
  \/ DeactivateBand \/ RaiseVersions \/ RevokeBandSessions \/ ActivateBand

AccountsSpec == AccountsInit /\ [][AccountsNext]_accountVars

\* A session that is still accepted was opened by someone who read the account
\* after its last change: no sign-in under way survives a password, a role, a
\* deactivation, a lost second factor or the band's closing (LoadSession).
SignedOutEverywhere == \A s \in sessions : Accepted(s) => s.seen = users[s.who].changes

\* The band is never left without an active administrator
\* (ensureAnotherBandAdmin's promise).
Administered == ActiveAdmins # {}
=============================================================================
