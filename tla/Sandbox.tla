------------------------------ MODULE Sandbox ------------------------------
(***************************************************************************)
(* Practice environments: disposable bands that are made on demand, slide  *)
(* their expiry with every request, are replaced by a reset, and are       *)
(* removed by the housekeeping job.  Every request acts on the row it read *)
(* at the door.                                                            *)
(***************************************************************************)
EXTENDS Naturals, FiniteSets

CONSTANTS
  Browsers,     \* cookie jars, each with one request at a time
  Accounts,     \* real accounts
  Nobody,
  SharedBrowsers, \* those where people sign in and out; the others stay anonymous
  MaxActive,    \* Config.MaxActive: environments in use at the same time
  TTL,          \* Config.IdleTTL, in ticks of at least a minute
  MaxEnvs,      \* bound: environments ever made
  MaxTime,      \* bound: the clock
  MaxFaults     \* bound: restarts of the server and failed statements

ASSUME SandboxAssumption ==
  /\ Nobody \notin Accounts /\ SharedBrowsers \subseteq Browsers
  /\ MaxActive \in Nat \ {0} /\ TTL \in Nat \ {0}  \* Config.Validate
  /\ MaxEnvs \in Nat /\ MaxTime \in Nat /\ MaxFaults \in Nat

VARIABLES
  envs,     \* sandbox_environments with their band, user, sessions and files, by id
  outdated, \* environments of an earlier template version
  visitor,  \* by browser, the sandbox cookie and the request being served
  signedIn, \* by browser, the account of its ordinary session, or Nobody
  purge,    \* the housekeeping job: what it still removes and how far it came
  now,
  faults,
  lapsed    \* history: environments that were expired at some time

envVars == <<envs, outdated>>
sandboxVars == <<envVars, visitor, signedIn, purge, now, faults, lapsed>>

EnvIds == 1..MaxEnvs
NoEnv == [status |-> "absent", source |-> Nobody, expires |-> 0, files |-> FALSE, line |-> 0]
Exists(e) == e # 0 /\ envs[e].status # "absent"
Unexpired(e, t) == envs[e].status = "active" /\ t < envs[e].expires

\* A request knows the environment it was admitted to, the expiry it read there,
\* the one it replaces, the time it took, and the one it made or found.
AtRest(cookie) == [cookie |-> cookie, stage |-> "idle", env |-> 0, expires |-> 0, replaces |-> 0, time |-> 0, made |-> 0]

Progressed(b, stage) == visitor' = [visitor EXCEPT ![b].stage = stage]
Respond(b, cookie) == visitor' = [visitor EXCEPT ![b] = AtRest(cookie)]

\* MarkPurging: by id, whatever became of the row; there may be no such row.
Marked(rows, e) == IF rows[e].status = "absent" THEN rows ELSE [rows EXCEPT ![e].status = "purging"]

-----------------------------------------------------------------------------
\* login and logout change the ordinary session only: the cookie of the practice
\* mode stays in the browser.  A request carries the cookies it was sent with.
SignInOrOut(b) ==
  /\ b \in SharedBrowsers /\ visitor[b].stage = "idle"
  /\ signedIn' \in {[signedIn EXCEPT ![b] = u] : u \in (Accounts \cup {Nobody}) \ {signedIn[b]}}
  /\ UNCHANGED <<envVars, visitor, purge, now, faults, lapsed>>

-----------------------------------------------------------------------------
(* The door: resolveSession.                                                *)

\* Whoever is not admitted may only start an environment.
Refused(b) ==
  \/ visitor' = [visitor EXCEPT ![b] = [AtRest(0) EXCEPT !.stage = "starting"]]
  \/ visitor[b].cookie # 0 /\ Respond(b, 0)

\* LoadSession fails when the session went with its environment; Load reads the
\* row and finds it in use, or not; another account's environment is not entered.
LoadEnv(b) ==
  LET e == visitor[b].cookie
      usable == Unexpired(e, now) /\ e \notin outdated
  IN  /\ visitor[b].stage = "idle"
      /\ \/ ~Exists(e) /\ Refused(b)
         \/ Exists(e) /\ ~usable /\ visitor' = [visitor EXCEPT ![b].env = e, ![b].stage = "lapsed"]
         \/ Exists(e) /\ usable /\ envs[e].source \notin {Nobody, signedIn[b]} /\ Refused(b)
         \/ /\ Exists(e) /\ usable /\ envs[e].source \in {Nobody, signedIn[b]}
            /\ visitor' = [visitor EXCEPT ![b].env = e, ![b].expires = envs[e].expires, ![b].stage = "loaded"]
      /\ UNCHANGED <<envVars, signedIn, purge, now, faults, lapsed>>

\* Load marks what it found expired.
MarkLapsed(b) ==
  /\ visitor[b].stage = "lapsed"
  /\ envs' = Marked(envs, visitor[b].env)
  /\ Refused(b)
  /\ UNCHANGED <<outdated, signedIn, purge, now, faults, lapsed>>

\* Touch slides the expiry, at most once a minute, and the request goes on: it
\* starts an environment, resets or discards this one, or works in it.
Touch(b) ==
  LET v == [visitor[b] EXCEPT !.expires = 0]
      slide == now + TTL > visitor[b].expires
  IN  /\ visitor[b].stage = "loaded"
      /\ envs' = IF slide /\ Exists(v.env) THEN [envs EXCEPT ![v.env].expires = now + TTL] ELSE envs
      /\ visitor' \in {[visitor EXCEPT ![b] = after] : after \in
           {[v EXCEPT !.stage = "starting"],
            [v EXCEPT !.stage = "creating", !.replaces = v.env, !.time = now],
            [v EXCEPT !.stage = "discarding"], AtRest(v.cookie)}}
      /\ UNCHANGED <<outdated, signedIn, purge, now, faults, lapsed>>

-----------------------------------------------------------------------------
(* startSandbox.                                                            *)

\* A signed-in browser goes on only in its account's environment.
Own(b) == visitor[b].env # 0 /\ (signedIn[b] = Nobody \/ envs[visitor[b].env].source = signedIn[b])

Resume(b) ==
  /\ visitor[b].stage = "starting" /\ Own(b)
  /\ Respond(b, visitor[b].cookie)
  /\ UNCHANGED <<envVars, signedIn, purge, now, faults, lapsed>>

Mine(b) == {e \in EnvIds : signedIn[b] # Nobody /\ envs[e].source = signedIn[b]}
OwnInUse(b) == {e \in Mine(b) \ outdated : Unexpired(e, now)}
Newest(found) == CHOOSE e \in found : \A f \in found : f <= e

\* ActiveForSource marks what has an old template, and finds the account's
\* newest environment in use; without one, an environment is created.
FindOwn(b) ==
  /\ visitor[b].stage = "starting" /\ ~Own(b)
  /\ envs' = [e \in EnvIds |-> IF e \in Mine(b) \cap outdated THEN Marked(envs, e)[e] ELSE envs[e]]
  /\ visitor' = [visitor EXCEPT ![b].time = now,
       ![b].stage = IF OwnInUse(b) = {} THEN "creating" ELSE "entering",
       ![b].made = IF OwnInUse(b) = {} THEN 0 ELSE Newest(OwnInUse(b))]
  /\ UNCHANGED <<outdated, signedIn, purge, now, faults, lapsed>>

\* Fault: the count is not serialised with the creation.
SettingsUnlocked(b) == TRUE

\* The lock on the settings row, held from the count to the commit.
SettingsLocked(b) == \A other \in Browsers \ {b} : visitor[other].stage # "counted"

\* create counts what is in use, but for what it replaces, with the time of the
\* request; it is refused when all slots are taken.
CountSlots(b) ==
  LET used == {e \in EnvIds \ {visitor[b].replaces} : Unexpired(e, visitor[b].time)}
  IN  /\ visitor[b].stage = "creating" /\ SettingsLocked(b)
      /\ IF Cardinality(used) < MaxActive THEN Progressed(b, "counted") ELSE Respond(b, visitor[b].cookie)
      /\ UNCHANGED <<envVars, signedIn, purge, now, faults, lapsed>>

\* The band, its administrator, the environment and the template's rows and photo.
CreateEnvironment(b) ==
  LET old == visitor[b].replaces
  IN  /\ visitor[b].stage = "counted"
      /\ \E e \in EnvIds :
           /\ \A earlier \in EnvIds : envs[earlier].line = 0 <=> earlier >= e
           /\ envs' = [envs EXCEPT ![e] =
                [status |-> "active", source |-> IF old = 0 THEN signedIn[b] ELSE envs[old].source,
                 expires |-> visitor[b].time + TTL, files |-> TRUE, line |-> IF old = 0 THEN e ELSE envs[old].line]]
           /\ visitor' = [visitor EXCEPT ![b].made = e, ![b].time = 0, ![b].stage = "entering"]
      /\ UNCHANGED <<outdated, signedIn, purge, now, faults, lapsed>>

\* CreateSandboxSession.  A start answers with the new cookie and then gives up
\* the environment the browser came with; a reset first retires the old one.
Enter(b) ==
  LET v == visitor[b]
  IN  /\ v.stage = "entering"
      /\ visitor' = [visitor EXCEPT ![b] =
           IF ~Exists(v.made) THEN AtRest(v.cookie)
           ELSE IF v.env = 0 THEN AtRest(v.made)
           ELSE [v EXCEPT !.stage = "leaving", !.cookie = IF v.replaces = 0 THEN v.made ELSE @]]
      /\ UNCHANGED <<envVars, signedIn, purge, now, faults, lapsed>>

\* The environment the browser came with is given up: the one a reset has replaced,
\* or the one a start found current and could not go on in.
Leave(b) ==
  /\ visitor[b].stage = "leaving"
  /\ envs' = Marked(envs, visitor[b].env)
  /\ Respond(b, visitor[b].made)
  /\ UNCHANGED <<outdated, signedIn, purge, now, faults, lapsed>>

\* resetSandbox marks the new environment when it cannot be entered or when the
\* old one cannot be retired.
Abandon(b) ==
  /\ visitor[b].replaces # 0 /\ visitor[b].stage \in {"entering", "leaving"}
  /\ faults < MaxFaults /\ faults' = faults + 1
  /\ envs' = Marked(envs, visitor[b].made)
  /\ Respond(b, visitor[b].cookie)
  /\ UNCHANGED <<outdated, signedIn, purge, now, lapsed>>

\* discardSandbox: the visitor gives up the environment and leaves the practice mode.
DiscardSandbox(b) ==
  /\ visitor[b].stage = "discarding"
  /\ envs' = Marked(envs, visitor[b].env)
  /\ Respond(b, 0)
  /\ UNCHANGED <<outdated, signedIn, purge, now, faults, lapsed>>

-----------------------------------------------------------------------------
(* Housekeeping.                                                            *)

PurgeIdle == [stage |-> "idle", left |-> {}]

\* Fault: only what expired is looked for, not what was given up.
DueByExpiry(e) == Exists(e) /\ envs[e].expires <= now

Due(e) == Exists(e) /\ (envs[e].status = "purging" \/ envs[e].expires <= now)

\* PurgeExpired reads what is due and removes one after the other.
FindDue ==
  /\ purge.stage = "idle"
  /\ {e \in EnvIds : Due(e)} # {}
  /\ purge' = [stage |-> "mark", left |-> {e \in EnvIds : Due(e)}]
  /\ UNCHANGED <<envVars, visitor, signedIn, now, faults, lapsed>>

Current(e) == e \in purge.left /\ \A f \in purge.left : e <= f

PurgeMark(e) ==
  /\ purge.stage = "mark" /\ Current(e)
  /\ envs' = Marked(envs, e)
  /\ purge' = [purge EXCEPT !.stage = "files"]
  /\ UNCHANGED <<outdated, visitor, signedIn, now, faults, lapsed>>

\* DeleteBand.
PurgeFiles(e) ==
  /\ purge.stage = "files" /\ Current(e)
  /\ envs' = [envs EXCEPT ![e].files = FALSE]
  /\ purge' = [purge EXCEPT !.stage = "rows"]
  /\ UNCHANGED <<outdated, visitor, signedIn, now, faults, lapsed>>

\* One transaction deletes the band's rows, its sessions, its user and the band
\* (the source and the line are kept as history).
PurgeRows(e) ==
  /\ purge.stage = "rows" /\ Current(e)
  /\ envs' = [envs EXCEPT ![e].status = "absent", ![e].expires = 0]
  /\ outdated' = outdated \ {e}
  /\ purge' = IF purge.left = {e} THEN PurgeIdle ELSE [stage |-> "mark", left |-> purge.left \ {e}]
  /\ UNCHANGED <<visitor, signedIn, now, faults, lapsed>>

\* A statement fails: the job ends and the rest waits for the next.
PurgeFails ==
  /\ purge.stage # "idle"
  /\ faults < MaxFaults /\ faults' = faults + 1
  /\ purge' = PurgeIdle
  /\ UNCHANGED <<envVars, visitor, signedIn, now, lapsed>>

-----------------------------------------------------------------------------
\* The server stops: requests and the job end where they are, transactions are
\* rolled back; it may come back with a new template.
Restart(upgraded) ==
  /\ faults < MaxFaults /\ faults' = faults + 1
  /\ visitor' = [b \in Browsers |-> AtRest(visitor[b].cookie)]
  /\ purge' = PurgeIdle
  /\ outdated' = IF upgraded THEN {e \in EnvIds : Exists(e)} ELSE outdated
  /\ UNCHANGED <<envs, signedIn, now, lapsed>>

SandboxTick ==
  /\ now < MaxTime /\ now' = now + 1
  /\ lapsed' = lapsed \cup {e \in EnvIds : Exists(e) /\ envs[e].expires <= now + 1}
  /\ UNCHANGED <<envVars, visitor, signedIn, purge, faults>>

SandboxInit ==
  /\ envs = [e \in EnvIds |-> NoEnv] /\ outdated = {}
  /\ visitor = [b \in Browsers |-> AtRest(0)] /\ signedIn = [b \in Browsers |-> Nobody]
  /\ purge = PurgeIdle /\ now = 0 /\ faults = 0 /\ lapsed = {}

Served(b) ==
  \/ LoadEnv(b) \/ MarkLapsed(b) \/ Touch(b) \/ Resume(b) \/ FindOwn(b)
  \/ CountSlots(b) \/ CreateEnvironment(b) \/ Enter(b) \/ Leave(b) \/ Abandon(b)
  \/ DiscardSandbox(b)

Purging == FindDue \/ \E e \in EnvIds : PurgeMark(e) \/ PurgeFiles(e) \/ PurgeRows(e)

SandboxNext ==
  \/ \E b \in Browsers : Served(b) \/ SignInOrOut(b)
  \/ Purging \/ PurgeFails
  \/ \E upgraded \in BOOLEAN : Restart(upgraded)
  \/ SandboxTick

SandboxSpec == SandboxInit /\ [][SandboxNext]_sandboxVars

\* The scheduler calls the housekeeping every five minutes.
SandboxFairness == WF_sandboxVars(Purging)

-----------------------------------------------------------------------------
(* Properties.                                                              *)

\* The environments that trace back to the same start, and were never idle for
\* longer than the TTL, hold one slot: concurrent starts never take more slots
\* than there are (an environment revived by a request that was admitted before
\* its expiry does not count, nor does the second of two resets at once).
Slots == {envs[e].line : e \in {f \in EnvIds \ lapsed : Unexpired(f, now)}}
WithinCapacity == Cardinality(Slots) <= MaxActive

\* What was given up is removed, rows and files, whatever fails on the way.
MarkedIsRemoved == \A e \in EnvIds : (envs[e].status = "purging") ~> ~Exists(e)
=============================================================================
