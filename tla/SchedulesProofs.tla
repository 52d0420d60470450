--------------------------- MODULE SchedulesProofs ---------------------------
(***************************************************************************)
(* Theorems about what a schedule works on beside the requests: Sandbox,   *)
(* for any number of browsers, accounts, slots and environments, any       *)
(* lifetime, and any restarts and failures, and Finance, for any number of *)
(* rules, pages and days, any interval, and any stops and changes by hand. *)
(***************************************************************************)
EXTENDS Sandbox, Finance, FiniteSetTheorems, SequenceTheorems, WellFoundedInduction, TLAPS

-----------------------------------------------------------------------------
(* The practice mode.                                                       *)

Ids == EnvIds \cup {0}
Environment ==
  [status : {"absent", "active", "purging"}, source : Accounts \cup {Nobody},
   expires : Nat, files : BOOLEAN, line : Ids]
Stages == {"idle", "lapsed", "loaded", "starting", "creating", "counted", "entering", "leaving", "discarding"}
Visitor ==
  [cookie : Ids, stage : Stages, env : Ids, expires : Nat, replaces : Ids, time : Nat, made : Ids]

SandboxTyped ==
  /\ envs \in [EnvIds -> Environment]
  /\ visitor \in [Browsers -> Visitor]
  /\ now \in Nat

\* What counts for the capacity; a row that was never made has no line.
Fresh(e) == e \notin lapsed /\ Unexpired(e, now)
Rows == \A e \in EnvIds : envs[e].status # "absent" => envs[e].line # 0

\* Between its expiry and its removal a row is on record as lapsed.
Timely(e) == envs[e].status = "active" => e \in lapsed \/ now < envs[e].expires

\* What a request knows of its environments.
Known(b) ==
  /\ visitor[b].time <= now
  /\ visitor[b].stage \in {"lapsed", "loaded", "leaving", "discarding"} => visitor[b].env # 0
  /\ visitor[b].stage \in {"idle", "lapsed", "loaded", "starting"} => visitor[b].replaces = 0
  /\ visitor[b].stage \in {"entering", "leaving"} => visitor[b].made # 0
  /\ visitor[b].stage = "loaded" => Timely(visitor[b].env) /\ envs[visitor[b].env].line # 0
  /\ visitor[b].replaces # 0 => envs[visitor[b].replaces].line # 0

\* The slots beside the one that a reset gives back.
Others(b) == IF visitor[b].replaces = 0 THEN Slots ELSE Slots \ {envs[visitor[b].replaces].line}

\* What was counted under the lock still holds: nobody else counts or creates.
Counted(b) == visitor[b].stage = "counted" => Cardinality(Others(b)) < MaxActive
Exclusive == \A b, c \in Browsers : visitor[b].stage = "counted" /\ visitor[c].stage = "counted" => b = c

SandboxInductive ==
  /\ SandboxTyped /\ Rows /\ Exclusive /\ WithinCapacity
  /\ \A b \in Browsers : Known(b) /\ Counted(b)

\* People sign in with accounts, and with nothing else.
People == signedIn \in [Browsers -> Accounts \cup {Nobody}]

-----------------------------------------------------------------------------
(* Slots are a finite set, counted by the rows behind them.                 *)

LEMMA FiniteIds == IsFiniteSet(EnvIds)
<1>1. 1 \in Int /\ MaxEnvs \in Int
  BY SandboxAssumption
<1>. QED
  BY <1>1, FS_Interval DEF EnvIds

LEMMA SubsetCounted ==
  ASSUME NEW S, IsFiniteSet(S), NEW T, T \subseteq S
  PROVE  IsFiniteSet(T) /\ Cardinality(T) <= Cardinality(S) /\ Cardinality(T) \in Nat
<1>1. T \in SUBSET S
  OBVIOUS
<1>2. IsFiniteSet(T) /\ Cardinality(T) <= Cardinality(S)
  BY <1>1, FS_Subset
<1>. QED
  BY <1>2, FS_CardinalityType

\* There are no more lines than rows that have them.
LEMMA LinesCounted ==
  ASSUME SandboxTyped, NEW T, T \subseteq EnvIds
  PROVE  LET lines == {envs[e].line : e \in T}
         IN  /\ IsFiniteSet(lines) /\ IsFiniteSet(T)
             /\ Cardinality(lines) <= Cardinality(T)
             /\ Cardinality(lines) \in Nat /\ Cardinality(T) \in Nat
<1>. DEFINE lines == {envs[e].line : e \in T}
            f == [e \in T |-> envs[e].line]
<1>1. IsFiniteSet(T) /\ Cardinality(T) \in Nat
  BY FiniteIds, SubsetCounted
<1>2. f \in Surjection(T, lines)
  BY DEF Surjection
<1>3. IsFiniteSet(lines) /\ Cardinality(lines) <= Cardinality(T)
  BY <1>1, <1>2, FS_Surjection
<1>4. Cardinality(lines) \in Nat
  BY <1>3, FS_CardinalityType
<1>. QED
  BY <1>1, <1>3, <1>4

LEMMA SlotsCounted ==
  ASSUME SandboxTyped
  PROVE  IsFiniteSet(Slots) /\ Cardinality(Slots) \in Nat
<1>. DEFINE T == {f \in EnvIds \ lapsed : Unexpired(f, now)}
<1>1. T \subseteq EnvIds
  OBVIOUS
<1>2. Slots = {envs[e].line : e \in T}
  BY DEF Slots
<1>. QED
  BY <1>1, <1>2, LinesCounted

\* One line more is one slot more at the most.
LEMMA OneMore ==
  ASSUME NEW S, IsFiniteSet(S), NEW x, NEW T, T \subseteq S \cup {x}, Cardinality(S) < MaxActive
  PROVE  Cardinality(T) <= MaxActive
<1>1. IsFiniteSet(S \cup {x})
      /\ Cardinality(S \cup {x}) = IF x \in S THEN Cardinality(S) ELSE Cardinality(S) + 1
  BY FS_AddElement
<1>2. Cardinality(T) <= Cardinality(S \cup {x}) /\ Cardinality(T) \in Nat
  BY <1>1, SubsetCounted
<1>3. Cardinality(S) \in Nat /\ MaxActive \in Nat
  BY FS_CardinalityType, SandboxAssumption
<1>. QED
  BY <1>1, <1>2, <1>3

-----------------------------------------------------------------------------
(* Steps that make no environment.                                          *)

\* What such a step may do to a row: it gets no new line, does not come into
\* being or into use, and does not come back in time.
Calm(e) ==
  /\ envs'[e].line = envs[e].line
  /\ envs[e].status = "absent" => envs'[e].status = "absent"
  /\ Fresh(e)' => Fresh(e)
  /\ Timely(e) => Timely(e)'

LEMMA CalmSlots ==
  ASSUME \A e \in EnvIds : Calm(e)
  PROVE  Slots' \subseteq Slots
BY DEF Calm, Fresh, Slots

\* A request that is not served keeps what it knows.
LEMMA Bystander ==
  ASSUME SandboxInductive, now' \in Nat, now <= now', \A e \in EnvIds : Calm(e),
         NEW b \in Browsers, visitor'[b] = visitor[b]
  PROVE  Known(b)'
<1>1. visitor[b] \in Visitor /\ Known(b) /\ now \in Nat
  BY DEF SandboxInductive, SandboxTyped
<1>2. visitor[b].time \in Nat /\ visitor[b].env \in Ids /\ visitor[b].replaces \in Ids
  BY <1>1 DEF Visitor
<1>3. visitor'[b].time <= now'
  BY <1>1, <1>2 DEF Known
<1>4. visitor'[b].stage = "loaded" => Timely(visitor[b].env)' /\ envs'[visitor'[b].env].line # 0
  <2>. SUFFICES ASSUME visitor[b].stage = "loaded"
                PROVE  Timely(visitor[b].env)' /\ envs'[visitor[b].env].line # 0
    OBVIOUS
  <2>1. visitor[b].env \in EnvIds /\ Timely(visitor[b].env) /\ envs[visitor[b].env].line # 0
    BY <1>1, <1>2 DEF Known, Ids
  <2>. QED
    BY <2>1 DEF Calm, Timely
<1>5. visitor'[b].replaces # 0 => envs'[visitor'[b].replaces].line # 0
  BY <1>1, <1>2 DEF Known, Ids, Calm
<1>. QED
  BY <1>1, <1>3, <1>4, <1>5 DEF Known

\* No request comes under the lock in such a step, and what it knows is still true.
LEMMA CalmKeeps ==
  ASSUME SandboxInductive, SandboxTyped', \A e \in EnvIds : Calm(e), \A b \in Browsers : Known(b)',
         \A b \in Browsers : visitor'[b].stage = "counted" =>
           visitor[b].stage = "counted" /\ visitor'[b].replaces = visitor[b].replaces
  PROVE  SandboxInductive'
<1>1. Slots' \subseteq Slots
  BY CalmSlots
<1>2. IsFiniteSet(Slots) /\ Cardinality(Slots) \in Nat /\ MaxActive \in Nat
  BY SlotsCounted, SandboxAssumption DEF SandboxInductive
<1>3. WithinCapacity'
  <2>1. Cardinality(Slots') <= Cardinality(Slots) /\ Cardinality(Slots') \in Nat
    BY <1>1, <1>2, SubsetCounted
  <2>2. Cardinality(Slots) <= MaxActive
    BY DEF SandboxInductive, WithinCapacity
  <2>3. Cardinality(Slots') <= MaxActive
    BY <1>2, <2>1, <2>2
  <2>. QED
    BY <2>3 DEF WithinCapacity
<1>4. ASSUME NEW b \in Browsers PROVE Counted(b)'
  <2>. SUFFICES ASSUME visitor'[b].stage = "counted" PROVE Cardinality(Others(b)') < MaxActive
    BY DEF Counted
  <2>1. visitor[b].stage = "counted" /\ visitor'[b].replaces = visitor[b].replaces
    OBVIOUS
  <2>2. Cardinality(Others(b)) < MaxActive
    BY <2>1 DEF SandboxInductive, Counted
  <2>3. visitor[b].replaces \in EnvIds \cup {0}
    BY DEF SandboxInductive, SandboxTyped, Visitor, Ids
  <2>4. Others(b)' \subseteq Others(b)
    BY <1>1, <2>1, <2>3 DEF Others, Calm
  <2>5. Others(b) \subseteq Slots
    BY DEF Others
  <2>6. IsFiniteSet(Others(b)) /\ Cardinality(Others(b)) \in Nat
    BY <1>2, <2>5, SubsetCounted
  <2>7. Cardinality(Others(b)') <= Cardinality(Others(b)) /\ Cardinality(Others(b)') \in Nat
    BY <2>4, <2>6, SubsetCounted
  <2>. QED
    BY <1>2, <2>2, <2>6, <2>7
<1>5. Rows'
  BY DEF SandboxInductive, Rows, Calm
<1>6. Exclusive'
  BY DEF SandboxInductive, Exclusive
<1>. QED
  BY <1>3, <1>4, <1>5, <1>6 DEF SandboxInductive

-----------------------------------------------------------------------------
(* One request is served, and nobody is made.                               *)

\* What the step of one request leaves to be shown.
LEMMA ServedKeeps ==
  ASSUME SandboxInductive, NEW b \in Browsers, NEW v \in Visitor,
         visitor' = [visitor EXCEPT ![b] = v], v.stage # "counted",
         envs' \in [EnvIds -> Environment], \A e \in EnvIds : Calm(e), now' = now, Known(b)'
  PROVE  SandboxInductive'
<1>1. SandboxTyped'
  BY DEF SandboxInductive, SandboxTyped
<1>2. \A c \in Browsers \ {b} : visitor'[c] = visitor[c]
  BY DEF SandboxInductive, SandboxTyped
<1>3. visitor'[b] = v
  BY DEF SandboxInductive, SandboxTyped
<1>4. now' \in Nat /\ now <= now'
  BY DEF SandboxInductive, SandboxTyped
<1>5. \A c \in Browsers : Known(c)'
  BY <1>2, <1>4, Bystander
<1>. QED
  BY <1>1, <1>2, <1>3, <1>5, CalmKeeps

LEMMA SameRowsCalm ==
  ASSUME SandboxTyped, UNCHANGED <<envs, now, lapsed>>
  PROVE  envs' \in [EnvIds -> Environment] /\ \A e \in EnvIds : Calm(e)
BY DEF SandboxTyped, Calm, Fresh, Timely, Unexpired

LEMMA MarkedCalm ==
  ASSUME SandboxTyped, NEW m \in EnvIds, envs' = Marked(envs, m), UNCHANGED <<now, lapsed>>
  PROVE  envs' \in [EnvIds -> Environment] /\ \A e \in EnvIds : Calm(e)
<1>1. envs' \in [EnvIds -> Environment]
  BY DEF SandboxTyped, Marked, Environment
<1>2. ASSUME NEW e \in EnvIds PROVE Calm(e)
  <2>1. envs[e] \in Environment /\ (envs'[e] = envs[e] \/ (envs'[e] = [envs[e] EXCEPT !.status = "purging"] /\ envs[e].status # "absent"))
    BY DEF SandboxTyped, Marked
  <2>2. CASE envs'[e] = envs[e]
    BY <2>2 DEF Calm, Fresh, Timely, Unexpired
  <2>3. CASE envs'[e] = [envs[e] EXCEPT !.status = "purging"] /\ envs[e].status # "absent"
    <3>1. envs'[e].status = "purging" /\ envs'[e].line = envs[e].line
      BY <2>1, <2>3 DEF Environment
    <3>. QED
      BY <2>3, <3>1 DEF Calm, Fresh, Timely, Unexpired
  <2>. QED
    BY <2>1, <2>2, <2>3
<1>. QED
  BY <1>1, <1>2

LEMMA AtRestKnown ==
  ASSUME NEW cookie \in Ids
  PROVE  /\ AtRest(cookie) \in Visitor
         /\ AtRest(cookie).stage = "idle" /\ AtRest(cookie).replaces = 0 /\ AtRest(cookie).time = 0
BY DEF AtRest, Visitor, Stages, Ids

\* A request is answered, or goes on to start an environment without having one.
LEMMA RespondKeeps ==
  ASSUME SandboxInductive, NEW b \in Browsers, NEW cookie \in Ids, Respond(b, cookie),
         envs' \in [EnvIds -> Environment], \A e \in EnvIds : Calm(e), now' = now
  PROVE  SandboxInductive'
<1>1. visitor' = [visitor EXCEPT ![b] = AtRest(cookie)] /\ visitor'[b] = AtRest(cookie)
  BY DEF Respond, SandboxInductive, SandboxTyped
<1>2. now \in Nat
  BY DEF SandboxInductive, SandboxTyped
<1>3. Known(b)'
  BY <1>1, <1>2, AtRestKnown DEF Known
<1>. QED
  BY <1>1, <1>3, AtRestKnown, ServedKeeps

LEMMA RefusedKeeps ==
  ASSUME SandboxInductive, NEW b \in Browsers, Refused(b),
         envs' \in [EnvIds -> Environment], \A e \in EnvIds : Calm(e), now' = now
  PROVE  SandboxInductive'
<1>. DEFINE v == [AtRest(0) EXCEPT !.stage = "starting"]
<1>1. 0 \in Ids
  BY DEF Ids
<1>2. v \in Visitor /\ v.stage = "starting" /\ v.replaces = 0 /\ v.time = 0
  BY DEF AtRest, Visitor, Stages, Ids
<1>3. CASE visitor' = [visitor EXCEPT ![b] = v]
  <2>1. visitor'[b] = v /\ now \in Nat
    BY <1>3 DEF SandboxInductive, SandboxTyped
  <2>. HIDE DEF v
  <2>2. Known(b)'
    BY <1>2, <2>1 DEF Known
  <2>. QED
    BY <1>2, <1>3, <2>2, ServedKeeps
<1>4. CASE Respond(b, 0)
  BY <1>1, <1>4, RespondKeeps
<1>. QED
  BY <1>3, <1>4 DEF Refused

LEMMA LoadEnvKeeps ==
  ASSUME SandboxInductive, NEW b \in Browsers, LoadEnv(b)
  PROVE  SandboxInductive'
<1>e. PICK e : e = visitor[b].cookie
  OBVIOUS
<1>1. envs' \in [EnvIds -> Environment] /\ (\A f \in EnvIds : Calm(f)) /\ now' = now
  BY SameRowsCalm DEF LoadEnv, envVars, SandboxInductive
<1>2. visitor \in [Browsers -> Visitor] /\ visitor[b] \in Visitor /\ visitor[b].stage = "idle" /\ Known(b)
      /\ now \in Nat
  BY DEF LoadEnv, SandboxInductive, SandboxTyped
<1>3. Exists(e) => e \in EnvIds /\ envs[e] \in Environment /\ envs[e].line # 0
  BY <1>e, <1>2 DEF Exists, Visitor, Ids, SandboxInductive, SandboxTyped, Rows
<1>4. CASE Refused(b)
  BY <1>1, <1>4, RefusedKeeps
<1>5. CASE Exists(e) /\ visitor' = [visitor EXCEPT ![b].env = e, ![b].stage = "lapsed"]
  <2>. DEFINE v == [visitor[b] EXCEPT !.env = e, !.stage = "lapsed"]
  <2>1. visitor' = [visitor EXCEPT ![b] = v] /\ visitor'[b] = v
    BY <1>2, <1>5
  <2>2. v \in Visitor /\ v.stage = "lapsed" /\ v.env # 0 /\ v.replaces = visitor[b].replaces /\ v.time = visitor[b].time
    BY <1>2, <1>3, <1>5 DEF Visitor, Stages, Ids, Exists
  <2>. HIDE DEF v
  <2>3. Known(b)'
    BY <1>1, <1>2, <2>1, <2>2 DEF Known
  <2>. QED
    BY <1>1, <2>1, <2>2, <2>3, ServedKeeps
<1>6. CASE /\ Exists(e) /\ Unexpired(e, now)
           /\ visitor' = [visitor EXCEPT ![b].env = e, ![b].expires = envs[e].expires, ![b].stage = "loaded"]
  <2>2. PICK x \in Nat : x = envs[e].expires
    BY <1>3, <1>6 DEF Environment
  <2>. DEFINE v == [visitor[b] EXCEPT !.env = e, !.expires = x, !.stage = "loaded"]
  <2>1. visitor' = [visitor EXCEPT ![b] = v] /\ visitor'[b] = v
    BY <1>2, <1>6, <2>2
  <2>3. v \in Visitor /\ v.stage = "loaded" /\ v.env = e /\ v.replaces = visitor[b].replaces /\ v.time = visitor[b].time
    BY <1>2, <1>3, <1>6, <2>2 DEF Visitor, Stages, Ids
  <2>4. Timely(e)' /\ envs'[e].line # 0 /\ e # 0
    BY <1>1, <1>3, <1>6 DEF Calm, Timely, Unexpired, Exists
  <2>. HIDE DEF v
  <2>5. Known(b)'
    BY <1>1, <1>2, <2>1, <2>3, <2>4 DEF Known, Timely
  <2>. QED
    BY <1>1, <2>1, <2>3, <2>5, ServedKeeps
<1>. QED
  BY <1>e, <1>4, <1>5, <1>6 DEF LoadEnv

LEMMA MarkLapsedKeeps ==
  ASSUME SandboxInductive, NEW b \in Browsers, MarkLapsed(b)
  PROVE  SandboxInductive'
<1>1. visitor[b].env \in EnvIds
  BY DEF MarkLapsed, SandboxInductive, SandboxTyped, Known, Visitor, Ids
<1>2. envs' \in [EnvIds -> Environment] /\ \A f \in EnvIds : Calm(f)
  BY <1>1, MarkedCalm DEF MarkLapsed, SandboxInductive
<1>. QED
  BY <1>2, RefusedKeeps DEF MarkLapsed

\* The expiry slides on: a row in use stays so, another one is on record as lapsed.
LEMMA SlidCalm ==
  ASSUME SandboxInductive, NEW m \in EnvIds, Timely(m),
         envs' = envs \/ (Exists(m) /\ envs' = [envs EXCEPT ![m].expires = now + TTL]),
         UNCHANGED <<now, lapsed>>
  PROVE  envs' \in [EnvIds -> Environment] /\ \A e \in EnvIds : Calm(e)
<1>1. CASE envs' = envs
  BY <1>1, SameRowsCalm DEF SandboxInductive
<1>2. CASE Exists(m) /\ envs' = [envs EXCEPT ![m].expires = now + TTL]
  <2>1. now \in Nat /\ now + TTL \in Nat /\ now < now + TTL
    BY SandboxAssumption DEF SandboxInductive, SandboxTyped
  <2>x. PICK x \in Nat : x = now + TTL
    BY <2>1
  <2>2. envs \in [EnvIds -> Environment] /\ envs' = [envs EXCEPT ![m].expires = x]
    BY <1>2, <2>x DEF SandboxInductive, SandboxTyped
  <2>3. envs' \in [EnvIds -> Environment]
    BY <2>2 DEF Environment
  <2>4. \A e \in EnvIds \ {m} : envs'[e] = envs[e]
    BY <2>2
  <2>5. /\ envs'[m].line = envs[m].line /\ envs'[m].status = envs[m].status
        /\ envs'[m].expires = x
    BY <2>2 DEF Environment
  <2>6. Calm(m)
    BY <1>2, <2>1, <2>5, <2>x DEF Calm, Fresh, Timely, Unexpired, Exists
  <2>7. \A e \in EnvIds \ {m} : Calm(e)
    BY <2>4 DEF Calm, Fresh, Timely, Unexpired
  <2>. QED
    BY <2>3, <2>6, <2>7
<1>. QED
  BY <1>1, <1>2

LEMMA TouchKeeps ==
  ASSUME SandboxInductive, NEW b \in Browsers, Touch(b)
  PROVE  SandboxInductive'
<1>e. PICK e : e = visitor[b].env
  OBVIOUS
<1>1. /\ visitor \in [Browsers -> Visitor] /\ visitor[b] \in Visitor /\ visitor[b].stage = "loaded"
      /\ Known(b) /\ now \in Nat
  BY DEF Touch, SandboxInductive, SandboxTyped
<1>2. e \in EnvIds /\ Timely(e) /\ envs[e].line # 0
  BY <1>e, <1>1 DEF Known, Visitor, Ids
<1>v. PICK v : v = [visitor[b] EXCEPT !.expires = 0]
  OBVIOUS
<1>3. v \in Visitor /\ v.env = e /\ v.replaces = 0 /\ v.time <= now
  BY <1>e, <1>v, <1>1 DEF Visitor, Known
<1>4. (envs' = envs \/ (Exists(e) /\ envs' = [envs EXCEPT ![e].expires = now + TTL])) /\ UNCHANGED <<now, lapsed>>
  BY <1>v, <1>3 DEF Touch
<1>5. envs' \in [EnvIds -> Environment] /\ \A f \in EnvIds : Calm(f)
  BY <1>2, <1>4, SlidCalm
<1>6. envs'[e].line # 0
  BY <1>2, <1>5 DEF Calm
<1>7. \/ visitor' = [visitor EXCEPT ![b] = [v EXCEPT !.stage = "starting"]]
      \/ visitor' = [visitor EXCEPT ![b] = [v EXCEPT !.stage = "creating", !.replaces = v.env, !.time = now]]
      \/ visitor' = [visitor EXCEPT ![b] = [v EXCEPT !.stage = "discarding"]]
      \/ visitor' = [visitor EXCEPT ![b] = AtRest(v.cookie)]
  BY <1>v DEF Touch
<1>8. ASSUME NEW w \in Visitor, visitor' = [visitor EXCEPT ![b] = w],
             w.stage \in {"starting", "creating", "discarding"}, w.env = e, w.time <= now,
             w.replaces = 0 \/ (w.replaces = e /\ w.stage = "creating")
      PROVE  SandboxInductive'
  <2>1. visitor'[b] = w /\ e # 0
    BY <1>1, <1>2, <1>8 DEF EnvIds
  <2>2. Known(b)'
    BY <1>4, <1>6, <1>8, <2>1 DEF Known
  <2>. QED
    BY <1>4, <1>5, <1>8, <2>2, ServedKeeps
<1>9. CASE visitor' = [visitor EXCEPT ![b] = [v EXCEPT !.stage = "starting"]]
  <2>. DEFINE w == [v EXCEPT !.stage = "starting"]
  <2>1. w \in Visitor /\ w.stage = "starting" /\ w.env = e /\ w.time <= now /\ w.replaces = 0
    BY <1>3 DEF Visitor, Stages
  <2>. QED
    BY <1>8, <1>9, <2>1
<1>10. CASE visitor' = [visitor EXCEPT ![b] = [v EXCEPT !.stage = "creating", !.replaces = v.env, !.time = now]]
  <2>t. PICK t \in Nat : t = now
    BY <1>1
  <2>. DEFINE w == [v EXCEPT !.stage = "creating", !.replaces = e, !.time = t]
  <2>1. w \in Visitor /\ w.stage = "creating" /\ w.env = e /\ w.time = t /\ w.replaces = e
    BY <1>2, <1>3 DEF Visitor, Stages, Ids
  <2>2. t <= now /\ visitor' = [visitor EXCEPT ![b] = w]
    BY <1>1, <1>3, <1>10, <2>t
  <2>. HIDE DEF w
  <2>. QED
    BY <1>8, <2>1, <2>2
<1>11. CASE visitor' = [visitor EXCEPT ![b] = [v EXCEPT !.stage = "discarding"]]
  <2>. DEFINE w == [v EXCEPT !.stage = "discarding"]
  <2>1. w \in Visitor /\ w.stage = "discarding" /\ w.env = e /\ w.time <= now /\ w.replaces = 0
    BY <1>3 DEF Visitor, Stages
  <2>. QED
    BY <1>8, <1>11, <2>1
<1>12. CASE visitor' = [visitor EXCEPT ![b] = AtRest(v.cookie)]
  <2>1. v.cookie \in Ids
    BY <1>3 DEF Visitor
  <2>. QED
    BY <1>4, <1>5, <1>12, <2>1, RespondKeeps DEF Respond
<1>. QED
  BY <1>7, <1>9, <1>10, <1>11, <1>12

LEMMA AnsweringKeeps ==
  ASSUME SandboxInductive, NEW b \in Browsers, Resume(b) \/ Leave(b) \/ Abandon(b) \/ DiscardSandbox(b)
  PROVE  SandboxInductive'
<1>1. visitor[b] \in Visitor /\ Known(b) /\ SandboxTyped
  BY DEF SandboxInductive, SandboxTyped
<1>2. CASE Resume(b)
  <2>1. visitor[b].cookie \in Ids
    BY <1>1 DEF Visitor
  <2>2. envs' \in [EnvIds -> Environment] /\ \A f \in EnvIds : Calm(f)
    BY <1>1, <1>2, SameRowsCalm DEF Resume, envVars
  <2>. QED
    BY <1>2, <2>1, <2>2, RespondKeeps DEF Resume
<1>3. CASE Leave(b)
  <2>1. visitor[b].env \in EnvIds /\ visitor[b].made \in Ids
    BY <1>1, <1>3 DEF Leave, Known, Visitor, Ids
  <2>2. envs' \in [EnvIds -> Environment] /\ \A f \in EnvIds : Calm(f)
    BY <1>1, <1>3, <2>1, MarkedCalm DEF Leave
  <2>. QED
    BY <1>3, <2>1, <2>2, RespondKeeps DEF Leave
<1>4. CASE Abandon(b)
  <2>1. visitor[b].made \in EnvIds /\ visitor[b].cookie \in Ids
    BY <1>1, <1>4 DEF Abandon, Known, Visitor, Ids
  <2>2. envs' \in [EnvIds -> Environment] /\ \A f \in EnvIds : Calm(f)
    BY <1>1, <1>4, <2>1, MarkedCalm DEF Abandon
  <2>. QED
    BY <1>4, <2>1, <2>2, RespondKeeps DEF Abandon
<1>5. CASE DiscardSandbox(b)
  <2>1. visitor[b].env \in EnvIds /\ 0 \in Ids
    BY <1>1, <1>5 DEF DiscardSandbox, Known, Visitor, Ids
  <2>2. envs' \in [EnvIds -> Environment] /\ \A f \in EnvIds : Calm(f)
    BY <1>1, <1>5, <2>1, MarkedCalm DEF DiscardSandbox
  <2>. QED
    BY <1>5, <2>1, <2>2, RespondKeeps DEF DiscardSandbox
<1>. QED
  BY <1>2, <1>3, <1>4, <1>5

\* Among environments that are found there is a newest one.
LEMMA NewestFound ==
  ASSUME NEW S \in SUBSET EnvIds, S # {}
  PROVE  \E n \in S : \A m \in S : m <= n
<1>. DEFINE U == {u \in Nat : \A n \in S : n <= u}
<1>1. S \subseteq Nat /\ MaxEnvs \in U
  BY SandboxAssumption DEF EnvIds
<1>2. PICK u \in U : \A v \in U : ~(<<v, u>> \in OpToRel(<, Nat))
  <2>1. U \subseteq Nat /\ U # {}
    BY <1>1
  <2>. QED
    BY <2>1, NatLessThanWellFounded, WFMin
<1>3. \A v \in U : ~(v < u)
  BY <1>2 DEF OpToRel
<1>4. u \in S
  <2>. SUFFICES ASSUME u \notin S PROVE FALSE
    OBVIOUS
  <2>1. PICK n \in S : TRUE
    OBVIOUS
  <2>2. u \in Nat /\ n \in Nat /\ n <= u /\ n # u /\ 0 < n
    BY <1>1, <2>1 DEF EnvIds
  <2>3. u - 1 \in Nat /\ \A m \in S : m <= u - 1
    BY <1>1, <2>2
  <2>. QED
    BY <1>3, <2>2, <2>3
<1>. QED
  BY <1>2, <1>4

LEMMA FindOwnKeeps ==
  ASSUME SandboxInductive, NEW b \in Browsers, FindOwn(b)
  PROVE  SandboxInductive'
<1>f. PICK found \in SUBSET EnvIds : found = OwnInUse(b)
  BY DEF OwnInUse, Mine
<1>1. /\ visitor \in [Browsers -> Visitor] /\ visitor[b] \in Visitor /\ visitor[b].stage = "starting"
      /\ Known(b) /\ now \in Nat
  BY DEF FindOwn, SandboxInductive, SandboxTyped
<1>2. /\ envs' = [e \in EnvIds |-> IF e \in Mine(b) \cap outdated THEN Marked(envs, e)[e] ELSE envs[e]]
      /\ UNCHANGED <<now, lapsed>>
  BY DEF FindOwn
<1>3. envs' \in [EnvIds -> Environment] /\ \A e \in EnvIds : Calm(e)
  <2>1. ASSUME NEW e \in EnvIds
        PROVE  envs'[e] = envs[e] \/ (envs'[e] = [envs[e] EXCEPT !.status = "purging"] /\ envs[e].status # "absent")
    BY <1>2 DEF Marked, SandboxInductive, SandboxTyped
  <2>2. ASSUME NEW e \in EnvIds PROVE envs'[e] \in Environment /\ Calm(e)
    <3>1. envs[e] \in Environment
      BY DEF SandboxInductive, SandboxTyped
    <3>2. CASE envs'[e] = envs[e]
      BY <1>2, <3>1, <3>2 DEF Calm, Fresh, Timely, Unexpired
    <3>3. CASE envs'[e] = [envs[e] EXCEPT !.status = "purging"] /\ envs[e].status # "absent"
      <4>1. envs'[e] \in Environment
        BY <3>1, <3>3 DEF Environment
      <4>2. envs'[e].status = "purging" /\ envs'[e].line = envs[e].line
        BY <3>1, <3>3 DEF Environment
      <4>. QED
        BY <3>3, <4>1, <4>2 DEF Calm, Fresh, Timely, Unexpired
    <3>. QED
      BY <2>1, <3>2, <3>3
  <2>. QED
    BY <1>2, <2>2
<1>x. PICK x : x = IF found = {} THEN 0 ELSE Newest(found)
  OBVIOUS
<1>s. PICK s : s = IF found = {} THEN "creating" ELSE "entering"
  OBVIOUS
<1>t. PICK t \in Nat : t = now
  BY <1>1
<1>4. x \in Ids /\ s \in {"entering", "creating"} /\ (s = "entering" => x # 0)
  <2>1. CASE found # {}
    <3>1. x \in found
      BY <1>x, <2>1, NewestFound DEF Newest
    <3>2. x \in EnvIds
      BY <3>1
    <3>. QED
      BY <1>s, <2>1, <3>2 DEF Ids, EnvIds
  <2>2. CASE found = {}
    BY <1>x, <1>s, <2>2 DEF Ids
  <2>. QED
    BY <2>1, <2>2
<1>5. visitor' = [visitor EXCEPT ![b].time = t, ![b].stage = s, ![b].made = x]
  BY <1>f, <1>x, <1>s, <1>t DEF FindOwn
<1>v. DEFINE v == [visitor[b] EXCEPT !.time = t, !.stage = s, !.made = x]
<1>6. visitor' = [visitor EXCEPT ![b] = v] /\ visitor'[b] = v
  BY <1>1, <1>5
<1>7. v \in Visitor /\ v.stage = s /\ v.time = t /\ v.made = x /\ v.env = visitor[b].env /\ v.replaces = visitor[b].replaces
  BY <1>1, <1>4 DEF Visitor, Stages
<1>8. v.replaces = 0
  BY <1>1, <1>7 DEF Known
<1>. HIDE DEF v
<1>9. Known(b)'
  BY <1>1, <1>2, <1>4, <1>6, <1>7, <1>8, <1>t DEF Known
<1>. QED
  BY <1>2, <1>3, <1>4, <1>6, <1>7, <1>9, ServedKeeps

LEMMA EnterKeeps ==
  ASSUME SandboxInductive, NEW b \in Browsers, Enter(b)
  PROVE  SandboxInductive'
<1>v. PICK v : v = visitor[b]
  OBVIOUS
<1>1. /\ visitor \in [Browsers -> Visitor] /\ v \in Visitor /\ v.stage = "entering"
      /\ Known(b) /\ now \in Nat /\ UNCHANGED <<envs, now, lapsed>>
  BY <1>v DEF Enter, envVars, SandboxInductive, SandboxTyped
<1>2. envs' \in [EnvIds -> Environment] /\ \A f \in EnvIds : Calm(f)
  BY <1>1, SameRowsCalm DEF SandboxInductive
<1>3. v.cookie \in Ids /\ v.made \in Ids
  BY <1>1 DEF Visitor
<1>4. CASE Respond(b, v.cookie) \/ Respond(b, v.made)
  BY <1>1, <1>2, <1>3, <1>4, RespondKeeps
<1>5. CASE /\ v.env # 0
           /\ visitor' = [visitor EXCEPT ![b] =
                [v EXCEPT !.stage = "leaving", !.cookie = IF v.replaces = 0 THEN v.made ELSE @]]
  <2>c. PICK c \in Ids : c = IF v.replaces = 0 THEN v.made ELSE v.cookie
    BY <1>3
  <2>. DEFINE w == [v EXCEPT !.stage = "leaving", !.cookie = c]
  <2>1. /\ w \in Visitor /\ w.stage = "leaving" /\ w.time = v.time /\ w.made = v.made
        /\ w.env = v.env /\ w.replaces = v.replaces
    BY <1>1 DEF Visitor, Stages
  <2>2. visitor' = [visitor EXCEPT ![b] = w]
    BY <1>1, <1>5, <2>c DEF Visitor
  <2>. HIDE DEF w
  <2>3. visitor'[b] = w
    BY <1>1, <2>2
  <2>4. Known(b)'
    BY <1>v, <1>1, <1>5, <2>1, <2>3 DEF Known
  <2>. QED
    BY <1>1, <1>2, <2>1, <2>2, <2>4, ServedKeeps
<1>. QED
  BY <1>v, <1>4, <1>5 DEF Enter, Respond

-----------------------------------------------------------------------------
(* The count and the creation.                                              *)

\* What is counted covers the slots beside the one that is given back.
LEMMA OthersCounted ==
  ASSUME SandboxInductive, NEW b \in Browsers
  PROVE  LET used == {e \in EnvIds \ {visitor[b].replaces} : Unexpired(e, visitor[b].time)}
         IN  Cardinality(Others(b)) <= Cardinality(used) /\ Cardinality(Others(b)) \in Nat
             /\ Cardinality(used) \in Nat
<1>. DEFINE r == visitor[b].replaces
            t == visitor[b].time
            used == {e \in EnvIds \ {r} : Unexpired(e, t)}
            lines == {envs[e].line : e \in used}
<1>1. t \in Nat /\ t <= now /\ now \in Nat /\ r \in Ids
  BY DEF SandboxInductive, SandboxTyped, Visitor, Known
<1>2. \A e \in EnvIds : Unexpired(e, now) => Unexpired(e, t)
  BY <1>1 DEF Unexpired, SandboxInductive, SandboxTyped, Environment
<1>3. Others(b) \subseteq lines
  <2>1. ASSUME NEW n \in Others(b) PROVE n \in lines
    <3>1. n \in Slots /\ (r # 0 => n # envs[r].line)
      BY <2>1 DEF Others
    <3>2. PICK e \in EnvIds : n = envs[e].line /\ Unexpired(e, now)
      BY <3>1 DEF Slots
    <3>3. e # r
      BY <3>1, <3>2 DEF EnvIds
    <3>. QED
      BY <1>2, <3>2, <3>3
  <2>. QED
    BY <2>1
<1>4. /\ IsFiniteSet(lines) /\ Cardinality(lines) <= Cardinality(used)
      /\ Cardinality(lines) \in Nat /\ Cardinality(used) \in Nat
  <2>1. used \subseteq EnvIds /\ SandboxTyped
    BY DEF SandboxInductive
  <2>. QED
    BY <2>1, LinesCounted
<1>5. Cardinality(Others(b)) <= Cardinality(lines) /\ Cardinality(Others(b)) \in Nat
  BY <1>3, <1>4, SubsetCounted
<1>. QED
  BY <1>4, <1>5

LEMMA CountSlotsKeeps ==
  ASSUME SandboxInductive, NEW b \in Browsers, CountSlots(b)
  PROVE  SandboxInductive'
<1>1. /\ visitor \in [Browsers -> Visitor] /\ visitor[b] \in Visitor /\ visitor[b].stage = "creating"
      /\ Known(b) /\ now \in Nat /\ UNCHANGED <<envs, now, lapsed>>
  BY DEF CountSlots, envVars, SandboxInductive, SandboxTyped
<1>2. envs' \in [EnvIds -> Environment] /\ \A f \in EnvIds : Calm(f)
  BY <1>1, SameRowsCalm DEF SandboxInductive
<1>c. PICK n : n = Cardinality({e \in EnvIds \ {visitor[b].replaces} : Unexpired(e, visitor[b].time)})
  OBVIOUS
<1>3. IF n < MaxActive THEN Progressed(b, "counted") ELSE Respond(b, visitor[b].cookie)
  BY ONLY <1>c, CountSlots(b), Zenon DEF CountSlots
<1>4. CASE Respond(b, visitor[b].cookie)
  <2>1. visitor[b].cookie \in Ids
    BY <1>1 DEF Visitor
  <2>. QED
    BY <1>1, <1>2, <1>4, <2>1, RespondKeeps
<1>5. CASE n < MaxActive /\ Progressed(b, "counted")
  <2>. DEFINE v == [visitor[b] EXCEPT !.stage = "counted"]
  <2>1. visitor' = [visitor EXCEPT ![b] = v] /\ visitor'[b] = v
    BY <1>1, <1>5 DEF Progressed
  <2>2. /\ v \in Visitor /\ v.stage = "counted" /\ v.env = visitor[b].env
        /\ v.replaces = visitor[b].replaces /\ v.time = visitor[b].time
    BY <1>1 DEF Visitor, Stages
  <2>. HIDE DEF v
  <2>3. \A c \in Browsers \ {b} : visitor'[c] = visitor[c] /\ visitor'[c].stage # "counted"
    BY <1>1, <2>1 DEF CountSlots, SettingsLocked
  <2>4. SandboxTyped'
    BY <1>1, <1>2, <2>1, <2>2 DEF SandboxTyped
  <2>5. Slots' = Slots
    BY <1>1 DEF Slots, Unexpired
  <2>6. Rows' /\ WithinCapacity'
    BY <1>1, <2>5 DEF SandboxInductive, Rows, WithinCapacity
  <2>7. Exclusive'
    BY <2>3 DEF Exclusive
  <2>8. \A c \in Browsers : Known(c)'
    <3>1. Known(b)'
      BY <1>1, <2>1, <2>2 DEF Known
    <3>2. \A c \in Browsers \ {b} : Known(c)'
      BY <1>1, <1>2, <2>3, Bystander
    <3>. QED
      BY <3>1, <3>2
  <2>9. \A c \in Browsers : Counted(c)'
    <3>1. Counted(b)'
      <4>1. Cardinality(Others(b)) <= n /\ Cardinality(Others(b)) \in Nat /\ n \in Nat
        BY <1>c, OthersCounted
      <4>2. Others(b)' = Others(b)
        BY <1>1, <2>1, <2>2, <2>5 DEF Others
      <4>3. Cardinality(Others(b)) < MaxActive
        BY <1>5, <4>1, SandboxAssumption
      <4>. QED
        BY <4>2, <4>3 DEF Counted
    <3>. QED
      BY <2>3, <3>1 DEF Counted
  <2>. QED
    BY <2>4, <2>6, <2>7, <2>8, <2>9 DEF SandboxInductive
<1>. QED
  BY <1>3, <1>4, <1>5

\* The new row takes the one slot that was free, or the slot of the row it replaces.
LEMMA CreateEnvironmentKeeps ==
  ASSUME SandboxInductive, People, NEW b \in Browsers, CreateEnvironment(b)
  PROVE  SandboxInductive'
<1>r. PICK r : r = visitor[b].replaces
  OBVIOUS
<1>1. /\ envs \in [EnvIds -> Environment] /\ visitor \in [Browsers -> Visitor] /\ visitor[b] \in Visitor
      /\ visitor[b].stage = "counted" /\ Known(b) /\ Counted(b) /\ now \in Nat
      /\ UNCHANGED <<now, lapsed>>
  BY DEF CreateEnvironment, SandboxInductive, SandboxTyped
<1>2. r \in Ids /\ (r # 0 => r \in EnvIds /\ envs[r].line # 0)
  BY <1>r, <1>1 DEF Visitor, Known, Ids
<1>3. PICK e \in EnvIds :
        /\ \A earlier \in EnvIds : envs[earlier].line = 0 <=> earlier >= e
        /\ envs' = [envs EXCEPT ![e] =
             [status |-> "active", source |-> IF r = 0 THEN signedIn[b] ELSE envs[r].source,
              expires |-> visitor[b].time + TTL, files |-> TRUE, line |-> IF r = 0 THEN e ELSE envs[r].line]]
        /\ visitor' = [visitor EXCEPT ![b].made = e, ![b].time = 0, ![b].stage = "entering"]
  BY <1>r DEF CreateEnvironment
<1>l. PICK l : l = IF r = 0 THEN e ELSE envs[r].line
  OBVIOUS
<1>s. PICK s : s = IF r = 0 THEN signedIn[b] ELSE envs[r].source
  OBVIOUS
<1>x. PICK x : x = visitor[b].time + TTL
  OBVIOUS
<1>4. envs[e].line = 0 /\ e # 0
  BY <1>3 DEF EnvIds
<1>5. l \in EnvIds
  BY <1>1, <1>2, <1>l, <1>4 DEF Environment, Ids
<1>6. s \in Accounts \cup {Nobody} /\ x \in Nat
  BY <1>1, <1>2, <1>s, <1>x, SandboxAssumption DEF People, Environment, Visitor
<1>. DEFINE row == [status |-> "active", source |-> s, expires |-> x, files |-> TRUE, line |-> l]
            v == [visitor[b] EXCEPT !.made = e, !.time = 0, !.stage = "entering"]
<1>7. envs' = [envs EXCEPT ![e] = row]
  BY <1>3, <1>l, <1>s, <1>x
<1>8. row \in Environment /\ row.line = l
  BY <1>5, <1>6 DEF Environment, Ids
<1>9. /\ v \in Visitor /\ v.stage = "entering" /\ v.made = e /\ v.time = 0 /\ v.replaces = r
  BY <1>r, <1>1 DEF Visitor, Stages, Ids
<1>10. visitor' = [visitor EXCEPT ![b] = v]
  BY <1>1, <1>3
<1>. HIDE DEF row, v
<1>11. /\ envs'[e] = row /\ visitor'[b] = v
       /\ \A f \in EnvIds \ {e} : envs'[f] = envs[f]
       /\ \A c \in Browsers \ {b} : visitor'[c] = visitor[c]
  BY <1>1, <1>7, <1>10
<1>12. SandboxTyped'
  BY <1>1, <1>7, <1>8, <1>9, <1>10 DEF SandboxTyped
<1>13. \A f \in EnvIds : envs[f].line # 0 => envs'[f] = envs[f]
  BY <1>4, <1>11
<1>14. Rows'
  <2>1. l # 0
    BY <1>5 DEF EnvIds
  <2>. QED
    BY <1>8, <1>11, <2>1 DEF SandboxInductive, Rows
<1>15. \A c \in Browsers : visitor'[c].stage # "counted"
  BY <1>1, <1>9, <1>11 DEF SandboxInductive, Exclusive
<1>16. WithinCapacity'
  <2>1. Slots' \subseteq Others(b) \cup {l}
    <3>1. ASSUME NEW n \in Slots', n # l PROVE n \in Others(b)
      <4>1. PICK f \in EnvIds \ lapsed : n = envs'[f].line /\ Unexpired(f, now)'
        BY <1>1, <3>1 DEF Slots, Unexpired
      <4>2. f # e
        BY <1>8, <1>11, <3>1, <4>1
      <4>3. n = envs[f].line /\ Unexpired(f, now)
        BY <1>1, <1>11, <4>1, <4>2 DEF Unexpired
      <4>4. n \in Slots
        BY <4>1, <4>3 DEF Slots
      <4>. QED
        BY <1>r, <1>l, <3>1, <4>4 DEF Others
    <3>. QED
      BY <3>1
  <2>2. IsFiniteSet(Others(b))
    <3>1. IsFiniteSet(Slots) /\ Others(b) \subseteq Slots
      BY SlotsCounted DEF SandboxInductive, Others
    <3>. QED
      BY <3>1, SubsetCounted
  <2>3. Cardinality(Others(b)) < MaxActive
    BY <1>1 DEF Counted
  <2>4. Cardinality(Slots') <= MaxActive
    BY <2>1, <2>2, <2>3, OneMore
  <2>. QED
    BY <2>4 DEF WithinCapacity
<1>17. \A c \in Browsers : Known(c)'
  <2>1. Known(b)'
    BY <1>1, <1>2, <1>4, <1>9, <1>11, <1>13 DEF Known
  <2>2. ASSUME NEW c \in Browsers \ {b} PROVE Known(c)'
    <3>1. visitor'[c] = visitor[c] /\ visitor[c] \in Visitor /\ Known(c)
      BY <1>1, <1>11 DEF SandboxInductive
    <3>2. visitor[c].env \in Ids /\ visitor[c].replaces \in Ids
      BY <3>1 DEF Visitor
    <3>3. visitor[c].replaces # 0 => envs'[visitor[c].replaces].line # 0
      BY <1>13, <3>1, <3>2 DEF Known, Ids
    <3>4. visitor[c].stage = "loaded" =>
            Timely(visitor[c].env)' /\ envs'[visitor[c].env].line # 0
      BY <1>1, <1>13, <3>1, <3>2 DEF Known, Ids, Timely
    <3>. QED
      BY <1>1, <3>1, <3>3, <3>4 DEF Known
  <2>. QED
    BY <2>1, <2>2
<1>. QED
  BY <1>12, <1>14, <1>15, <1>16, <1>17 DEF SandboxInductive, Exclusive, Counted

-----------------------------------------------------------------------------
(* The housekeeping, the server and the clock.                             *)

\* Steps beside the requests.
LEMMA AsideKeeps ==
  ASSUME SandboxInductive, UNCHANGED visitor, now' \in Nat, now <= now',
         envs' \in [EnvIds -> Environment], \A e \in EnvIds : Calm(e)
  PROVE  SandboxInductive'
<1>1. SandboxTyped'
  BY DEF SandboxInductive, SandboxTyped
<1>2. \A b \in Browsers : Known(b)'
  BY Bystander
<1>. QED
  BY <1>1, <1>2, CalmKeeps

LEMMA PurgingKeeps ==
  ASSUME SandboxInductive, Purging \/ PurgeFails
  PROVE  SandboxInductive'
<1>1. envs \in [EnvIds -> Environment] /\ now \in Nat /\ now <= now /\ SandboxTyped
  BY DEF SandboxInductive, SandboxTyped
<1>2. CASE FindDue \/ PurgeFails
  <2>1. UNCHANGED <<envs, visitor, now, lapsed>>
    BY <1>2 DEF FindDue, PurgeFails, envVars
  <2>. QED
    BY <1>1, <2>1, SameRowsCalm, AsideKeeps
<1>3. ASSUME NEW e \in EnvIds, PurgeMark(e) PROVE SandboxInductive'
  <2>1. envs' \in [EnvIds -> Environment] /\ \A f \in EnvIds : Calm(f)
    BY <1>1, <1>3, MarkedCalm DEF PurgeMark
  <2>. QED
    BY <1>1, <1>3, <2>1, AsideKeeps DEF PurgeMark
<1>4. ASSUME NEW e \in EnvIds, PurgeFiles(e) PROVE SandboxInductive'
  <2>1. envs' = [envs EXCEPT ![e].files = FALSE] /\ UNCHANGED <<visitor, now, lapsed>>
    BY <1>4 DEF PurgeFiles
  <2>2. envs' \in [EnvIds -> Environment]
    BY <1>1, <2>1 DEF Environment
  <2>3. \A f \in EnvIds : /\ envs'[f].line = envs[f].line /\ envs'[f].status = envs[f].status
                           /\ envs'[f].expires = envs[f].expires
    BY <1>1, <2>1 DEF Environment
  <2>4. \A f \in EnvIds : Calm(f)
    BY <2>1, <2>3 DEF Calm, Fresh, Timely, Unexpired
  <2>. QED
    BY <1>1, <2>1, <2>2, <2>4, AsideKeeps
<1>5. ASSUME NEW e \in EnvIds, PurgeRows(e) PROVE SandboxInductive'
  <2>1. envs' = [envs EXCEPT ![e].status = "absent", ![e].expires = 0] /\ UNCHANGED <<visitor, now, lapsed>>
    BY <1>5 DEF PurgeRows
  <2>2. envs' \in [EnvIds -> Environment]
    BY <1>1, <2>1 DEF Environment
  <2>3. /\ \A f \in EnvIds : envs'[f].line = envs[f].line
        /\ \A f \in EnvIds \ {e} : envs'[f] = envs[f]
        /\ envs'[e].status = "absent"
    BY <1>1, <2>1 DEF Environment
  <2>4. Calm(e)
    BY <2>1, <2>3 DEF Calm, Fresh, Timely, Unexpired
  <2>5. \A f \in EnvIds \ {e} : Calm(f)
    BY <2>1, <2>3 DEF Calm, Fresh, Timely, Unexpired
  <2>. QED
    BY <1>1, <2>1, <2>2, <2>4, <2>5, AsideKeeps
<1>. QED
  BY <1>2, <1>3, <1>4, <1>5 DEF Purging

LEMMA RestartKeeps ==
  ASSUME SandboxInductive, NEW upgraded, Restart(upgraded)
  PROVE  SandboxInductive'
<1>1. /\ visitor \in [Browsers -> Visitor] /\ now \in Nat /\ SandboxTyped
      /\ visitor' = [b \in Browsers |-> AtRest(visitor[b].cookie)]
      /\ UNCHANGED <<envs, now, lapsed>>
  BY DEF Restart, SandboxInductive, SandboxTyped
<1>2. envs' \in [EnvIds -> Environment] /\ \A e \in EnvIds : Calm(e)
  BY <1>1, SameRowsCalm
<1>3. ASSUME NEW b \in Browsers
      PROVE  /\ visitor'[b] \in Visitor /\ visitor'[b].stage = "idle"
             /\ visitor'[b].replaces = 0 /\ visitor'[b].time = 0
  <2>1. visitor[b].cookie \in Ids
    BY <1>1 DEF Visitor
  <2>. QED
    BY <1>1, <2>1, AtRestKnown
<1>4. SandboxTyped'
  BY <1>1, <1>2, <1>3 DEF SandboxTyped
<1>5. \A b \in Browsers : Known(b)'
  BY <1>1, <1>3 DEF Known
<1>. QED
  BY <1>2, <1>3, <1>4, <1>5, CalmKeeps

LEMMA TickKeeps ==
  ASSUME SandboxInductive, SandboxTick
  PROVE  SandboxInductive'
<1>1. /\ envs \in [EnvIds -> Environment] /\ now \in Nat /\ now' = now + 1
      /\ lapsed' = lapsed \cup {e \in EnvIds : Exists(e) /\ envs[e].expires <= now + 1}
      /\ UNCHANGED <<envs, visitor>>
  BY DEF SandboxTick, envVars, SandboxInductive, SandboxTyped
<1>2. ASSUME NEW e \in EnvIds PROVE Calm(e)
  <2>1. envs[e].expires \in Nat /\ e # 0 /\ envs'[e] = envs[e]
    BY <1>1 DEF Environment, EnvIds
  <2>2. Fresh(e)' => Fresh(e)
    BY <1>1, <2>1 DEF Fresh, Unexpired
  <2>3. Timely(e) => Timely(e)'
    BY <1>1, <2>1 DEF Timely, Exists
  <2>. QED
    BY <2>1, <2>2, <2>3 DEF Calm
<1>3. now' \in Nat /\ now <= now'
  BY <1>1
<1>. QED
  BY <1>1, <1>2, <1>3, AsideKeeps

-----------------------------------------------------------------------------
LEMMA SandboxStarts == SandboxInit => SandboxInductive
<1>. SUFFICES ASSUME SandboxInit PROVE SandboxInductive
  OBVIOUS
<1>1. /\ envs = [e \in EnvIds |-> NoEnv] /\ visitor = [b \in Browsers |-> AtRest(0)]
      /\ now = 0
  BY DEF SandboxInit
<1>2. NoEnv \in Environment /\ NoEnv.status = "absent" /\ 0 \in Ids
  BY DEF NoEnv, Environment, Ids
<1>3. SandboxTyped
  BY <1>1, <1>2, AtRestKnown DEF SandboxTyped
<1>4. Rows
  BY <1>1, <1>2 DEF Rows
<1>5. Exclusive /\ \A b \in Browsers : Known(b) /\ Counted(b)
  BY <1>1, <1>2, AtRestKnown DEF Exclusive, Known, Counted
<1>6. WithinCapacity
  <2>1. Slots = {}
    BY <1>1, <1>2 DEF Slots, Unexpired
  <2>2. Cardinality(Slots) = 0 /\ MaxActive \in Nat
    BY <2>1, FS_EmptySet, SandboxAssumption
  <2>. QED
    BY <2>2 DEF WithinCapacity
<1>. QED
  BY <1>3, <1>4, <1>5, <1>6 DEF SandboxInductive

LEMMA StutterKeeps ==
  ASSUME SandboxInductive, UNCHANGED sandboxVars
  PROVE  SandboxInductive'
<1>1. UNCHANGED <<envs, visitor, now, lapsed>>
  BY DEF sandboxVars, envVars
<1>2. SandboxTyped /\ now' \in Nat /\ now <= now'
  BY <1>1 DEF SandboxInductive, SandboxTyped
<1>. QED
  BY <1>1, <1>2, SameRowsCalm, AsideKeeps

LEMMA SignInOrOutKeeps ==
  ASSUME SandboxInductive, NEW b \in Browsers, SignInOrOut(b)
  PROVE  SandboxInductive'
<1>1. UNCHANGED <<envs, visitor, now, lapsed>>
  BY DEF SignInOrOut, envVars
<1>2. SandboxTyped /\ now' \in Nat /\ now <= now'
  BY <1>1 DEF SandboxInductive, SandboxTyped
<1>. QED
  BY <1>1, <1>2, SameRowsCalm, AsideKeeps

LEMMA PeopleStay ==
  ASSUME People, [SandboxNext]_sandboxVars
  PROVE  People'
<1>1. ASSUME NEW b \in Browsers, Served(b) PROVE signedIn' = signedIn
  <2>1. CASE LoadEnv(b) \/ MarkLapsed(b) \/ Touch(b) \/ Resume(b) \/ FindOwn(b)
    BY <2>1 DEF LoadEnv, MarkLapsed, Touch, Resume, FindOwn
  <2>2. CASE CountSlots(b) \/ CreateEnvironment(b) \/ Enter(b) \/ Leave(b) \/ Abandon(b) \/ DiscardSandbox(b)
    BY <2>2 DEF CountSlots, CreateEnvironment, Enter, Leave, Abandon, DiscardSandbox
  <2>. QED
    BY <1>1, <2>1, <2>2 DEF Served
<1>2. ASSUME NEW b \in Browsers, SignInOrOut(b) PROVE People'
  BY <1>2 DEF SignInOrOut, People
<1>3. CASE Purging \/ PurgeFails
  BY <1>3 DEF People, Purging, FindDue, PurgeMark, PurgeFiles, PurgeRows, PurgeFails
<1>4. ASSUME NEW upgraded, Restart(upgraded) PROVE signedIn' = signedIn
  BY <1>4 DEF Restart
<1>5. CASE SandboxTick \/ UNCHANGED sandboxVars
  BY <1>5 DEF People, SandboxTick, sandboxVars
<1>. QED
  BY <1>1, <1>2, <1>3, <1>4, <1>5 DEF SandboxNext, People

LEMMA SandboxSteps ==
  ASSUME SandboxInductive, People, [SandboxNext]_sandboxVars
  PROVE  SandboxInductive'
<1>1. ASSUME NEW b \in Browsers, Served(b) PROVE SandboxInductive'
  BY <1>1, LoadEnvKeeps, MarkLapsedKeeps, TouchKeeps, AnsweringKeeps, FindOwnKeeps,
     CountSlotsKeeps, CreateEnvironmentKeeps, EnterKeeps DEF Served
<1>. QED
  BY <1>1, SignInOrOutKeeps, PurgingKeeps, RestartKeeps, TickKeeps, StutterKeeps DEF SandboxNext

\* services/sandbox Create: the count and the creation under the lock of the settings
\* row keep the practice environments within MaxActive, however starts, resets,
\* requests, housekeeping and restarts interleave.
THEOREM CapacityKept == SandboxSpec => []WithinCapacity
<1>1. SandboxInductive => WithinCapacity
  BY DEF SandboxInductive
<1>2. SandboxInit => SandboxInductive /\ People
  BY SandboxStarts DEF SandboxInit, People
<1>3. SandboxInductive /\ People /\ [SandboxNext]_sandboxVars => (SandboxInductive /\ People)'
  BY SandboxSteps, PeopleStay
<1>. QED
  BY <1>1, <1>2, <1>3, PTL DEF SandboxSpec

-----------------------------------------------------------------------------
(* Recurring finance.                                                       *)

Rule == [status : {"none", "kept", "gone"}, active : BOOLEAN, start : Int, next : Int]
Line == [for : (Rules \cup {NoRule}) \X Int, on : Int, settled : BOOLEAN, cancelled : BOOLEAN]
Call == [step : {"idle", "book", "list", "set"}, rule : Rules \cup {NoRule}, active : BOOLEAN,
         next : Int, left : SUBSET Rules, through : Int]

FinanceTyped ==
  /\ rules \in [Rules -> Rule]
  /\ booked \subseteq Rules \X Int
  /\ entries \in Seq(Line)
  /\ call \in [Workers -> Call]
  /\ day \in Int

\* An occurrence of a rule that has an entry is on record, as long as the rule
\* is there; a rule that is not there yet has none.
OnRecord ==
  \A i \in DOMAIN entries : \A r \in Rules :
    entries[i].for[1] = r => rules[r].status # "none" /\ (Kept(r) => entries[i].for \in booked)

HasEntry(b) == \E i \in DOMAIN entries : entries[i].for = b
Backed == \A b \in booked : HasEntry(b)

\* A day on which a rule may go on: it is on the schedule, and every occurrence
\* before it was booked or passed over.
OnSchedule(a, d) == \E k \in Nat : d = a + k * Interval
GoesOn(r, n) ==
  /\ OnSchedule(rules[r].start, n)
  /\ \A d \in Occurrences(rules[r].start, n - 1) : <<r, d>> \in booked \cup skipped

RulesGoOn == \A r \in Rules : Kept(r) => GoesOn(r, rules[r].next)

\* What a change of a rule has read stays a day to go on from.
GoodRead(q) ==
  q.step = "set" =>
    /\ q.rule \in Rules /\ rules[q.rule].status # "none"
    /\ Kept(q.rule) => GoesOn(q.rule, q.next)
ReadsGoOn == \A c \in Workers : GoodRead(call[c])

FinanceInductive == FinanceTyped /\ OnRecord /\ EnteredOnce /\ Backed /\ RulesGoOn /\ ReadsGoOn

-----------------------------------------------------------------------------
(* The schedule.                                                            *)

LEMMA Ordered ==
  ASSUME NEW j \in Nat, NEW k \in Nat, j * Interval < k * Interval
  PROVE  j + 1 <= k /\ (j + 1) * Interval <= k * Interval
<1>1. Interval \in Nat \ {0}
  BY FinanceAssumption
<1>2. j < k
  <2>. SUFFICES ASSUME k <= j PROVE FALSE
    OBVIOUS
  <2>1. PICK m \in Nat : j = k + m
    <3>1. j - k \in Nat /\ j = k + (j - k)
      OBVIOUS
    <3>. QED
      BY <3>1
  <2>2. j * Interval = k * Interval + m * Interval /\ m * Interval \in Nat /\ k * Interval \in Nat
    BY <1>1, <2>1
  <2>. QED
    BY <2>2
<1>3. PICK m \in Nat : k = j + 1 + m
  <2>1. k - j - 1 \in Nat /\ k = j + 1 + (k - j - 1)
    BY <1>2
  <2>. QED
    BY <2>1
<1>4. k * Interval = (j + 1) * Interval + m * Interval /\ m * Interval \in Nat
      /\ (j + 1) * Interval \in Nat
  BY <1>1, <1>3
<1>. QED
  BY <1>2, <1>4

LEMMA OccurrencesScheduled ==
  ASSUME NEW a \in Int, NEW b \in Int, NEW d
  PROVE  d \in Occurrences(a, b) <=> d \in Int /\ d <= b /\ OnSchedule(a, d)
<1>1. Interval \in Nat \ {0}
  BY FinanceAssumption
<1>2. ASSUME d \in Occurrences(a, b) PROVE d \in Int /\ d <= b /\ OnSchedule(a, d)
  <2>1. d \in Int /\ a <= d /\ d <= b /\ (d - a) % Interval = 0
    BY <1>2 DEF Occurrences
  <2>2. PICK k : k = (d - a) \div Interval
    OBVIOUS
  <2>3. k \in Int /\ d - a = k * Interval
    BY <1>1, <2>1, <2>2, SMTT(30)
  <2>4. k \in Nat
    BY <1>1, <2>1, <2>3, SMTT(30)
  <2>. QED
    BY <2>1, <2>3, <2>4 DEF OnSchedule
<1>3. ASSUME d \in Int, d <= b, OnSchedule(a, d) PROVE d \in Occurrences(a, b)
  <2>1. PICK k \in Nat : d = a + k * Interval
    BY <1>3 DEF OnSchedule
  <2>2. k * Interval \in Nat /\ (k * Interval) % Interval = 0
    BY <1>1, SMTT(30)
  <2>3. d - a = k * Interval /\ a <= d
    BY <1>1, <2>1, <2>2
  <2>. QED
    BY <1>3, <2>2, <2>3 DEF Occurrences
<1>. QED
  BY <1>2, <1>3

\* Schedules that meet go on together.
LEMMA Continued ==
  ASSUME NEW a \in Int, NEW b \in Int, NEW d \in Int, OnSchedule(a, b), OnSchedule(b, d)
  PROVE  OnSchedule(a, d)
<1>1. PICK j \in Nat, k \in Nat : b = a + j * Interval /\ d = b + k * Interval
  BY DEF OnSchedule
<1>2. Interval \in Nat
  BY FinanceAssumption
<1>3. d = a + (j + k) * Interval
  BY <1>1, <1>2
<1>. QED
  BY <1>3 DEF OnSchedule

LEMMA Resumed ==
  ASSUME NEW a \in Int, NEW b \in Int, NEW d \in Int, OnSchedule(a, b), OnSchedule(a, d), b <= d
  PROVE  OnSchedule(b, d)
<1>1. PICK j \in Nat, k \in Nat : b = a + j * Interval /\ d = a + k * Interval
  BY DEF OnSchedule
<1>2. Interval \in Nat \ {0}
  BY FinanceAssumption
<1>3. CASE b = d
  <2>1. d = b + 0 * Interval
    BY <1>2, <1>3
  <2>. QED
    BY <2>1 DEF OnSchedule
<1>4. CASE b < d
  <2>1. j * Interval \in Int /\ k * Interval \in Int
    BY <1>2
  <2>2. j * Interval < k * Interval
    BY <1>1, <1>4, <2>1
  <2>3. j + 1 <= k
    BY <2>2, Ordered
  <2>4. PICK m \in Nat : k = j + m
    <3>1. k - j \in Nat /\ k = j + (k - j)
      BY <2>3
    <3>. QED
      BY <3>1
  <2>5. k * Interval = j * Interval + m * Interval
    BY <1>2, <2>4
  <2>6. d = b + m * Interval
    BY <1>1, <1>2, <2>1, <2>5
  <2>. QED
    BY <2>6 DEF OnSchedule
<1>. QED
  BY <1>3, <1>4

\* FirstFrom is on the schedule, not before its day, and no occurrence lies between.
LEMMA FirstFromNext ==
  ASSUME NEW n \in Int, NEW d \in Int
  PROVE  /\ FirstFrom(n, d) \in Int /\ n <= FirstFrom(n, d) /\ OnSchedule(n, FirstFrom(n, d))
         /\ \A o \in Int : OnSchedule(n, o) /\ o < FirstFrom(n, d) => o < d
<1>1. Interval \in Nat \ {0}
  BY FinanceAssumption
<1>2. CASE n >= d
  <2>1. FirstFrom(n, d) = n /\ n = n + 0 * Interval
    BY <1>1, <1>2 DEF FirstFrom
  <2>2. ASSUME NEW o \in Int, OnSchedule(n, o) PROVE n <= o
    <3>1. PICK k \in Nat : o = n + k * Interval
      BY <2>2 DEF OnSchedule
    <3>2. k * Interval \in Nat
      BY <1>1
    <3>. QED
      BY <3>1, <3>2
  <2>. QED
    BY <2>1, <2>2 DEF OnSchedule
<1>3. CASE n < d
  <2>m. PICK m : m = (d - n + Interval - 1) \div Interval
    OBVIOUS
  <2>x. PICK x \in Nat : x = d - n + Interval - 1
    BY <1>1, <1>3
  <2>1. m \in Int /\ m * Interval <= x /\ x < m * Interval + Interval
    BY <1>1, <2>m, <2>x, SMTT(30)
  <2>2. m \in Nat
    <3>. SUFFICES ASSUME m < 0 PROVE FALSE
      BY <2>1
    <3>1. PICK l \in Nat : m = -1 - l
      <4>1. -1 - m \in Nat /\ m = -1 - (-1 - m)
        BY <2>1
      <4>. QED
        BY <4>1
    <3>2. m * Interval = - Interval - l * Interval /\ l * Interval \in Nat
      BY <1>1, <3>1
    <3>. QED
      BY <1>1, <2>1, <2>x, <1>3, <3>2
  <2>3. FirstFrom(n, d) = n + m * Interval
    BY <1>1, <1>3, <2>m, <2>1 DEF FirstFrom
  <2>4. m * Interval \in Nat
    BY <1>1, <2>2
  <2>5. ASSUME NEW o \in Int, OnSchedule(n, o), o < n + m * Interval PROVE o < d
    <3>1. PICK k \in Nat : o = n + k * Interval
      BY <2>5 DEF OnSchedule
    <3>2. k * Interval \in Nat
      BY <1>1
    <3>3. k * Interval < m * Interval
      BY <2>4, <2>5, <3>1, <3>2
    <3>4. (k + 1) * Interval <= m * Interval /\ (k + 1) * Interval = k * Interval + Interval
      BY <1>1, <2>2, <3>3, Ordered
    <3>. QED
      BY <1>1, <2>1, <2>4, <2>x, <3>1, <3>2, <3>4
  <2>. QED
    BY <2>2, <2>3, <2>4, <2>5 DEF OnSchedule
<1>. QED
  BY <1>2, <1>3

\* The schedule of a rule up to the day it is carried on to.
LEMMA CarriedOn ==
  ASSUME NEW a \in Int, NEW n \in Int, NEW d \in Int, OnSchedule(a, n), NEW o \in Occurrences(a, FirstFrom(n, d) - 1)
  PROVE  o \in Occurrences(a, n - 1) \/ (o \in Occurrences(n, FirstFrom(n, d) - 1) /\ o \in Occurrences(n, d - 1))
<1>f. PICK f \in Int : f = FirstFrom(n, d)
  BY FirstFromNext
<1>1. o \in Int /\ o <= f - 1 /\ OnSchedule(a, o)
  BY <1>f, OccurrencesScheduled
<1>2. CASE o < n
  BY <1>1, <1>2, OccurrencesScheduled
<1>3. CASE n <= o
  <2>1. OnSchedule(n, o)
    BY <1>1, <1>3, Resumed
  <2>2. o < d
    BY <1>f, <1>1, <2>1, FirstFromNext
  <2>. QED
    BY <1>f, <1>1, <2>1, <2>2, OccurrencesScheduled
<1>. QED
  BY <1>1, <1>2, <1>3

-----------------------------------------------------------------------------
(* What survives a step.                                                    *)

\* Rules do not start over, and what a kept one was booked on or passed over stays.
Lasting ==
  \A r \in Rules :
    /\ rules[r].status # "none" => rules'[r].status # "none"
    /\ Kept(r)' /\ rules[r].status # "none" => Kept(r) /\ rules'[r].start = rules[r].start
    /\ Kept(r)' => \A d : <<r, d>> \in booked \cup skipped => <<r, d>> \in booked' \cup skipped'

LEMMA GoesOnLasts ==
  ASSUME Lasting, NEW r \in Rules, NEW n, Kept(r)', rules[r].status # "none", GoesOn(r, n)
  PROVE  GoesOn(r, n)'
<1>1. /\ rules'[r].start = rules[r].start
      /\ \A d : <<r, d>> \in booked \cup skipped => <<r, d>> \in booked' \cup skipped'
  BY DEF Lasting
<1>2. OnSchedule(rules[r].start, n) /\ \A d \in Occurrences(rules[r].start, n - 1) : <<r, d>> \in booked \cup skipped
  BY DEF GoesOn
<1>. QED
  BY <1>1, <1>2 DEF GoesOn

LEMMA ReadLasts ==
  ASSUME Lasting, NEW q, GoodRead(q)
  PROVE  GoodRead(q)'
<1>. SUFFICES ASSUME q.step = "set"
              PROVE  /\ q.rule \in Rules /\ rules'[q.rule].status # "none"
                     /\ Kept(q.rule)' => GoesOn(q.rule, q.next)'
  BY DEF GoodRead
<1>1. q.rule \in Rules /\ rules[q.rule].status # "none" /\ (Kept(q.rule) => GoesOn(q.rule, q.next))
  BY DEF GoodRead
<1>2. ASSUME Kept(q.rule)' PROVE GoesOn(q.rule, q.next)'
  <2>1. Kept(q.rule)
    BY <1>1, <1>2 DEF Lasting
  <2>. QED
    BY <1>1, <1>2, <2>1, GoesOnLasts
<1>. QED
  BY <1>1, <1>2 DEF Lasting

\* One call is changed.
LEMMA ReadsLast ==
  ASSUME FinanceInductive, Lasting, NEW c \in Workers, NEW q \in Call, call' = [call EXCEPT ![c] = q], GoodRead(q)'
  PROVE  ReadsGoOn' /\ call' \in [Workers -> Call]
<1>1. call \in [Workers -> Call]
  BY DEF FinanceInductive, FinanceTyped
<1>2. call'[c] = q /\ \A d \in Workers \ {c} : call'[d] = call[d]
  BY <1>1
<1>3. \A d \in Workers \ {c} : GoodRead(call[d])
  BY DEF FinanceInductive, ReadsGoOn
<1>4. ASSUME NEW d \in Workers PROVE GoodRead(call[d])'
  <2>1. CASE d = c
    BY <1>2, <2>1 DEF GoodRead
  <2>2. CASE d # c
    <3>1. PICK p : p = call[d]
      OBVIOUS
    <3>2. GoodRead(p)'
      BY <1>3, <2>2, <3>1, ReadLasts
    <3>3. call'[d] = p
      BY <1>2, <2>2, <3>1
    <3>. QED
      BY <3>2, <3>3 DEF GoodRead
  <2>. QED
    BY <2>1, <2>2
<1>. QED
  BY <1>1, <1>4 DEF ReadsGoOn

LEMMA NoRead ==
  ASSUME NEW q, q.step # "set"
  PROVE  GoodRead(q) /\ GoodRead(q)'
BY DEF GoodRead

\* A step of a call that leaves the tables alone.
LEMMA CallKeeps ==
  ASSUME FinanceInductive, NEW c \in Workers, NEW q \in Call, Work(c, q), GoodRead(q),
         UNCHANGED <<rules, booked, entries, day, skipped>>
  PROVE  FinanceInductive'
<1>1. Lasting
  BY DEF Lasting, Kept
<1>2. call' = [call EXCEPT ![c] = q] /\ GoodRead(q)'
  BY <1>1, ReadLasts DEF Work
<1>3. ReadsGoOn' /\ call' \in [Workers -> Call]
  BY <1>1, <1>2, ReadsLast
<1>4. FinanceTyped'
  BY <1>3 DEF FinanceInductive, FinanceTyped
<1>5. OnRecord' /\ EnteredOnce' /\ Backed'
  BY DEF FinanceInductive, OnRecord, EnteredOnce, Backed, HasEntry, Kept
<1>6. ASSUME NEW r \in Rules, Kept(r)' PROVE GoesOn(r, rules[r].next)'
  BY <1>6 DEF FinanceInductive, RulesGoOn, GoesOn, Kept
<1>. QED
  BY <1>3, <1>4, <1>5, <1>6 DEF FinanceInductive, RulesGoOn

-----------------------------------------------------------------------------
(* Entries made by hand.                                                    *)

\* Nothing changes what an entry is for, and new ones belong to no rule.
LEMMA HandKeeps ==
  ASSUME FinanceInductive, entries' \in Seq(Line), UNCHANGED <<rules, booked, call, day, skipped>>,
         \A i \in DOMAIN entries : i \in DOMAIN entries' /\ entries'[i].for = entries[i].for,
         \A i \in DOMAIN entries' : i \in DOMAIN entries \/ entries'[i].for[1] = NoRule
  PROVE  FinanceInductive'
<1>1. FinanceTyped'
  BY DEF FinanceInductive, FinanceTyped
<1>2. OnRecord'
  BY FinanceAssumption DEF FinanceInductive, OnRecord, Kept
<1>3. EnteredOnce'
  BY DEF FinanceInductive, EnteredOnce
<1>4. Backed'
  <2>1. ASSUME NEW b, HasEntry(b) PROVE HasEntry(b)'
    BY <2>1 DEF HasEntry
  <2>. QED
    BY <2>1 DEF FinanceInductive, Backed
<1>5. Lasting
  BY DEF Lasting, Kept
<1>6. RulesGoOn'
  BY DEF FinanceInductive, RulesGoOn, GoesOn, Kept
<1>7. ReadsGoOn'
  BY <1>5, ReadLasts DEF FinanceInductive, ReadsGoOn
<1>. QED
  BY <1>1, <1>2, <1>3, <1>4, <1>6, <1>7 DEF FinanceInductive

LEMMA ByHandKeeps ==
  ASSUME FinanceInductive,
         \/ CreateEntry
         \/ \E i \in DOMAIN entries : Settle(i) \/ Cancel(i) \/ \E d \in Days : Update(i, d)
  PROVE  FinanceInductive'
<1>1. entries \in Seq(Line) /\ day \in Int
  BY DEF FinanceInductive, FinanceTyped
<1>2. CASE CreateEntry
  <2>1. PICK e : e = Entry(NoRule, day)
    OBVIOUS
  <2>2. e \in Line /\ e.for[1] = NoRule
    BY <1>1, <2>1 DEF Entry, Line
  <2>3. entries' = Append(entries, e) /\ UNCHANGED <<rules, booked, call, day, skipped>>
    BY <1>2, <2>1 DEF CreateEntry, Ledger
  <2>. QED
    BY <1>1, <2>2, <2>3, HandKeeps
<1>3. ASSUME NEW i \in DOMAIN entries, Settle(i) \/ Cancel(i) \/ \E d \in Days : Update(i, d)
      PROVE  FinanceInductive'
  <2>1. entries[i] \in Line
    BY <1>1
  <2>2. PICK e \in Line : e.for = entries[i].for /\ entries' = [entries EXCEPT ![i] = e]
    <3>1. CASE Settle(i)
      <4>1. [entries[i] EXCEPT !.settled = TRUE] \in Line
            /\ [entries[i] EXCEPT !.settled = TRUE].for = entries[i].for
        BY <2>1 DEF Line
      <4>. QED
        BY <1>1, <3>1, <4>1 DEF Settle, Ledger
    <3>2. CASE Cancel(i)
      <4>1. [entries[i] EXCEPT !.cancelled = TRUE] \in Line
            /\ [entries[i] EXCEPT !.cancelled = TRUE].for = entries[i].for
        BY <2>1 DEF Line
      <4>. QED
        BY <1>1, <3>2, <4>1 DEF Cancel, Ledger
    <3>3. ASSUME NEW d \in Days, Update(i, d)
          PROVE  \E e \in Line : e.for = entries[i].for /\ entries' = [entries EXCEPT ![i] = e]
      <4>1. [entries[i] EXCEPT !.on = d] \in Line /\ [entries[i] EXCEPT !.on = d].for = entries[i].for
        BY <2>1 DEF Line, Days
      <4>. QED
        BY <1>1, <3>3, <4>1 DEF Update, Ledger
    <3>. QED
      BY <1>3, <3>1, <3>2, <3>3
  <2>3. UNCHANGED <<rules, booked, call, day, skipped>>
    BY <1>3 DEF Settle, Cancel, Update, Ledger
  <2>4. entries' \in Seq(Line) /\ DOMAIN entries' = DOMAIN entries
    BY <1>1, <2>2
  <2>5. \A j \in DOMAIN entries : entries'[j].for = entries[j].for
    BY <1>1, <2>2
  <2>. QED
    BY <2>3, <2>4, <2>5, HandKeeps
<1>. QED
  BY <1>2, <1>3

-----------------------------------------------------------------------------
(* Catching up.                                                             *)

LEMMA AtEaseTyped ==
  /\ AtEase \in Call /\ AtEase.step = "idle"
  /\ \A s \in {"idle", "list"} :
       [AtEase EXCEPT !.step = s] \in Call /\ [AtEase EXCEPT !.step = s].step = s
<1>1. AtEase \in Call /\ AtEase.step = "idle"
  BY DEF AtEase, Call
<1>2. ASSUME NEW a \in Call, NEW s \in {"idle", "list"}
      PROVE  [a EXCEPT !.step = s] \in Call /\ [a EXCEPT !.step = s].step = s
  BY DEF Call
<1>. QED
  BY <1>1, <1>2

LEMMA ListKeeps ==
  ASSUME FinanceInductive, NEW c \in Workers, NEW through \in Int, ListDue(c, through),
         UNCHANGED <<rules, booked, entries, day, skipped>>
  PROVE  FinanceInductive'
<1>1. PICK due \in SUBSET Rules : due = DueRules(through)
  BY DEF DueRules
<1>2. AtEase \in Call /\ AtEase.step = "idle"
  BY AtEaseTyped
<1>3. [AtEase EXCEPT !.step = "book", !.left = due, !.through = through] \in Call
      /\ [AtEase EXCEPT !.step = "book", !.left = due, !.through = through].step = "book"
  <2>1. PICK a \in Call : a = AtEase
    BY <1>2
  <2>2. [a EXCEPT !.step = "book", !.left = due, !.through = through] \in Call
        /\ [a EXCEPT !.step = "book", !.left = due, !.through = through].step = "book"
    BY DEF Call
  <2>. QED
    BY <2>1, <2>2
<1>4. \/ Work(c, AtEase)
      \/ Work(c, [AtEase EXCEPT !.step = "book", !.left = due, !.through = through])
  BY <1>1 DEF ListDue
<1>. QED
  BY <1>2, <1>3, <1>4, NoRead, CallKeeps

\* What a catch-up finds missing has no entry.
LEMMA MissingNew ==
  ASSUME FinanceInductive, NEW r \in Rules, Kept(r), NEW through \in Int
  PROVE  /\ Missing(r, through) \subseteq Int
         /\ IsFiniteSet(Missing(r, through)) /\ Cardinality(Missing(r, through)) \in Nat
         /\ \A d \in Missing(r, through), i \in DOMAIN entries : entries[i].for # <<r, d>>
<1>1. rules[r].next \in Int
  BY DEF FinanceInductive, FinanceTyped, Rule
<1>2. Missing(r, through) \subseteq rules[r].next..through
  BY DEF Missing, DueDays, Occurrences
<1>3. IsFiniteSet(rules[r].next..through)
  BY <1>1, FS_Interval
<1>4. IsFiniteSet(Missing(r, through)) /\ Cardinality(Missing(r, through)) \in Nat
  BY <1>2, <1>3, FS_Subset, FS_CardinalityType
<1>5. ASSUME NEW d \in Missing(r, through), NEW i \in DOMAIN entries, entries[i].for = <<r, d>>
      PROVE  FALSE
  <2>1. <<r, d>> \notin booked
    BY DEF Missing
  <2>2. entries[i].for[1] = r
    BY <1>5
  <2>. QED
    BY <1>5, <2>1, <2>2 DEF FinanceInductive, OnRecord
<1>. QED
  BY <1>1, <1>2, <1>4, <1>5

\* What a catch-up writes: an entry for every day of M, and the rule goes on from n.
Booking(r, M, n) ==
  /\ \E days \in Ascending(M) : entries' = entries \o [i \in DOMAIN days |-> Entry(r, days[i])]
  /\ booked' = booked \cup {<<r, d>> : d \in M}
  /\ rules' = [rules EXCEPT ![r].next = n]

LEMMA NewEntries ==
  ASSUME FinanceInductive, NEW r \in Rules, NEW M \in SUBSET Int, Cardinality(M) \in Nat,
         NEW days \in Ascending(M), entries' = entries \o [i \in DOMAIN days |-> Entry(r, days[i])]
  PROVE  /\ entries' \in Seq(Line) /\ DOMAIN entries \subseteq DOMAIN entries'
         /\ \A i \in DOMAIN entries : entries'[i] = entries[i]
         /\ \A i \in DOMAIN entries' \ DOMAIN entries : \E d \in M : entries'[i].for = <<r, d>>
         /\ \A i, j \in DOMAIN entries' \ DOMAIN entries : entries'[i].for = entries'[j].for => i = j
         /\ \A d \in M : \E i \in DOMAIN entries' : entries'[i].for = <<r, d>>
<1>n. PICK n \in Nat : n = Cardinality(M)
  OBVIOUS
<1>1. /\ days \in [1..n -> M] /\ {days[i] : i \in DOMAIN days} = M
      /\ \A i, j \in DOMAIN days : i < j => days[i] < days[j]
  BY <1>n DEF Ascending
<1>. DEFINE new == [i \in DOMAIN days |-> Entry(r, days[i])]
<1>2. /\ DOMAIN days = 1..n /\ \A i \in 1..n : days[i] \in Int /\ days[i] \in M
      /\ \A i, j \in 1..n : i < j => days[i] < days[j]
  BY <1>1
<1>3. \A d \in Int : Entry(r, d) \in Line /\ Entry(r, d).for = <<r, d>>
  BY DEF Entry, Line
<1>4. new \in Seq(Line) /\ Len(new) = n /\ \A i \in 1..n : new[i].for = <<r, days[i]>>
  <2>1. new = [i \in 1..n |-> Entry(r, days[i])] /\ \A i \in 1..n : new[i] \in Line /\ new[i].for = <<r, days[i]>>
    BY <1>2, <1>3
  <2>. QED
    BY <2>1
<1>5. entries \in Seq(Line) /\ entries' = entries \o new
  BY DEF FinanceInductive, FinanceTyped
<1>. HIDE DEF new
<1>l. PICK l \in Nat : l = Len(entries)
  BY <1>5
<1>6. /\ entries' \in Seq(Line) /\ Len(entries') = l + n
      /\ \A i \in 1..l : entries'[i] = entries[i]
      /\ \A i \in 1..n : entries'[l + i] = new[i]
  <2>1. /\ entries' \in Seq(Line) /\ Len(entries') = l + n
        /\ \A i \in 1..(l + n) : entries'[i] = IF i <= l THEN entries[i] ELSE new[i - l]
    <3>1. PICK es \in Seq(Line) : es = entries
      BY <1>5
    <3>2. /\ es \o new \in Seq(Line) /\ Len(es \o new) = Len(es) + Len(new)
          /\ \A i \in 1..Len(es) + Len(new) : (es \o new)[i] = IF i <= Len(es) THEN es[i] ELSE new[i - Len(es)]
      BY <1>4, ConcatProperties
    <3>3. entries' = es \o new /\ Len(es) = l /\ Len(new) = n
      BY <1>l, <1>4, <1>5, <3>1
    <3>. QED
      BY <3>1, <3>2, <3>3
  <2>2. \A i \in 1..l : i \in 1..(l + n) /\ i <= l
    OBVIOUS
  <2>3. \A i \in 1..n : l + i \in 1..(l + n) /\ ~(l + i <= l) /\ (l + i) - l = i
    OBVIOUS
  <2>. QED
    BY <2>1, <2>2, <2>3
<1>7. DOMAIN entries = 1..l /\ DOMAIN entries' = 1..(l + n)
  BY <1>l, <1>5, <1>6
<1>8. \A i \in DOMAIN entries' \ DOMAIN entries : i - l \in 1..n /\ entries'[i].for = <<r, days[i - l]>>
  <2>. SUFFICES ASSUME NEW i \in DOMAIN entries' \ DOMAIN entries
                PROVE  i - l \in 1..n /\ entries'[i].for = <<r, days[i - l]>>
    OBVIOUS
  <2>1. i \in Int /\ i - l \in 1..n /\ l + (i - l) = i
    BY <1>7
  <2>2. entries'[i] = new[i - l]
    BY <1>6, <2>1
  <2>. QED
    BY <1>4, <2>1, <2>2
<1>9. \A i \in DOMAIN entries' \ DOMAIN entries : \E d \in M : entries'[i].for = <<r, d>>
  BY <1>2, <1>8
<1>10. \A i, j \in DOMAIN entries' \ DOMAIN entries : entries'[i].for = entries'[j].for => i = j
  <2>. SUFFICES ASSUME NEW i \in DOMAIN entries' \ DOMAIN entries, NEW j \in DOMAIN entries' \ DOMAIN entries,
                       entries'[i].for = entries'[j].for
                PROVE  i = j
    OBVIOUS
  <2>1. i \in Int /\ j \in Int /\ i - l \in 1..n /\ j - l \in 1..n
    BY <1>7, <1>8
  <2>2. <<r, days[i - l]>> = <<r, days[j - l]>>
    BY <1>8
  <2>3. days[i - l] = days[j - l]
    BY <2>2
  <2>4. ~(i - l < j - l) /\ ~(j - l < i - l)
    BY <1>2, <2>1, <2>3
  <2>. QED
    BY <2>1, <2>4
<1>11. \A d \in M : \E i \in DOMAIN entries' : entries'[i].for = <<r, d>>
  <2>. SUFFICES ASSUME NEW d \in M PROVE \E i \in DOMAIN entries' : entries'[i].for = <<r, d>>
    OBVIOUS
  <2>1. PICK k \in 1..n : days[k] = d
    BY <1>1, <1>2
  <2>2. l + k \in 1..(l + n)
    OBVIOUS
  <2>3. entries'[l + k] = new[k]
    BY <1>6
  <2>. QED
    BY <1>4, <1>7, <2>1, <2>2, <2>3
<1>12. DOMAIN entries \subseteq DOMAIN entries' /\ \A i \in DOMAIN entries : entries'[i] = entries[i]
  BY <1>6, <1>7
<1>. QED
  BY <1>6, <1>9, <1>10, <1>11, <1>12

LEMMA BookingKeeps ==
  ASSUME FinanceInductive, NEW c \in Workers, NEW q \in Call, Work(c, q), q.step # "set",
         NEW r \in Rules, Kept(r), NEW through \in Int,
         Booking(r, Missing(r, through), FirstFrom(rules[r].next, through + 1)),
         UNCHANGED <<day, skipped>>
  PROVE  FinanceInductive'
<1>m. PICK M \in SUBSET Int : M = Missing(r, through)
  BY MissingNew
<1>t. PICK next \in Int : next = rules[r].next
  BY DEF FinanceInductive, FinanceTyped, Rule
<1>a. PICK start \in Int : start = rules[r].start
  BY DEF FinanceInductive, FinanceTyped, Rule
<1>n. PICK n \in Int : n = FirstFrom(next, through + 1)
  BY FirstFromNext
<1>1. /\ rules \in [Rules -> Rule] /\ booked \subseteq Rules \X Int /\ entries \in Seq(Line)
      /\ call \in [Workers -> Call] /\ day \in Int
  BY DEF FinanceInductive, FinanceTyped
<1>2. Booking(r, M, n)
  BY <1>m, <1>t, <1>n
<1>3. PICK days \in Ascending(M) : entries' = entries \o [i \in DOMAIN days |-> Entry(r, days[i])]
  BY <1>2 DEF Booking
<1>4. Cardinality(M) \in Nat /\ \A d \in M, i \in DOMAIN entries : entries[i].for # <<r, d>>
  BY <1>m, MissingNew
<1>5. /\ entries' \in Seq(Line) /\ DOMAIN entries \subseteq DOMAIN entries'
      /\ \A i \in DOMAIN entries : entries'[i] = entries[i]
      /\ \A i \in DOMAIN entries' \ DOMAIN entries : \E d \in M : entries'[i].for = <<r, d>>
      /\ \A i, j \in DOMAIN entries' \ DOMAIN entries : entries'[i].for = entries'[j].for => i = j
      /\ \A d \in M : \E i \in DOMAIN entries' : entries'[i].for = <<r, d>>
  BY <1>3, <1>4, NewEntries
<1>6. booked' = booked \cup {<<r, d>> : d \in M}
  BY <1>2 DEF Booking
<1>7. /\ rules' \in [Rules -> Rule] /\ rules'[r].next = n
      /\ \A s \in Rules : rules'[s].status = rules[s].status /\ rules'[s].start = rules[s].start
      /\ \A s \in Rules \ {r} : rules'[s] = rules[s]
  <2>1. rules' = [rules EXCEPT ![r].next = n]
    BY <1>2 DEF Booking
  <2>. QED
    BY <1>1, <2>1 DEF Rule
<1>8. booked' \subseteq Rules \X Int
  BY <1>1, <1>6
<1>9. Lasting
  BY <1>6, <1>7 DEF Lasting, Kept
<1>10. ReadsGoOn' /\ call' \in [Workers -> Call]
  <2>1. call' = [call EXCEPT ![c] = q] /\ GoodRead(q)'
    BY NoRead DEF Work
  <2>. QED
    BY <1>9, <2>1, ReadsLast
<1>11. FinanceTyped'
  BY <1>1, <1>5, <1>7, <1>8, <1>10 DEF FinanceTyped
<1>12. OnRecord'
  <2>. SUFFICES ASSUME NEW i \in DOMAIN entries', NEW s \in Rules, entries'[i].for[1] = s
                PROVE  rules'[s].status # "none" /\ (Kept(s)' => entries'[i].for \in booked')
    BY DEF OnRecord
  <2>1. CASE i \in DOMAIN entries
    <3>1. rules[s].status # "none" /\ (Kept(s) => entries[i].for \in booked)
      BY <1>5, <2>1 DEF FinanceInductive, OnRecord
    <3>. QED
      BY <1>5, <1>6, <1>7, <2>1, <3>1 DEF Kept
  <2>2. CASE i \notin DOMAIN entries
    <3>1. PICK d \in M : entries'[i].for = <<r, d>>
      BY <1>5, <2>2
    <3>2. s = r /\ entries'[i].for \in booked'
      BY <1>6, <3>1
    <3>. QED
      BY <1>7, <3>2 DEF Kept
  <2>. QED
    BY <2>1, <2>2
<1>13. EnteredOnce'
  <2>. SUFFICES ASSUME NEW i \in DOMAIN entries', NEW j \in DOMAIN entries',
                       entries'[i].for = entries'[j].for, entries'[i].for[1] # NoRule
                PROVE  i = j
    BY DEF EnteredOnce
  <2>1. CASE i \in DOMAIN entries /\ j \in DOMAIN entries
    BY <1>5, <2>1 DEF FinanceInductive, EnteredOnce
  <2>2. CASE i \in DOMAIN entries /\ j \notin DOMAIN entries
    BY <1>4, <1>5, <2>2
  <2>3. CASE i \notin DOMAIN entries /\ j \in DOMAIN entries
    BY <1>4, <1>5, <2>3
  <2>4. CASE i \notin DOMAIN entries /\ j \notin DOMAIN entries
    BY <1>5, <2>4
  <2>. QED
    BY <2>1, <2>2, <2>3, <2>4
<1>14. Backed'
  <2>. SUFFICES ASSUME NEW b \in booked' PROVE HasEntry(b)'
    BY DEF Backed
  <2>1. CASE b \in booked
    <3>1. PICK i \in DOMAIN entries : entries[i].for = b
      BY <2>1 DEF FinanceInductive, Backed, HasEntry
    <3>2. i \in DOMAIN entries' /\ entries'[i].for = b
      BY <1>5, <3>1
    <3>. QED
      BY <3>2 DEF HasEntry
  <2>2. CASE \E d \in M : b = <<r, d>>
    BY <1>5, <2>2 DEF HasEntry
  <2>. QED
    BY <1>6, <2>1, <2>2
<1>15. GoesOn(r, n)'
  <2>1. OnSchedule(start, next) /\ \A d \in Occurrences(start, next - 1) : <<r, d>> \in booked \cup skipped
    BY <1>t, <1>a DEF FinanceInductive, RulesGoOn, GoesOn
  <2>2. OnSchedule(start, n)
    <3>1. OnSchedule(next, n)
      BY <1>n, FirstFromNext
    <3>. QED
      BY <2>1, <3>1, Continued
  <2>3. ASSUME NEW d \in Occurrences(start, n - 1) PROVE <<r, d>> \in booked' \cup skipped'
    <3>1. through + 1 \in Int /\ (through + 1) - 1 = through
      OBVIOUS
    <3>2. d \in Occurrences(start, next - 1) \/ d \in Occurrences(next, through)
      BY <1>n, <2>1, <2>3, <3>1, CarriedOn
    <3>3. CASE d \in Occurrences(start, next - 1)
      BY <1>6, <2>1, <3>3
    <3>4. CASE d \in Occurrences(next, through)
      <4>1. <<r, d>> \in booked \/ d \in M
        BY <1>m, <1>t, <3>4 DEF Missing, DueDays
      <4>. QED
        BY <1>6, <4>1
    <3>. QED
      BY <3>2, <3>3, <3>4
  <2>4. rules'[r].start = start
    BY <1>7, <1>a
  <2>. QED
    BY <2>2, <2>3, <2>4 DEF GoesOn
<1>16. RulesGoOn'
  <2>. SUFFICES ASSUME NEW s \in Rules, Kept(s)' PROVE GoesOn(s, rules[s].next)'
    BY DEF RulesGoOn
  <2>1. CASE s = r
    BY <1>7, <1>15, <2>1 DEF GoesOn
  <2>2. CASE s # r
    <3>x. PICK x : x = rules[s].next
      OBVIOUS
    <3>1. Kept(s) /\ rules[s].status # "none" /\ rules'[s].next = x
      BY <1>7, <2>2, <3>x DEF Kept
    <3>2. GoesOn(s, x)
      BY <3>x, <3>1 DEF FinanceInductive, RulesGoOn
    <3>3. GoesOn(s, x)'
      BY <1>9, <3>1, <3>2, GoesOnLasts
    <3>. QED
      BY <3>1, <3>3 DEF GoesOn
  <2>. QED
    BY <2>1, <2>2
<1>. QED
  BY <1>10, <1>11, <1>12, <1>13, <1>14, <1>16 DEF FinanceInductive

LEMMA MaterializeKeeps ==
  ASSUME FinanceInductive, NEW c \in Workers, NEW r \in Rules, Materialize(c, r)
  PROVE  FinanceInductive'
<1>1. call[c] \in Call /\ call[c].step = "book"
  BY DEF FinanceInductive, FinanceTyped, Materialize
<1>2. call[c].through \in Int /\ UNCHANGED <<day, skipped>>
  BY <1>1 DEF Call, Materialize
<1>3. AtEase \in Call /\ AtEase.step = "idle"
  BY AtEaseTyped
<1>4. Onward(c, r) \in Call /\ Onward(c, r).step # "set"
  <2>1. [call[c] EXCEPT !.left = @ \ {r}] \in Call /\ [call[c] EXCEPT !.left = @ \ {r}].step = "book"
    BY <1>1 DEF Call
  <2>. QED
    BY <1>3, <2>1 DEF Onward
<1>5. CASE UNCHANGED <<rules, booked, entries>> /\ (Work(c, Onward(c, r)) \/ Work(c, AtEase))
  BY <1>2, <1>3, <1>4, <1>5, NoRead, CallKeeps
<1>6. CASE /\ Kept(r) /\ Work(c, Onward(c, r))
           /\ \E days \in Ascending(Missing(r, call[c].through)) :
                entries' = entries \o [i \in DOMAIN days |-> Entry(r, days[i])]
           /\ booked' = booked \cup {<<r, d>> : d \in Missing(r, call[c].through)}
           /\ rules' = [rules EXCEPT ![r].next = FirstFrom(@, call[c].through + 1)]
  <2>1. rules' = [rules EXCEPT ![r].next = FirstFrom(rules[r].next, call[c].through + 1)]
    BY <1>6 DEF FinanceInductive, FinanceTyped, Rule
  <2>2. Booking(r, Missing(r, call[c].through), FirstFrom(rules[r].next, call[c].through + 1))
    BY <1>6, <2>1 DEF Booking
  <2>. QED
    BY <1>2, <1>4, <1>6, <2>2, BookingKeeps
<1>. QED
  BY <1>5, <1>6 DEF Materialize

LEMMA ListingKeeps ==
  ASSUME FinanceInductive, RecurringBandFinances \/ \E c \in Workers : OpenPage(c) \/ CatchUp(c)
  PROVE  FinanceInductive'
<1>1. day \in Int /\ Scheduler \in Workers
  BY DEF FinanceInductive, FinanceTyped, Workers
<1>2. CASE RecurringBandFinances
  <2>1. PICK today \in {day - 1, day} : ListDue(Scheduler, today)
    BY <1>2 DEF RecurringBandFinances
  <2>2. today \in Int
    BY <1>1
  <2>. QED
    BY <1>1, <1>2, <2>1, <2>2, ListKeeps DEF RecurringBandFinances
<1>3. ASSUME NEW c \in Workers, OpenPage(c) \/ CatchUp(c) PROVE FinanceInductive'
  BY <1>1, <1>3, ListKeeps DEF OpenPage, CatchUp
<1>. QED
  BY <1>2, <1>3

-----------------------------------------------------------------------------
(* Rules.                                                                   *)

\* A step that leaves the entries and, where a rule is kept, its run ledger.
LEMMA RulesKeep ==
  ASSUME FinanceInductive, Lasting, rules' \in [Rules -> Rule], booked' \subseteq booked,
         \A b \in booked : Kept(b[1])' => b \in booked',
         \A r \in Rules : Kept(r)' /\ rules'[r] # rules[r] => GoesOn(r, rules[r].next)',
         NEW c \in Workers, NEW q \in Call, call' = [call EXCEPT ![c] = q], GoodRead(q)',
         UNCHANGED <<entries, day>>
  PROVE  FinanceInductive'
<1>1. ReadsGoOn' /\ call' \in [Workers -> Call]
  BY ReadsLast
<1>2. FinanceTyped'
  BY <1>1 DEF FinanceInductive, FinanceTyped
<1>3. OnRecord'
  <2>. SUFFICES ASSUME NEW i \in DOMAIN entries, NEW r \in Rules, entries[i].for[1] = r
                PROVE  rules'[r].status # "none" /\ (Kept(r)' => entries[i].for \in booked')
    BY DEF OnRecord
  <2>1. rules[r].status # "none" /\ (Kept(r) => entries[i].for \in booked)
    BY DEF FinanceInductive, OnRecord
  <2>2. Kept(r)' => Kept(r) /\ rules'[r].status # "none"
    BY <2>1 DEF Lasting
  <2>. QED
    BY <2>1, <2>2 DEF Lasting
<1>4. EnteredOnce'
  BY DEF FinanceInductive, EnteredOnce
<1>5. Backed'
  BY DEF FinanceInductive, Backed, HasEntry
<1>6. RulesGoOn'
  <2>. SUFFICES ASSUME NEW r \in Rules, Kept(r)', rules'[r] = rules[r] PROVE GoesOn(r, rules[r].next)'
    BY DEF RulesGoOn
  <2>x. PICK x : x = rules[r].next
    OBVIOUS
  <2>1. Kept(r) /\ rules[r].status # "none"
    BY DEF Kept
  <2>2. GoesOn(r, x)
    BY <2>x, <2>1 DEF FinanceInductive, RulesGoOn
  <2>3. GoesOn(r, x)' /\ rules'[r].next = x
    BY <2>x, <2>1, <2>2, GoesOnLasts
  <2>. QED
    BY <2>3 DEF GoesOn
<1>. QED
  BY <1>1, <1>2, <1>3, <1>4, <1>5, <1>6 DEF FinanceInductive

LEMMA CreateKeeps ==
  ASSUME FinanceInductive, NEW c \in Workers, NEW r \in Rules, NEW start \in Starts, CreateRecurring(c, r, start)
  PROVE  FinanceInductive'
<1>1. start \in Int /\ rules \in [Rules -> Rule] /\ Interval \in Nat
  BY FinanceAssumption DEF FinanceInductive, FinanceTyped
<1>. DEFINE new == [status |-> "kept", active |-> TRUE, start |-> start, next |-> start]
<1>2. new \in Rule /\ new.status = "kept" /\ new.start = start /\ new.next = start
  BY <1>1 DEF Rule
<1>3. /\ rules' = [rules EXCEPT ![r] = new] /\ rules[r].status = "none"
      /\ Work(c, [AtEase EXCEPT !.step = "list"]) /\ UNCHANGED <<booked, entries, day, skipped>>
  BY DEF CreateRecurring
<1>. HIDE DEF new
<1>4. /\ rules' \in [Rules -> Rule] /\ rules'[r] = new
      /\ \A s \in Rules \ {r} : rules'[s] = rules[s]
  BY <1>1, <1>2, <1>3
<1>5. Lasting
  BY <1>2, <1>3, <1>4 DEF Lasting, Kept
<1>6. PICK q \in Call : q = [AtEase EXCEPT !.step = "list"] /\ q.step = "list"
  BY AtEaseTyped
<1>7. call' = [call EXCEPT ![c] = q] /\ GoodRead(q)'
  BY <1>3, <1>6, NoRead DEF Work
<1>8. GoesOn(r, rules[r].next)'
  <2>1. start = start + 0 * Interval /\ 0 \in Nat
    BY <1>1
  <2>2. OnSchedule(start, start)
    BY <2>1 DEF OnSchedule
  <2>3. Occurrences(start, start - 1) = {}
    BY <1>1 DEF Occurrences
  <2>. QED
    BY <1>2, <1>4, <2>2, <2>3 DEF GoesOn
<1>9. \A s \in Rules : Kept(s)' /\ rules'[s] # rules[s] => GoesOn(s, rules[s].next)'
  BY <1>4, <1>8
<1>. QED
  BY <1>3, <1>4, <1>5, <1>7, <1>9, RulesKeep

LEMMA ReadRuleKeeps ==
  ASSUME FinanceInductive, NEW c \in Workers, NEW r \in Rules, NEW active \in BOOLEAN, ReadRule(c, r, active)
  PROVE  FinanceInductive'
<1>1. Kept(r) /\ UNCHANGED <<rules, booked, entries, day, skipped>>
  BY DEF ReadRule
<1>n. PICK n \in Int : n = rules[r].next
  BY DEF FinanceInductive, FinanceTyped, Rule
<1>a. PICK a \in Call : a = AtEase
  BY AtEaseTyped
<1>. DEFINE q == [a EXCEPT !.step = "set", !.rule = r, !.active = active, !.next = n]
<1>2. q \in Call /\ q.step = "set" /\ q.rule = r /\ q.next = n
  BY DEF Call
<1>3. Work(c, q)
  BY <1>n, <1>a DEF ReadRule
<1>. HIDE DEF q
<1>4. GoesOn(r, n) /\ rules[r].status # "none"
  BY <1>1, <1>n DEF FinanceInductive, RulesGoOn, Kept
<1>5. GoodRead(q)
  BY <1>2, <1>4 DEF GoodRead
<1>. QED
  BY <1>1, <1>2, <1>3, <1>5, CallKeeps

LEMMA SetKeeps ==
  ASSUME FinanceInductive, NEW c \in Workers, SetRecurringActive(c)
  PROVE  FinanceInductive'
<1>q. PICK q : q = call[c]
  OBVIOUS
<1>1. /\ q \in Call /\ q.step = "set" /\ GoodRead(q) /\ rules \in [Rules -> Rule] /\ day \in Int
      /\ UNCHANGED <<booked, entries, day>>
  BY <1>q DEF SetRecurringActive, FinanceInductive, FinanceTyped, ReadsGoOn
<1>r. PICK r \in Rules : r = q.rule
  BY <1>1 DEF GoodRead
<1>m. PICK m \in Int : m = q.next
  BY <1>1 DEF Call
<1>2. PICK n \in Int : /\ n = IF q.active THEN FirstFrom(m, day) ELSE m
                       /\ OnSchedule(m, n)
  <2>1. m = m + 0 * Interval /\ 0 \in Nat
    BY FinanceAssumption
  <2>2. OnSchedule(m, m)
    BY <2>1 DEF OnSchedule
  <2>. QED
    BY <1>1, <2>2, FirstFromNext
<1>3. PICK x \in BOOLEAN : x = q.active
  BY <1>1 DEF Call
<1>4. /\ rules' = IF Kept(r) THEN [rules EXCEPT ![r].active = x, ![r].next = n] ELSE rules
      /\ skipped' = skipped \cup {<<r, d>> : d \in Occurrences(m, n - 1)}
      /\ Work(c, [AtEase EXCEPT !.step = IF q.active THEN "list" ELSE "idle"])
  BY <1>q, <1>r, <1>m, <1>2, <1>3 DEF SetRecurringActive
<1>5. /\ rules' \in [Rules -> Rule] /\ \A s \in Rules \ {r} : rules'[s] = rules[s]
      /\ rules'[r].status = rules[r].status /\ rules'[r].start = rules[r].start
      /\ Kept(r) => rules'[r].next = n
  <2>1. CASE Kept(r)
    <3>1. rules' = [rules EXCEPT ![r] = [rules[r] EXCEPT !.active = x, !.next = n]]
      BY <1>1, <1>4, <2>1
    <3>2. rules[r] \in Rule
      BY <1>1
    <3>3. [rules[r] EXCEPT !.active = x, !.next = n] \in Rule
      BY <3>2 DEF Rule
    <3>4. /\ [rules[r] EXCEPT !.active = x, !.next = n].status = rules[r].status
          /\ [rules[r] EXCEPT !.active = x, !.next = n].start = rules[r].start
          /\ [rules[r] EXCEPT !.active = x, !.next = n].next = n
      BY <3>2 DEF Rule
    <3>. QED
      BY <1>1, <3>1, <3>3, <3>4
  <2>2. CASE ~Kept(r)
    BY <1>1, <1>4, <2>2
  <2>. QED
    BY <2>1, <2>2
<1>6. Lasting
  BY <1>1, <1>4, <1>5 DEF Lasting, Kept
<1>7. PICK p \in Call : p = [AtEase EXCEPT !.step = IF q.active THEN "list" ELSE "idle"] /\ p.step # "set"
  <2>1. PICK s \in {"list", "idle"} : s = IF q.active THEN "list" ELSE "idle"
    OBVIOUS
  <2>2. [AtEase EXCEPT !.step = s] \in Call /\ [AtEase EXCEPT !.step = s].step = s
    BY AtEaseTyped
  <2>. QED
    BY <2>1, <2>2
<1>8. call' = [call EXCEPT ![c] = p] /\ GoodRead(p)'
  BY <1>4, <1>7, NoRead DEF Work
<1>9. ASSUME Kept(r)' PROVE GoesOn(r, rules[r].next)'
  <2>1. Kept(r)
    BY <1>5, <1>9 DEF Kept
  <2>a. PICK a \in Int : a = rules[r].start
    BY <1>1 DEF Rule
  <2>2. OnSchedule(a, m) /\ \A d \in Occurrences(a, m - 1) : <<r, d>> \in booked \cup skipped
    BY <1>1, <1>r, <1>m, <2>1, <2>a DEF GoodRead, GoesOn
  <2>3. OnSchedule(a, n)
    BY <1>2, <2>2, Continued
  <2>4. ASSUME NEW d \in Occurrences(a, n - 1) PROVE <<r, d>> \in booked' \cup skipped'
    <3>1. d \in Int /\ d <= n - 1 /\ OnSchedule(a, d)
      BY <2>4, OccurrencesScheduled
    <3>2. CASE d < m
      <4>1. d \in Occurrences(a, m - 1)
        BY <3>1, <3>2, OccurrencesScheduled
      <4>. QED
        BY <1>1, <1>4, <2>2, <4>1
    <3>3. CASE m <= d
      <4>1. OnSchedule(m, d)
        BY <2>2, <3>1, <3>3, Resumed
      <4>2. d \in Occurrences(m, n - 1)
        BY <3>1, <4>1, OccurrencesScheduled
      <4>. QED
        BY <1>4, <4>2
    <3>. QED
      BY <3>1, <3>2, <3>3
  <2>5. rules'[r].start = a /\ rules'[r].next = n
    BY <1>5, <2>1, <2>a
  <2>. QED
    BY <2>3, <2>4, <2>5 DEF GoesOn
<1>10. \A s \in Rules : Kept(s)' /\ rules'[s] # rules[s] => GoesOn(s, rules[s].next)'
  BY <1>5, <1>9
<1>. QED
  BY <1>1, <1>5, <1>6, <1>8, <1>10, RulesKeep

LEMMA DeleteKeeps ==
  ASSUME FinanceInductive, NEW r \in Rules, DeleteRecurring(r)
  PROVE  FinanceInductive'
<1>1. /\ rules \in [Rules -> Rule] /\ booked \subseteq Rules \X Int /\ Kept(r)
      /\ booked' = {b \in booked : b[1] # r} /\ UNCHANGED <<entries, call, day, skipped>>
  BY DEF DeleteRecurring, FinanceInductive, FinanceTyped
<1>. DEFINE gone == [NoRecurring EXCEPT !.status = "gone"]
<1>2. gone \in Rule /\ gone.status = "gone" /\ rules' = [rules EXCEPT ![r] = gone]
  <2>. NoRecurring \in Rule
    BY DEF NoRecurring, Rule
  <2>1. PICK n \in Rule : n = NoRecurring
    OBVIOUS
  <2>2. [n EXCEPT !.status = "gone"] \in Rule /\ [n EXCEPT !.status = "gone"].status = "gone"
    BY DEF Rule
  <2>. QED
    BY <2>1, <2>2 DEF DeleteRecurring
<1>. HIDE DEF gone
<1>3. /\ rules' \in [Rules -> Rule] /\ rules'[r] = gone
      /\ \A s \in Rules \ {r} : rules'[s] = rules[s]
  BY <1>1, <1>2
<1>4. Lasting
  BY <1>1, <1>2, <1>3 DEF Lasting, Kept
<1>5. booked' \subseteq booked /\ \A b \in booked : Kept(b[1])' => b \in booked'
  BY <1>1, <1>2, <1>3 DEF Kept
<1>6. \A s \in Rules : Kept(s)' => rules'[s] = rules[s]
  BY <1>2, <1>3 DEF Kept
<1>7. PICK q : q = call[Scheduler]
  OBVIOUS
<1>8. Scheduler \in Workers /\ q \in Call /\ call' = [call EXCEPT ![Scheduler] = q] /\ GoodRead(q)
  BY <1>1, <1>7 DEF FinanceInductive, FinanceTyped, Workers, ReadsGoOn
<1>9. GoodRead(q)'
  BY <1>4, <1>8, ReadLasts
<1>. QED
  BY <1>1, <1>3, <1>4, <1>5, <1>6, <1>8, <1>9, RulesKeep

-----------------------------------------------------------------------------
LEMMA StillKeeps ==
  ASSUME FinanceInductive, UNCHANGED <<rules, booked, entries, skipped>>, day' \in Int,
         call' = call \/ call' = [c \in Workers |-> AtEase]
  PROVE  FinanceInductive'
<1>1. AtEase \in Call /\ AtEase.step = "idle"
  BY DEF AtEase, Call
<1>2. FinanceTyped'
  BY <1>1 DEF FinanceInductive, FinanceTyped
<1>3. OnRecord' /\ EnteredOnce' /\ Backed'
  BY DEF FinanceInductive, OnRecord, EnteredOnce, Backed, HasEntry, Kept
<1>4. RulesGoOn'
  BY DEF FinanceInductive, RulesGoOn, GoesOn, Kept
<1>5. ReadsGoOn'
  <2>1. CASE call' = call
    BY <2>1 DEF FinanceInductive, ReadsGoOn, GoodRead, GoesOn, Kept
  <2>2. CASE call' = [c \in Workers |-> AtEase]
    BY <1>1, <2>2 DEF ReadsGoOn, GoodRead
  <2>. QED
    BY <2>1, <2>2
<1>. QED
  BY <1>2, <1>3, <1>4, <1>5 DEF FinanceInductive

LEMMA FinanceStarts == FinanceInit => FinanceInductive
<1>. SUFFICES ASSUME FinanceInit PROVE FinanceInductive
  OBVIOUS
<1>1. AtEase \in Call /\ AtEase.step = "idle" /\ NoRecurring \in Rule /\ NoRecurring.status = "none"
  BY DEF AtEase, Call, NoRecurring, Rule
<1>2. FinanceTyped
  BY <1>1 DEF FinanceInit, FinanceTyped
<1>3. OnRecord /\ EnteredOnce /\ Backed
  BY DEF FinanceInit, OnRecord, EnteredOnce, Backed
<1>4. RulesGoOn
  BY <1>1 DEF FinanceInit, RulesGoOn, Kept
<1>5. ReadsGoOn
  BY <1>1 DEF FinanceInit, ReadsGoOn, GoodRead
<1>. QED
  BY <1>2, <1>3, <1>4, <1>5 DEF FinanceInductive

LEMMA FinanceSteps ==
  ASSUME FinanceInductive, [FinanceNext]_financeVars
  PROVE  FinanceInductive'
<1>1. ASSUME NEW c \in Workers, Asked(c) PROVE FinanceInductive'
  BY <1>1, ListingKeeps, SetKeeps, MaterializeKeeps, CreateKeeps, ReadRuleKeeps DEF Asked
<1>2. CASE PassDay \/ StopFinance \/ UNCHANGED financeVars
  <2>1. day' \in Int
    BY <1>2 DEF PassDay, StopFinance, financeVars, FinanceInductive, FinanceTyped
  <2>. QED
    BY <1>2, <2>1, StillKeeps DEF PassDay, StopFinance, financeVars
<1>. QED
  BY <1>1, <1>2, ListingKeeps, DeleteKeeps, ByHandKeeps DEF FinanceNext

LEMMA Invariant == FinanceSpec => []FinanceInductive
<1>1. FinanceInductive /\ [FinanceNext]_financeVars => FinanceInductive'
  BY FinanceSteps
<1>. QED
  BY <1>1, FinanceStarts, PTL DEF FinanceSpec

\* services/bandfinance materializeRule: the run ledger lets no occurrence of a
\* recurring entry into the ledger twice, whoever catches up, pauses, resumes, edits
\* or deletes at the same time.
THEOREM OccurrencesEnteredOnce == FinanceSpec => []EnteredOnce
<1>1. FinanceInductive => EnteredOnce
  BY DEF FinanceInductive
<1>. QED
  BY <1>1, Invariant, PTL

\* SetRecurringActive writes a day it read without a lock: what lies before it was
\* booked, with an entry, or passed over by a resumption all the same.
THEOREM NoneLost == FinanceSpec => []NothingPassedOver
<1>1. ASSUME FinanceInductive PROVE NothingPassedOver
  <2>. SUFFICES ASSUME NEW r \in Rules, Kept(r), NEW d \in Occurrences(rules[r].start, rules[r].next - 1)
                PROVE  /\ <<r, d>> \in booked \cup skipped
                       /\ <<r, d>> \in booked => HasEntry(<<r, d>>)
    BY DEF NothingPassedOver, HasEntry
  <2>. QED
    BY <1>1 DEF FinanceInductive, RulesGoOn, GoesOn, Backed
<1>. QED
  BY <1>1, Invariant, PTL
=============================================================================
