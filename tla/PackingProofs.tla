---------------------------- MODULE PackingProofs ----------------------------
(***************************************************************************)
(* Theorems about PackingList and PackingDevices, for any number of        *)
(* devices, requests and changes, any first list over its files and any    *)
(* quota.  What answers, events and queues are worth holds whatever a      *)
(* change does to the list; what the list shows opens every operation.     *)
(***************************************************************************)
EXTENDS PackingDevices, SequenceTheorems, WellFoundedInduction, TLAPS

-----------------------------------------------------------------------------
(* Lists and records, whatever they hold.                                   *)

IsSeq(s) == \E S : s \in Seq(S)

\* The log gains an entry and keeps the others.
LEMMA LogGrows ==
  ASSUME NEW s, IsSeq(s), NEW x
  PROVE  /\ IsSeq(Append(s, x))
         /\ Len(s) \in Nat /\ DOMAIN s = 1..Len(s)
         /\ Len(Append(s, x)) = Len(s) + 1
         /\ DOMAIN Append(s, x) = 1..(Len(s) + 1)
         /\ \A n \in DOMAIN s : Append(s, x)[n] = s[n]
         /\ Append(s, x)[Len(s) + 1] = x
<1>1. PICK S : s \in Seq(S)
  BY DEF IsSeq
<1>2. PICK T : T = S \cup {x}
  OBVIOUS
<1>3. s \in Seq(T) /\ x \in T
  BY <1>1, <1>2, SeqMonotonic
<1>4. Append(s, x) \in Seq(T)
  BY <1>3, AppendProperties
<1> QED
  BY <1>3, <1>4, AppendProperties, LenProperties DEF IsSeq

RequestOf(S) ==
  [status : S, event : S, change : S, base : S, view : S, stored : S, doomed : S, answer : S]
IsRequest(q) == \E S : q \in RequestOf(S)

AreRequests ==
  /\ calls = [r \in PackingRequests |-> calls[r]]
  /\ \A r \in PackingRequests : IsRequest(calls[r])

\* A request is a record over a set that has room for more.
LEMMA Roomy ==
  ASSUME NEW a, IsRequest(a), NEW X
  PROVE  \E S : a \in RequestOf(S) /\ X \subseteq S
<1>1. PICK S : a \in RequestOf(S)
  BY DEF IsRequest
<1>2. PICK T : T = S \cup X
  OBVIOUS
<1>3. a \in RequestOf(T) /\ X \subseteq T
  BY <1>1, <1>2 DEF RequestOf
<1> QED
  BY <1>3

LEMMA IdleIsRequest == IsRequest(IdleRequest) /\ IdleRequest.status = "idle" /\ IdleRequest.event = 0
<1>1. PICK T : T = {"idle", 0, NoChange, FALSE, {}}
  OBVIOUS
<1>2. IdleRequest \in RequestOf(T)
  BY <1>1 DEF IdleRequest, RequestOf
<1> QED
  BY <1>2 DEF IsRequest, IdleRequest

-----------------------------------------------------------------------------
(* What the steps of the server do to the request they are about.           *)

Changed(r, q) == IsRequest(q) /\ calls' = [calls EXCEPT ![r] = q]

LEMMA ChangedStays ==
  ASSUME AreRequests, NEW r \in PackingRequests, NEW q, Changed(r, q)
  PROVE  /\ AreRequests'
         /\ calls'[r] = q
         /\ \A x \in PackingRequests \ {r} : calls'[x] = calls[x]
BY DEF AreRequests, Changed

LEMMA ReplyChanges ==
  ASSUME AreRequests, NEW r \in PackingRequests, NEW answer, NEW n, Reply(r, answer, n)
  PROVE  \E q : Changed(r, q) /\ q.status = answer /\ q.event = calls[r].event
<1>1. PICK q : q = [calls[r] EXCEPT !.status = answer, !.stored = FALSE, !.answer = n]
  OBVIOUS
<1>2. calls' = [calls EXCEPT ![r] = q]
  BY <1>1 DEF Reply
<1>3. PICK X : X = {answer, FALSE, n}
  OBVIOUS
<1>4. PICK S : calls[r] \in RequestOf(S) /\ X \subseteq S
  BY Roomy DEF AreRequests
<1>5. q \in RequestOf(S) /\ q.status = answer /\ q.event = calls[r].event
  BY <1>1, <1>3, <1>4 DEF RequestOf
<1> QED
  BY <1>2, <1>5 DEF Changed, IsRequest

LEMMA ReceiveChanges ==
  ASSUME AreRequests, NEW r \in PackingRequests, NEW e, NEW c, NEW base, ReceiveChange(r, e, c, base)
  PROVE  /\ calls[r].status = "idle"
         /\ \E q : Changed(r, q) /\ q.status = "received" /\ q.event = e
<1>1. PICK q : q = [IdleRequest EXCEPT !.status = "received", !.event = e, !.change = c, !.base = base]
  OBVIOUS
<1>2. calls[r].status = "idle" /\ calls' = [calls EXCEPT ![r] = q]
  BY <1>1 DEF ReceiveChange
<1>3. PICK X : X = {"received", e, c, base}
  OBVIOUS
<1>4. PICK S : IdleRequest \in RequestOf(S) /\ X \subseteq S
  BY IdleIsRequest, Roomy
<1>5. q \in RequestOf(S) /\ q.status = "received" /\ q.event = e
  BY <1>1, <1>3, <1>4 DEF RequestOf
<1> QED
  BY <1>2, <1>5 DEF Changed, IsRequest

LEMMA FinishChanges ==
  ASSUME AreRequests, NEW r \in PackingRequests, FinishChange(r)
  PROVE  Changed(r, IdleRequest)
BY IdleIsRequest DEF FinishChange, Changed

LEMMA RestartChanges ==
  ASSUME AreRequests, Restart
  PROVE  /\ AreRequests'
         /\ \A r \in PackingRequests :
              \/ calls'[r] = calls[r] /\ calls[r].status = "idle"
              \/ /\ calls[r].status # "idle" /\ calls'[r].status = "error"
                 /\ calls'[r].event = calls[r].event
<1> DEFINE New(r) == IF calls[r].status = "idle" THEN calls[r]
                     ELSE [IdleRequest EXCEPT !.status = "error", !.event = calls[r].event]
<1>1. calls' = [r \in PackingRequests |-> New(r)]
  BY DEF Restart
<1>2. ASSUME NEW r \in PackingRequests
      PROVE  /\ IsRequest(New(r))
             /\ \/ New(r) = calls[r] /\ calls[r].status = "idle"
                \/ /\ calls[r].status # "idle" /\ New(r).status = "error"
                   /\ New(r).event = calls[r].event
  <2>1. PICK q : q = [IdleRequest EXCEPT !.status = "error", !.event = calls[r].event]
    OBVIOUS
  <2>2. IsRequest(q) /\ q.status = "error" /\ q.event = calls[r].event
    <3>1. PICK X : X = {"error", calls[r].event}
      OBVIOUS
    <3>2. PICK S : IdleRequest \in RequestOf(S) /\ X \subseteq S
      BY IdleIsRequest, Roomy
    <3>3. q \in RequestOf(S) /\ q.status = "error" /\ q.event = calls[r].event
      BY <2>1, <3>1, <3>2 DEF RequestOf
    <3> QED
      BY <3>3 DEF IsRequest
  <2>3. CASE calls[r].status = "idle"
    BY <2>3 DEF AreRequests
  <2>4. CASE calls[r].status # "idle"
    BY <2>1, <2>2, <2>4
  <2> QED
    BY <2>3, <2>4
<1> HIDE DEF New
<1> QED
  BY <1>1, <1>2 DEF AreRequests

\* A step that serves a request refuses it, replays its event, brings it nearer to
\* its commit, commits it or cleans up after it.
Refusals == {"forbidden", "sync_conflict", "unsupported", "quota", "target_deleted",
             "generation_conflict", "error"}
Open == {"received", "stored", "looked"}

Nearer(r, q) ==
  \/ q.status \in Refusals
  \/ q.status = "stored" /\ calls[r].status = "received"
  \/ /\ q.status = "looked" /\ calls[r].status \in {"received", "stored"}
     /\ q.view = Revision /\ Recorded(calls[r].event) = {}
  \/ q.status = "replayed" /\ Recorded(calls[r].event) # {}
  \/ q.status = "applied" /\ calls[r].status = "cleaning"

LEMMA ServeChanges ==
  ASSUME AreRequests, NEW r \in PackingRequests, PackingServe(r)
  PROVE  \E q : /\ Changed(r, q) /\ q.event = calls[r].event
                /\ \/ UNCHANGED listVars /\ Nearer(r, q)
                   \/ CommitChange(r) /\ q.status = "cleaning"
<1>0. IsRequest(calls[r])
  BY DEF AreRequests
<1>a. \A e : Prior(e) = Recorded(e)
  BY DEF Prior, Recorded
<1>1. ASSUME NEW answer \in Refusals, NEW n, Reply(r, answer, n), UNCHANGED listVars
      PROVE  \E q : /\ Changed(r, q) /\ q.event = calls[r].event
                    /\ UNCHANGED listVars /\ Nearer(r, q)
  BY <1>1, ReplyChanges DEF Nearer
<1>2. CASE Forbid(r)
  BY <1>1, <1>2 DEF Forbid, Refusals
<1>3. CASE ReplayChange(r)
  <2>1. PICK n \in Prior(calls[r].event) :
          IF Same(n, r) THEN Reply(r, "replayed", n) ELSE Reply(r, "sync_conflict", 0)
    BY <1>3 DEF ReplayChange
  <2>2. UNCHANGED listVars
    BY <1>3 DEF ReplayChange
  <2>3. CASE Reply(r, "replayed", n)
    <3>1. PICK q : Changed(r, q) /\ q.status = "replayed" /\ q.event = calls[r].event
      BY <2>3, ReplyChanges
    <3>2. Recorded(calls[r].event) # {}
      BY <2>1, <1>a
    <3>3. Nearer(r, q)
      BY <3>1, <3>2 DEF Nearer
    <3> QED
      BY <3>1, <3>3, <2>2
  <2>4. CASE Reply(r, "sync_conflict", 0)
    BY <1>1, <2>2, <2>4 DEF Refusals
  <2> QED
    BY <2>1, <2>3, <2>4
<1>4. CASE Store(r)
  <2>1. UNCHANGED listVars /\ calls[r].status = "received"
    BY <1>4 DEF Store
  <2>2. CASE Reply(r, "unsupported", 0) \/ Reply(r, "quota", 0) \/ Reply(r, "target_deleted", 0)
    BY <1>1, <2>1, <2>2 DEF Refusals
  <2>3. CASE calls' = [calls EXCEPT ![r].status = "stored", ![r].stored = TRUE]
    <3>1. PICK q : q = [calls[r] EXCEPT !.status = "stored", !.stored = TRUE]
      OBVIOUS
    <3>2. calls' = [calls EXCEPT ![r] = q]
      BY <2>3, <3>1
    <3>3. IsRequest(q) /\ q.status = "stored" /\ q.event = calls[r].event
      <4>1. PICK X : X = {"stored", TRUE}
        OBVIOUS
      <4>2. PICK S : calls[r] \in RequestOf(S) /\ X \subseteq S
        BY <1>0, Roomy
      <4>3. q \in RequestOf(S) /\ q.status = "stored" /\ q.event = calls[r].event
        BY <3>1, <4>1, <4>2 DEF RequestOf
      <4> QED
        BY <4>3 DEF IsRequest
    <3> QED
      BY <2>1, <3>2, <3>3 DEF Changed, Nearer
  <2> QED
    BY <1>4, <2>2, <2>3 DEF Store
<1>5. CASE Look(r)
  <2>1. PICK q : q = [calls[r] EXCEPT !.status = "looked", !.view = Revision]
    OBVIOUS
  <2>2. calls' = [calls EXCEPT ![r] = q] /\ UNCHANGED listVars
    BY <1>5, <2>1 DEF Look
  <2>3. IsRequest(q) /\ q.status = "looked" /\ q.event = calls[r].event /\ q.view = Revision
    <3>1. PICK X : X = {"looked", Revision}
      OBVIOUS
    <3>2. PICK S : calls[r] \in RequestOf(S) /\ X \subseteq S
      BY <1>0, Roomy
    <3>3. q \in RequestOf(S) /\ q.status = "looked" /\ q.event = calls[r].event /\ q.view = Revision
      BY <2>1, <3>1, <3>2 DEF RequestOf
    <3> QED
      BY <3>3 DEF IsRequest
  <2>4. calls[r].status \in {"received", "stored"} /\ Recorded(calls[r].event) = {}
    BY <1>5, <1>a DEF Look
  <2>5. Nearer(r, q)
    BY <2>3, <2>4 DEF Nearer
  <2> QED
    BY <2>2, <2>3, <2>5 DEF Changed
<1>6. CASE CommitChange(r)
  <2>1. PICK q : q = [calls[r] EXCEPT !.status = "cleaning", !.stored = FALSE,
                        !.doomed = FilesOf(calls[r].change), !.answer = Len(log')]
    OBVIOUS
  <2>2. calls' = [calls EXCEPT ![r] = q]
    BY <1>6, <2>1 DEF CommitChange
  <2>3. IsRequest(q) /\ q.status = "cleaning" /\ q.event = calls[r].event
    <3>1. PICK X : X = {"cleaning", FALSE, FilesOf(calls[r].change), Len(log')}
      OBVIOUS
    <3>2. PICK S : calls[r] \in RequestOf(S) /\ X \subseteq S
      BY <1>0, Roomy
    <3>3. q \in RequestOf(S) /\ q.status = "cleaning" /\ q.event = calls[r].event
      BY <2>1, <3>1, <3>2 DEF RequestOf
    <3> QED
      BY <3>3 DEF IsRequest
  <2> QED
    BY <1>6, <2>2, <2>3 DEF Changed
<1>7. CASE RefuseChange(r)
  BY <1>1, <1>7 DEF RefuseChange, Refusals
<1>8. CASE Clean(r)
  <2>1. PICK q : q = [calls[r] EXCEPT !.status = "applied", !.doomed = {}]
    OBVIOUS
  <2>2. calls' = [calls EXCEPT ![r] = q] /\ UNCHANGED listVars /\ calls[r].status = "cleaning"
    BY <1>8, <2>1 DEF Clean
  <2>3. IsRequest(q) /\ q.status = "applied" /\ q.event = calls[r].event
    <3>1. PICK X : X = {"applied", {}}
      OBVIOUS
    <3>2. PICK S : calls[r] \in RequestOf(S) /\ X \subseteq S
      BY <1>0, Roomy
    <3>3. q \in RequestOf(S) /\ q.status = "applied" /\ q.event = calls[r].event
      BY <2>1, <3>1, <3>2 DEF RequestOf
    <3> QED
      BY <3>3 DEF IsRequest
  <2> QED
    BY <2>2, <2>3 DEF Changed, Nearer
<1>9. CASE FailChange(r)
  BY <1>1, <1>9 DEF FailChange, Refusals
<1> QED
  BY <1>2, <1>3, <1>4, <1>5, <1>6, <1>7, <1>8, <1>9 DEF PackingServe

-----------------------------------------------------------------------------
(* Answers.  A request commits only if the revision its snapshot is of is   *)
(* the present one, so the list it read is the list it changes, whatever    *)
(* was committed since the request came in.  The conjuncts of               *)
(* AnswersAreRevisions carry each other.                                    *)

Revisions == IsSeq(log) /\ AnswersAreRevisions

LEMMA InitAnswers == PackingInit => Revisions
<1> SUFFICES ASSUME PackingInit PROVE Revisions
  OBVIOUS
<1>1. log = <<>> /\ IsSeq(log) /\ DOMAIN log = {} /\ Len(log) = 0
  BY EmptySeq DEF PackingInit, IsSeq
<1>2. list = FirstList /\ generation = 1
  BY DEF PackingInit
<1> QED
  BY <1>1, <1>2 DEF Revisions, AnswersAreRevisions, ListAt, GenerationAt, Revision

LEMMA CommitAnswers ==
  ASSUME Revisions, NEW r \in PackingRequests, CommitChange(r)
  PROVE  Revisions'
<1> DEFINE e == calls[r].event
           c == calls[r].change
<1>1. PICK entry : entry = [event |-> e, change |-> c, base |-> calls[r].base,
                            generation |-> generation', list |-> Applied(ListAt(calls[r].view), e, c)]
  OBVIOUS
<1>2. log' = Append(log, entry) /\ calls[r].view = Revision
  BY <1>1 DEF CommitChange, Locked
<1>3. IsSeq(log)
  BY DEF Revisions
<1>4. PICK k \in Nat : k = Len(log)
  BY <1>3, LogGrows
<1>5. /\ IsSeq(log') /\ DOMAIN log = 1..k /\ DOMAIN log' = 1..(k + 1) /\ Len(log') = k + 1
      /\ \A n \in 1..k : log'[n] = log[n]
      /\ log'[k + 1] = entry
  BY <1>2, <1>3, <1>4, LogGrows
<1>6. list = ListAt(k) /\ generation = GenerationAt(k)
  BY <1>4 DEF Revisions, AnswersAreRevisions, Revision
<1>7. ListAt(calls[r].view) = list
  BY <1>2, <1>4, <1>6 DEF Revision
<1>8. /\ Target(list, c)
      /\ list' = Applied(list, e, c)
      /\ generation' = GenerationAfter(generation, c)
  BY DEF CommitChange
<1>9. entry.event = e /\ entry.change = c /\ entry.generation = generation' /\ entry.list = list'
  BY <1>1, <1>7, <1>8
<1> HIDE DEF e, c
<1>10. \A n \in 0..k : ListAt(n)' = ListAt(n) /\ GenerationAt(n)' = GenerationAt(n)
  BY <1>4, <1>5 DEF ListAt, GenerationAt
<1>11. ListAt(k + 1)' = list' /\ GenerationAt(k + 1)' = generation'
  BY <1>4, <1>5, <1>9 DEF ListAt, GenerationAt
<1>12. ASSUME NEW n \in DOMAIN log'
       PROVE  /\ Target(ListAt(n - 1)', log'[n].change)
              /\ log'[n].list = Applied(ListAt(n - 1)', log'[n].event, log'[n].change)
              /\ log'[n].generation = GenerationAfter(GenerationAt(n - 1)', log'[n].change)
  <2>1. CASE n \in 1..k
    <3>1. /\ Target(ListAt(n - 1), log[n].change)
          /\ log[n].list = Applied(ListAt(n - 1), log[n].event, log[n].change)
          /\ log[n].generation = GenerationAfter(GenerationAt(n - 1), log[n].change)
      BY <1>5, <2>1 DEF Revisions, AnswersAreRevisions
    <3>2. n - 1 \in 0..k /\ log'[n] = log[n]
      BY <1>4, <1>5, <2>1
    <3>3. ListAt(n - 1)' = ListAt(n - 1) /\ GenerationAt(n - 1)' = GenerationAt(n - 1)
      BY <1>10, <3>2
    <3> QED
      BY <3>1, <3>2, <3>3
  <2>2. CASE n = k + 1
    <3>1. n - 1 = k /\ k \in 0..k /\ log'[n] = entry
      BY <1>4, <1>5, <2>2
    <3>2. ListAt(n - 1)' = list /\ GenerationAt(n - 1)' = generation
      BY <1>6, <1>10, <3>1
    <3> QED
      BY <1>8, <1>9, <3>1, <3>2
  <2> QED
    BY <1>4, <1>5, <2>1, <2>2
<1>13. list' = ListAt(Revision)' /\ generation' = GenerationAt(Revision)'
  BY <1>5, <1>11 DEF Revision
<1> QED
  BY <1>5, <1>12, <1>13 DEF Revisions, AnswersAreRevisions

LEMMA StepAnswers == Revisions /\ AreRequests /\ [PackingNext]_packingVars => Revisions'
<1> SUFFICES ASSUME Revisions, AreRequests, [PackingNext]_packingVars PROVE Revisions'
  OBVIOUS
<1>1. CASE UNCHANGED listVars
  BY <1>1 DEF listVars, Revisions, AnswersAreRevisions, ListAt, GenerationAt, Revision
<1>2. ASSUME NEW r \in PackingRequests, PackingServe(r)
      PROVE  UNCHANGED listVars \/ CommitChange(r)
  BY <1>2, ServeChanges
<1> QED
  BY <1>1, <1>2, CommitAnswers DEF PackingNext, Submit, Restart, packingVars

LEMMA InitRequests == PackingInit => AreRequests
BY IdleIsRequest DEF PackingInit, AreRequests

LEMMA StepRequests == AreRequests /\ [PackingNext]_packingVars => AreRequests'
<1> SUFFICES ASSUME AreRequests, [PackingNext]_packingVars PROVE AreRequests'
  OBVIOUS
<1>1. ASSUME NEW r \in PackingRequests, NEW q, Changed(r, q)
      PROVE  AreRequests'
  BY <1>1, ChangedStays
<1>2. CASE Restart
  BY <1>2, RestartChanges
<1>3. CASE UNCHANGED calls
  BY <1>3 DEF AreRequests
<1>4. ASSUME NEW r \in PackingRequests, NEW e \in Changes, Submit(r, e)
      PROVE  AreRequests'
  BY <1>1, <1>4, ReceiveChanges DEF Submit
<1>5. ASSUME NEW r \in PackingRequests, PackingServe(r)
      PROVE  AreRequests'
  BY <1>1, <1>5, ServeChanges
<1>6. ASSUME NEW r \in PackingRequests, FinishChange(r)
      PROVE  AreRequests'
  BY <1>1, <1>6, FinishChanges
<1> QED
  BY <1>2, <1>3, <1>4, <1>5, <1>6 DEF PackingNext, packingVars

\* Every recorded answer is the list of its revision, and the rows are those of the
\* last one, however the requests overlap and wherever the server stops.
THEOREM AnswersTrue == PackingSpec => []AnswersAreRevisions
<1>1. PackingInit => Revisions /\ AreRequests
  BY InitAnswers, InitRequests
<1>2. Revisions /\ AreRequests /\ [PackingNext]_packingVars => (Revisions /\ AreRequests)'
  BY StepAnswers, StepRequests
<1>3. Revisions => AnswersAreRevisions
  BY DEF Revisions
<1> QED
  BY <1>1, <1>2, <1>3, PTL DEF PackingSpec

-----------------------------------------------------------------------------
(* Events.  Inductive: a request whose transaction found no event of its    *)
(* own finds one only beyond the revision its snapshot is of, and then the  *)
(* lock fails.                                                              *)

Unentered ==
  \A r \in PackingRequests : calls[r].status = "looked" =>
    /\ calls[r].view \in 0..Revision
    /\ \A n \in Recorded(calls[r].event) : calls[r].view < n

Entering == IsSeq(log) /\ AreRequests /\ Unentered

LEMMA RecordedGrows ==
  ASSUME IsSeq(log), NEW entry, log' = Append(log, entry)
  PROVE  /\ IsSeq(log') /\ Revision \in Nat /\ Revision' = Revision + 1
         /\ Recorded(entry.event)' = Recorded(entry.event) \cup {Revision + 1}
         /\ \A e : e # entry.event => Recorded(e)' = Recorded(e)
         /\ \A e : Recorded(e) \subseteq 1..Revision
<1>1. PICK k \in Nat : k = Len(log)
  BY LogGrows
<1>2. /\ IsSeq(log') /\ DOMAIN log = 1..k /\ DOMAIN log' = 1..(k + 1) /\ Len(log') = k + 1
      /\ \A n \in 1..k : log'[n] = log[n]
      /\ log'[k + 1] = entry
  BY <1>1, LogGrows
<1>3. 1..(k + 1) = (1..k) \cup {k + 1}
  BY <1>1
<1>4. \A e : Recorded(e) = {n \in 1..k : log[n].event = e}
  BY <1>2 DEF Recorded
<1>5. \A e : Recorded(e)' = {n \in (1..k) \cup {k + 1} : log'[n].event = e}
  BY <1>2, <1>3 DEF Recorded
<1> QED
  BY <1>1, <1>2, <1>4, <1>5 DEF Revision

LEMMA LogStays == UNCHANGED log => Revision' = Revision /\ \A e : Recorded(e)' = Recorded(e)
BY DEF Revision, Recorded

\* The entry a commit appends, and no other was there of its event.
LEMMA CommitEnters ==
  ASSUME Entering, NEW r \in PackingRequests, CommitChange(r)
  PROVE  /\ \E entry : log' = Append(log, entry) /\ entry.event = calls[r].event
         /\ Recorded(calls[r].event) = {}
<1>1. \E entry : log' = Append(log, entry) /\ entry.event = calls[r].event
  BY DEF CommitChange
<1>2. calls[r].view = Revision /\ calls[r].status = "looked"
  BY DEF CommitChange, Locked
<1>3. \A e : Recorded(e) \subseteq 1..Revision
  BY <1>1, RecordedGrows DEF Entering
<1>4. \A n \in Recorded(calls[r].event) : n \in 1..Revision /\ Revision < n
  BY <1>2, <1>3 DEF Entering, Unentered
<1>5. Revision \in Nat
  BY <1>1, RecordedGrows DEF Entering
<1> QED
  BY <1>1, <1>4, <1>5

LEMMA InitEntering == PackingInit => Entering
<1> SUFFICES ASSUME PackingInit PROVE Entering
  OBVIOUS
<1>1. IsSeq(log)
  BY EmptySeq DEF PackingInit, IsSeq
<1>2. \A r \in PackingRequests : calls[r].status = "idle"
  BY IdleIsRequest DEF PackingInit
<1> QED
  BY <1>1, <1>2, InitRequests DEF Entering, Unentered

\* A step about one request, beside an append or not.
LEMMA UnenteredStep ==
  ASSUME Entering, NEW r \in PackingRequests, NEW q, Changed(r, q),
         \/ UNCHANGED log
         \/ \E entry : log' = Append(log, entry),
         q.status = "looked" => UNCHANGED log /\ q.view = Revision /\ Recorded(q.event) = {}
  PROVE  Unentered'
<1>1. calls'[r] = q /\ \A x \in PackingRequests \ {r} : calls'[x] = calls[x]
  BY ChangedStays DEF Entering
<1>2. /\ Revision \in Nat /\ Revision' \in Nat /\ Revision <= Revision'
      /\ \A e : Recorded(e)' \subseteq Recorded(e) \cup {Revision + 1}
  <2>1. CASE UNCHANGED log
    <3>1. Revision \in Nat
      BY LogGrows DEF Entering, Revision
    <3> QED
      BY <2>1, <3>1, LogStays
  <2>2. ASSUME NEW entry, log' = Append(log, entry) PROVE <1>2!1 /\ <1>2!2
    BY <2>2, RecordedGrows DEF Entering
  <2> QED
    BY <2>1, <2>2
<1>3. ASSUME NEW x \in PackingRequests, calls'[x].status = "looked",
             NEW e, e = calls'[x].event
      PROVE  /\ calls'[x].view \in 0..Revision'
             /\ \A n \in Recorded(e)' : calls'[x].view < n
  <2>1. CASE x = r
    <3>1. q.view = Revision /\ Recorded(e) = {} /\ UNCHANGED log
      BY <1>1, <1>3, <2>1
    <3>2. Recorded(e)' = {} /\ Revision' = Revision
      BY <3>1, LogStays
    <3> QED
      BY <1>1, <1>2, <2>1, <3>1, <3>2
  <2>2. CASE x # r
    <3>1. calls'[x] = calls[x]
      BY <1>1, <2>2
    <3>2. PICK v \in 0..Revision : v = calls[x].view /\ \A n \in Recorded(e) : v < n
      BY <1>3, <3>1 DEF Entering, Unentered
    <3>3. \A n \in Recorded(e)' : n \in Recorded(e) \/ n = Revision + 1
      BY <1>2
    <3> QED
      BY <1>2, <3>1, <3>2, <3>3
  <2> QED
    BY <2>1, <2>2
<1>4. ASSUME NEW x \in PackingRequests, calls'[x].status = "looked"
      PROVE  /\ calls'[x].view \in 0..Revision'
             /\ \A n \in {m \in DOMAIN log' : log'[m].event = calls'[x].event} : calls'[x].view < n
  <2>1. PICK e : e = calls'[x].event
    OBVIOUS
  <2> QED
    BY <1>3, <1>4, <2>1 DEF Recorded
<1> QED
  BY <1>4 DEF Unentered, Recorded

LEMMA StepEntering == Entering /\ [PackingNext]_packingVars => Entering'
<1> SUFFICES ASSUME Entering, [PackingNext]_packingVars PROVE Entering'
  OBVIOUS
<1>0. AreRequests'
  BY StepRequests DEF Entering
<1>1. ASSUME NEW r \in PackingRequests, NEW q, Changed(r, q), q.status # "looked", UNCHANGED log
      PROVE  Entering'
  BY <1>0, <1>1, UnenteredStep DEF Entering
<1>2. CASE Restart
  <2>1. UNCHANGED log /\ \A r \in PackingRequests : calls'[r].status # "looked"
    BY <1>2, RestartChanges DEF Restart, listVars, Entering
  <2> QED
    BY <1>0, <2>1 DEF Entering, Unentered
<1>3. CASE UNCHANGED <<listVars, calls>>
  <2>1. UNCHANGED <<log, calls>> /\ Revision' = Revision
    BY <1>3, LogStays DEF listVars
  <2> QED
    BY <1>0, <2>1 DEF Entering, Unentered, Recorded
<1>4. ASSUME NEW r \in PackingRequests, NEW e \in Changes, Submit(r, e)
      PROVE  Entering'
  <2>1. UNCHANGED log /\ \E q : Changed(r, q) /\ q.status = "received"
    BY <1>4, ReceiveChanges DEF Submit, listVars, Entering
  <2> QED
    BY <1>1, <2>1
<1>5. ASSUME NEW r \in PackingRequests, PackingServe(r)
      PROVE  Entering'
  <2>1. PICK q : /\ Changed(r, q) /\ q.event = calls[r].event
                 /\ \/ UNCHANGED listVars /\ Nearer(r, q)
                    \/ CommitChange(r) /\ q.status = "cleaning"
    BY <1>5, ServeChanges DEF Entering
  <2>2. CASE UNCHANGED listVars /\ Nearer(r, q)
    <3>1. UNCHANGED log
      BY <2>2 DEF listVars
    <3>2. q.status = "looked" => q.view = Revision /\ Recorded(q.event) = {}
      BY <2>1, <2>2 DEF Nearer, Refusals
    <3>3. Unentered'
      BY <2>1, <3>1, <3>2, UnenteredStep
    <3> QED
      BY <1>0, <3>1, <3>3 DEF Entering
  <2>3. CASE CommitChange(r) /\ q.status = "cleaning"
    <3>1. PICK entry : log' = Append(log, entry)
      BY <2>3, CommitEnters
    <3>2. Unentered'
      BY <2>1, <2>3, <3>1, UnenteredStep
    <3>3. IsSeq(log')
      BY <3>1, RecordedGrows DEF Entering
    <3> QED
      BY <1>0, <3>2, <3>3 DEF Entering
  <2> QED
    BY <2>1, <2>2, <2>3
<1>6. ASSUME NEW r \in PackingRequests, FinishChange(r), UNCHANGED log
      PROVE  Entering'
  BY <1>1, <1>6, FinishChanges, IdleIsRequest DEF Entering
<1> QED
  BY <1>2, <1>3, <1>4, <1>5, <1>6 DEF PackingNext, packingVars, listVars

-----------------------------------------------------------------------------
(* The log implements BookedOnce: a commit enters its event, every other    *)
(* step leaves the log alone.                                               *)

Ledger == [e \in Changes |-> Recorded(e)]

LEMMA InitRefines == PackingInit => Entered!Init
BY DEF PackingInit, Entered!Init, Recorded

LEMMA StepRefines ==
  Entering /\ [PackingNext]_packingVars => [Entered!Next]_Ledger
<1> SUFFICES ASSUME Entering, [PackingNext]_packingVars PROVE Ledger' = Ledger \/ Entered!Next
  OBVIOUS
<1>1. CASE UNCHANGED log
  BY <1>1 DEF Ledger, Recorded
<1>2. ASSUME NEW r \in PackingRequests, CommitChange(r)
      PROVE  Ledger' = Ledger \/ Entered!Next
  <2>1. PICK e, entry : e = calls[r].event /\ log' = Append(log, entry) /\ entry.event = e
    BY <1>2, CommitEnters
  <2>2. Recorded(e) = {}
    BY <1>2, <2>1, CommitEnters
  <2>3. Recorded(e)' = {Revision + 1} /\ \A f : f # e => Recorded(f)' = Recorded(f)
    BY <2>1, <2>2, RecordedGrows DEF Entering
  <2>4. CASE e \in Changes
    <3>1. Ledger[e] = {} /\ Ledger' = [Ledger EXCEPT ![e] = {Revision + 1}]
      BY <2>2, <2>3, <2>4 DEF Ledger
    <3>2. Revision + 1 \in Ledger'[e]
      BY <2>3, <2>4 DEF Ledger
    <3>3. Entered!Book(e)
      BY <3>1, <3>2 DEF Entered!Book, Ledger
    <3> QED
      BY <2>4, <3>3 DEF Entered!Next
  <2>5. CASE e \notin Changes
    BY <2>3, <2>5 DEF Ledger
  <2> QED
    BY <2>4, <2>5
<1>3. PackingNext => UNCHANGED log \/ \E r \in PackingRequests : CommitChange(r)
  <2>1. ASSUME NEW r \in PackingRequests, PackingServe(r)
        PROVE  UNCHANGED listVars \/ CommitChange(r)
    BY <2>1, ServeChanges DEF Entering
  <2> QED
    BY <2>1 DEF PackingNext, Submit, Restart, listVars
<1> QED
  BY <1>1, <1>2, <1>3 DEF packingVars, listVars

\* Every behaviour of the packing list is one in which each event enters its log at
\* most once and for good.
THEOREM ImplementsBookedOnce == PackingSpec => AppliedOnce
<1>1. PackingInit => Entering /\ Entered!Init
  BY InitEntering, InitRefines
<1>2. Entering /\ [PackingNext]_packingVars => Entering'
  BY StepEntering
<1>3. Entering /\ [PackingNext]_packingVars => [Entered!Next]_Ledger
  BY StepRefines
<1> QED
  BY <1>1, <1>2, <1>3, PTL DEF PackingSpec, AppliedOnce, Entered!Spec, Ledger

-----------------------------------------------------------------------------
(* Rows, whatever they hold.                                                *)

\* A row that is looked for by its id is found.
LEMMA FirstFound ==
  ASSUME NEW S, NEW rows \in Seq(S), NEW K \in SUBSET DOMAIN rows, K # {}
  PROVE  \E k \in K : \A j \in K : k <= j
<1>1. K \subseteq Nat
  BY LenProperties
<1>2. PICK k \in K : \A j \in K : ~ (<<j, k>> \in OpToRel(<, Nat))
  BY <1>1, NatLessThanWellFounded, WFMin, Zenon
<1>3. \A j \in K : ~ (j < k)
  BY <1>1, <1>2, Zenon DEF OpToRel
<1> QED
  BY <1>1, <1>3

LEMMA RowFound ==
  ASSUME NEW S, NEW rows \in Seq(S), NEW id \in Ids(rows)
  PROVE  /\ PlaceOf(rows, id) \in DOMAIN rows
         /\ RowOf(rows, id) \in S
         /\ RowOf(rows, id).id = id
<1>1. PICK K : K = {k \in DOMAIN rows : rows[k].id = id}
  OBVIOUS
<1>2. \E k \in K : \A j \in K : k <= j
  BY <1>1, FirstFound DEF Ids
<1>3. \E k \in DOMAIN rows : rows[k].id = id /\ \A j \in DOMAIN rows : rows[j].id = id => k <= j
  BY <1>1, <1>2
<1>4. PICK k : k = PlaceOf(rows, id)
  OBVIOUS
<1>5. k \in DOMAIN rows /\ rows[k].id = id
  BY <1>3, <1>4 DEF PlaceOf, First
<1> QED
  BY <1>4, <1>5, LenProperties DEF RowOf

LEMMA HomeFound ==
  ASSUME NEW S, NEW bags \in Seq(S), NEW item \in ItemIds(bags)
  PROVE  Home(bags, item) \in S /\ item \in Ids(Home(bags, item).items)
<1>1. PICK K : K = {k \in DOMAIN bags : item \in Ids(bags[k].items)}
  OBVIOUS
<1>2. \E k \in K : \A j \in K : k <= j
  BY <1>1, FirstFound DEF ItemIds
<1>3. \E k \in DOMAIN bags : item \in Ids(bags[k].items) /\ \A j \in DOMAIN bags : item \in Ids(bags[j].items) => k <= j
  BY <1>1, <1>2
<1>4. PICK k : k = First(bags, LAMBDA bag : item \in Ids(bag.items))
  OBVIOUS
<1>5. k \in DOMAIN bags /\ item \in Ids(bags[k].items)
  BY <1>3, <1>4 DEF First
<1> QED
  BY <1>4, <1>5, LenProperties DEF Home

\* Rows of S stay rows of S: one is written, deleted, appended, all are ordered.
LEMMA WithRows ==
  ASSUME NEW S, NEW rows \in Seq(S), NEW row \in S
  PROVE  With(rows, row) \in Seq(S)
<1>1. PICK k : k = PlaceOf(rows, row.id)
  OBVIOUS
<1>2. With(rows, row) = [rows EXCEPT ![k] = row]
  BY <1>1 DEF With
<1>3. CASE k \in 1..Len(rows)
  BY <1>2, <1>3, ExceptSeq
<1>4. CASE k \notin 1..Len(rows)
  <2>1. [rows EXCEPT ![k] = row] = rows
    BY <1>4, LenProperties
  <2> QED
    BY <1>2, <2>1
<1> QED
  BY <1>3, <1>4

LEMMA WithoutRows ==
  ASSUME NEW S, NEW rows \in Seq(S), NEW id \in Ids(rows)
  PROVE  Without(rows, id) \in Seq(S)
<1>1. PICK k \in DOMAIN rows : k = PlaceOf(rows, id)
  BY RowFound
<1>2. Without(rows, id) = SubSeq(rows, 1, k - 1) \o SubSeq(rows, k + 1, Len(rows))
  BY <1>1 DEF Without, RemoveAt
<1>3. DOMAIN rows = 1..Len(rows) /\ Len(rows) \in Nat /\ \A i \in 1..Len(rows) : rows[i] \in S
  BY LenProperties
<1>4. /\ k - 1 \in Int /\ k + 1 \in Int /\ Len(rows) \in Int
      /\ \A i \in 1..(k - 1) : rows[i] \in S
      /\ \A i \in (k + 1)..Len(rows) : rows[i] \in S
  BY <1>1, <1>3
<1>5. SubSeq(rows, 1, k - 1) \in Seq(S)
  BY <1>4, SubSeqProperties, SMTT(20)
<1>6. SubSeq(rows, k + 1, Len(rows)) \in Seq(S)
  BY <1>4, SubSeqProperties, SMTT(20)
<1> QED
  BY <1>2, <1>5, <1>6, ConcatProperties

LEMMA RowByRow ==
  ASSUME NEW S, NEW T, NEW rows \in Seq(S), NEW new,
         new = [i \in DOMAIN rows |-> new[i]], \A i \in DOMAIN rows : new[i] \in T
  PROVE  new \in Seq(T) /\ DOMAIN new = DOMAIN rows
<1>1. DOMAIN rows = 1..Len(rows) /\ Len(rows) \in Nat
  BY LenProperties
<1>2. new \in [1..Len(rows) -> T]
  BY <1>1
<1> QED
  BY <1>1, <1>2

LEMMA ReorderedRows ==
  ASSUME NEW S, NEW rows \in Seq(S), NEW order \in Seq(Nat), Orders(order, rows)
  PROVE  Reordered(rows, order) \in Seq(S)
<1>1. PICK new : new = Reordered(rows, order)
  OBVIOUS
<1>2. new = [i \in DOMAIN order |-> RowOf(rows, order[i])]
  BY <1>1 DEF Reordered, Each
<1>3. ASSUME NEW i \in DOMAIN order PROVE new[i] \in S
  <2>1. order[i] \in Ids(rows)
    BY DEF Orders, ToSet
  <2> QED
    BY <1>2, <2>1, RowFound
<1>4. new = [i \in DOMAIN order |-> new[i]]
  BY <1>2
<1> QED
  BY <1>1, <1>3, <1>4, RowByRow

-----------------------------------------------------------------------------
(* Photos of bags.                                                          *)

LEMMA Wider ==
  ASSUME NEW P, NEW Q, P \subseteq Q
  PROVE  ItemsOver(P) \subseteq ItemsOver(Q) /\ BagsOver(P) \subseteq BagsOver(Q)
<1>1. ItemsOver(P) \subseteq ItemsOver(Q)
  BY DEF ItemsOver
<1>2. Seq(ItemsOver(P)) \subseteq Seq(ItemsOver(Q))
  BY <1>1, SeqMonotonic
<1> QED
  BY <1>1, <1>2 DEF BagsOver

LEMMA WiderLists ==
  ASSUME NEW P, NEW Q, P \subseteq Q, NEW bags \in Seq(BagsOver(P))
  PROVE  bags \in Seq(BagsOver(Q))
BY Wider, SeqMonotonic

\* The photos of a list are the least its bags can be made over.
LEMMA PhotosWithin ==
  ASSUME NEW P, NEW bags \in Seq(BagsOver(P))
  PROVE  PhotoIds(bags) \subseteq P
<1>1. ASSUME NEW bag \in BagsOver(P) PROVE PhotosOf(bag) \subseteq P
  <2>1. bag.photos \subseteq P /\ bag.items \in Seq(ItemsOver(P))
    BY DEF BagsOver
  <2>2. \A i \in DOMAIN bag.items : bag.items[i] \in ItemsOver(P)
    BY <2>1, LenProperties
  <2>3. \A item \in ItemsOver(P) : item.photos \subseteq P
    BY DEF ItemsOver
  <2> QED
    BY <2>1, <2>2, <2>3 DEF PhotosOf
<1>2. \A i \in DOMAIN bags : bags[i] \in BagsOver(P)
  BY LenProperties
<1> QED
  BY <1>1, <1>2 DEF PhotoIds

LEMMA OverItsPhotos ==
  ASSUME NEW P, NEW Q, NEW bags \in Seq(BagsOver(Q)), PhotoIds(bags) \subseteq P
  PROVE  bags \in Seq(BagsOver(P))
<1>1. ASSUME NEW i \in DOMAIN bags PROVE bags[i] \in BagsOver(P)
  <2>1. PICK bag : bag = bags[i]
    OBVIOUS
  <2>2. bag \in BagsOver(Q)
    BY <2>1, LenProperties
  <2>3. PhotosOf(bag) \subseteq P
    BY <2>1 DEF PhotoIds
  <2>4. bag.photos \subseteq P /\ \A j \in DOMAIN bag.items : bag.items[j].photos \subseteq P
    BY <2>3 DEF PhotosOf
  <2>5. bag.items \in Seq(ItemsOver(Q))
    BY <2>2 DEF BagsOver
  <2>6. \A j \in DOMAIN bag.items : bag.items[j] \in ItemsOver(P)
    <3>1. \A j \in DOMAIN bag.items : bag.items[j] \in ItemsOver(Q)
      BY <2>5, LenProperties
    <3> QED
      BY <2>4, <3>1 DEF ItemsOver
  <2>7. bag.items \in Seq(ItemsOver(P))
    BY <2>5, <2>6, LenProperties
  <2> QED
    BY <2>1, <2>2, <2>4, <2>7 DEF BagsOver
<1> QED
  BY <1>1, LenProperties

\* A row written with other names has the same photos.
LEMMA SamePhotos ==
  ASSUME NEW P, NEW bags \in Seq(BagsOver(P)), NEW a, NEW b, a.id = b.id, PhotosOf(a) = PhotosOf(b)
  PROVE  PhotoIds(With(bags, a)) = PhotoIds(With(bags, b))
<1>1. PICK k : k = PlaceOf(bags, a.id)
  OBVIOUS
<1>2. With(bags, a) = [bags EXCEPT ![k] = a] /\ With(bags, b) = [bags EXCEPT ![k] = b]
  BY <1>1 DEF With
<1>3. PICK x : x = With(bags, a)
  OBVIOUS
<1>4. PICK y : y = With(bags, b)
  OBVIOUS
<1>5. DOMAIN x = DOMAIN bags /\ DOMAIN y = DOMAIN bags
  BY <1>2, <1>3, <1>4
<1>6. \A i \in DOMAIN bags : PhotosOf(x[i]) = PhotosOf(y[i])
  BY <1>2, <1>3, <1>4
<1> QED
  BY <1>3, <1>4, <1>5, <1>6 DEF PhotoIds

LEMMA SamePhotosOf ==
  ASSUME NEW P, NEW bag \in BagsOver(P), NEW a, NEW b, a.id = b.id, a.photos = b.photos
  PROVE  WithItem(bag, a).id = WithItem(bag, b).id /\ PhotosOf(WithItem(bag, a)) = PhotosOf(WithItem(bag, b))
<1>1. PICK k : k = PlaceOf(bag.items, a.id)
  OBVIOUS
<1>2. PICK x : x = [bag.items EXCEPT ![k] = a]
  OBVIOUS
<1>3. PICK y : y = [bag.items EXCEPT ![k] = b]
  OBVIOUS
<1>4. WithItem(bag, a) = [bag EXCEPT !.items = x] /\ WithItem(bag, b) = [bag EXCEPT !.items = y]
  BY <1>1, <1>2, <1>3 DEF WithItem, With
<1>5. /\ WithItem(bag, a).id = bag.id /\ WithItem(bag, a).photos = bag.photos /\ WithItem(bag, a).items = x
      /\ WithItem(bag, b).id = bag.id /\ WithItem(bag, b).photos = bag.photos /\ WithItem(bag, b).items = y
  BY <1>4 DEF BagsOver
<1>6. DOMAIN x = DOMAIN bag.items /\ DOMAIN y = DOMAIN bag.items /\ \A i \in DOMAIN bag.items : x[i].photos = y[i].photos
  BY <1>2, <1>3
<1> QED
  BY <1>5, <1>6 DEF PhotosOf

-----------------------------------------------------------------------------
(* What is done to one bag.                                                 *)

RawBags(P) == [id : Nat, name : Nat, status : PackingStatuses, photos : SUBSET P, items : Seq(ItemsOver(P))]
ItemsIn(P, status) == {item \in ItemsOver(P) : status = "packed" => item.status # "open"}

LEMMA BagParts ==
  ASSUME NEW P, NEW bag \in BagsOver(P)
  PROVE  bag \in RawBags(P) /\ bag.items \in Seq(ItemsIn(P, bag.status))
<1>1. bag \in RawBags(P) /\ bag.items \in Seq(ItemsOver(P))
  BY DEF BagsOver, RawBags
<1>2. \A i \in DOMAIN bag.items : bag.items[i] \in ItemsIn(P, bag.status)
  BY <1>1, LenProperties DEF BagsOver, ItemsIn
<1> QED
  BY <1>1, <1>2, LenProperties

LEMMA BagWhole ==
  ASSUME NEW P, NEW bag \in RawBags(P), bag.items \in Seq(ItemsIn(P, bag.status))
  PROVE  bag \in BagsOver(P)
<1>1. \A i \in DOMAIN bag.items : bag.items[i] \in ItemsIn(P, bag.status)
  BY LenProperties
<1> QED
  BY <1>1 DEF RawBags, BagsOver, ItemsIn

LEMMA NewItems ==
  ASSUME NEW P, NEW bag \in RawBags(P), NEW items \in Seq(ItemsOver(P)), NEW new, new = [bag EXCEPT !.items = items]
  PROVE  /\ new \in RawBags(P) /\ new.items = items
         /\ new.id = bag.id /\ new.status = bag.status /\ new.photos = bag.photos
BY DEF RawBags

LEMMA NewStatus ==
  ASSUME NEW P, NEW bag \in RawBags(P), NEW status \in PackingStatuses, NEW new, new = [bag EXCEPT !.status = status]
  PROVE  /\ new \in RawBags(P) /\ new.status = status
         /\ new.id = bag.id /\ new.items = bag.items /\ new.photos = bag.photos
BY DEF RawBags

LEMMA ItemsInOver ==
  ASSUME NEW P, NEW status, NEW items \in Seq(ItemsIn(P, status))
  PROVE  items \in Seq(ItemsOver(P))
BY SeqMonotonic DEF ItemsIn

\* Other items for a bag, each fit for its status.
LEMMA ItemsFit ==
  ASSUME NEW P, NEW bag \in RawBags(P), NEW items \in Seq(ItemsIn(P, bag.status))
  PROVE  [bag EXCEPT !.items = items] \in BagsOver(P)
<1>1. PICK new : new = [bag EXCEPT !.items = items]
  OBVIOUS
<1>2. new \in RawBags(P) /\ new.items = items /\ new.status = bag.status
  BY <1>1, NewItems, ItemsInOver
<1> QED
  BY <1>1, <1>2, BagWhole

LEMMA RecomputedBag ==
  ASSUME NEW P, NEW bag \in RawBags(P)
  PROVE  Recomputed(bag) \in BagsOver(P)
<1>1. bag.items \in Seq(ItemsOver(P)) /\ bag.status \in PackingStatuses
  BY DEF RawBags
<1>2. ASSUME NEW new \in RawBags(P), new.items = bag.items,
             new.status = "packed" => \A i \in DOMAIN bag.items : bag.items[i].status # "open"
      PROVE  new \in BagsOver(P)
  BY <1>2 DEF BagsOver, RawBags
<1>3. CASE bag.status = "stays_here"
  BY <1>2, <1>3 DEF Recomputed
<1>4. CASE bag.status # "stays_here" /\ \E i \in DOMAIN bag.items : bag.items[i].status = "open"
  <2>1. PICK new : new = [bag EXCEPT !.status = "open"]
    OBVIOUS
  <2>2. new \in RawBags(P) /\ new.items = bag.items /\ new.status = "open"
    BY <2>1, NewStatus DEF PackingStatuses
  <2> QED
    BY <1>2, <1>4, <2>1, <2>2 DEF Recomputed
<1>5. CASE bag.status # "stays_here" /\ ~ \E i \in DOMAIN bag.items : bag.items[i].status = "open"
  <2>1. PICK new : new = [bag EXCEPT !.status = "packed"]
    OBVIOUS
  <2>2. new \in RawBags(P) /\ new.items = bag.items
    BY <2>1, NewStatus DEF PackingStatuses
  <2> QED
    BY <1>2, <1>5, <2>1, <2>2 DEF Recomputed
<1> QED
  BY <1>3, <1>4, <1>5

LEMMA AddedBag ==
  ASSUME NEW P, NEW bag \in BagsOver(P), NEW id \in Nat
  PROVE  /\ ItemAdded(bag, id) \in BagsOver(P)
         /\ ItemAdded(bag, id).id = bag.id
         /\ PhotosOf(ItemAdded(bag, id)) = PhotosOf(bag)
<1>1. bag \in RawBags(P) /\ bag.items \in Seq(ItemsOver(P)) /\ bag.status \in PackingStatuses
  BY BagParts DEF RawBags
<1>2. NewItem(id) \in ItemsOver(P) /\ NewItem(id).photos = {}
  BY DEF NewItem, ItemsOver, PackingStatuses
<1>3. PICK items : items = Append(bag.items, NewItem(id))
  OBVIOUS
<1>4. /\ items \in Seq(ItemsOver(P)) /\ DOMAIN items = DOMAIN bag.items \cup {Len(bag.items) + 1}
      /\ \A i \in DOMAIN bag.items : items[i] = bag.items[i]
      /\ items[Len(bag.items) + 1].photos = {}
  BY <1>1, <1>2, <1>3, AppendProperties, LenProperties
<1>5. PICK status \in PackingStatuses : status = (IF bag.status = "stays_here" THEN bag.status ELSE "open")
  BY <1>1 DEF PackingStatuses
<1>6. ItemAdded(bag, id) = [bag EXCEPT !.items = items, !.status = status]
  BY <1>3, <1>5 DEF ItemAdded
<1>7. PICK new : new = ItemAdded(bag, id)
  OBVIOUS
<1>8. /\ new \in RawBags(P) /\ new.items = items /\ new.status = status
      /\ new.id = bag.id /\ new.photos = bag.photos
  BY <1>1, <1>4, <1>6, <1>7 DEF RawBags
<1>9. new \in BagsOver(P)
  BY <1>5, <1>8 DEF RawBags, BagsOver
<1>10. PhotosOf(new) = PhotosOf(bag)
  BY <1>4, <1>8 DEF PhotosOf
<1> QED
  BY <1>7, <1>8, <1>9, <1>10

\* Items that change one by one.
LEMMA SetBag ==
  ASSUME NEW P, NEW bag \in BagsOver(P), NEW status \in PackingStatuses
  PROVE  BagSet(bag, status) \in BagsOver(P)
<1>1. bag \in RawBags(P) /\ bag.items \in Seq(ItemsOver(P))
  BY BagParts, ItemsInOver
<1>2. PICK set : set = [bag EXCEPT !.status = status]
  OBVIOUS
<1>3. set \in RawBags(P) /\ set.status = status /\ set.items = bag.items
  BY <1>1, <1>2, NewStatus
<1>4. \A i \in DOMAIN bag.items : bag.items[i] \in ItemsOver(P)
  BY <1>1, LenProperties
<1>5. ASSUME NEW from, NEW to \in PackingStatuses, NEW items,
             items = [i \in DOMAIN bag.items |->
                        IF bag.items[i].status = from THEN [bag.items[i] EXCEPT !.status = to] ELSE bag.items[i]],
             status = "packed" => from = "open" /\ to = "packed"
      PROVE  [set EXCEPT !.items = items] \in BagsOver(P)
  <2>1. \A i \in DOMAIN bag.items : items[i] \in ItemsIn(P, status)
    BY <1>4, <1>5 DEF ItemsIn, ItemsOver
  <2>2. items = [i \in DOMAIN bag.items |-> items[i]]
    BY <1>5
  <2>3. items \in Seq(ItemsIn(P, set.status))
    BY <1>1, <1>3, <2>1, <2>2, RowByRow
  <2> QED
    BY <1>3, <2>3, ItemsFit
<1>6. CASE status = "packed"
  <2>1. PICK items : items = [i \in DOMAIN bag.items |->
            IF bag.items[i].status = "open" THEN [bag.items[i] EXCEPT !.status = "packed"] ELSE bag.items[i]]
    OBVIOUS
  <2>2. BagSet(bag, status) = [set EXCEPT !.items = items]
    BY <1>2, <1>3, <1>6, <2>1 DEF BagSet, EachItem, Each
  <2>3. "packed" \in PackingStatuses
    BY DEF PackingStatuses
  <2> QED
    BY <1>5, <1>6, <2>1, <2>2, <2>3
<1>7. CASE status = "open" /\ bag.status = "stays_here"
  <2>1. BagSet(bag, status) = Recomputed(set)
    BY <1>2, <1>7 DEF BagSet
  <2> QED
    BY <1>3, <2>1, RecomputedBag
<1>8. CASE status = "open" /\ bag.status # "stays_here"
  <2>1. PICK items : items = [i \in DOMAIN bag.items |->
            IF bag.items[i].status = "packed" THEN [bag.items[i] EXCEPT !.status = "open"] ELSE bag.items[i]]
    OBVIOUS
  <2>2. BagSet(bag, status) = [set EXCEPT !.items = items]
    BY <1>2, <1>3, <1>8, <2>1 DEF BagSet, EachItem, Each
  <2>3. "open" \in PackingStatuses
    BY DEF PackingStatuses
  <2> QED
    BY <1>5, <1>8, <2>1, <2>2, <2>3
<1>9. CASE status = "stays_here"
  <2>1. BagSet(bag, status) = set
    BY <1>2, <1>9 DEF BagSet
  <2> QED
    BY <1>3, <1>9, <2>1 DEF BagsOver, RawBags
<1> QED
  BY <1>6, <1>7, <1>8, <1>9 DEF PackingStatuses

LEMMA ReopenedBag ==
  ASSUME NEW P, NEW bag \in BagsOver(P)
  PROVE  Reopened(bag) \in BagsOver(P)
<1>1. bag \in RawBags(P) /\ bag.items \in Seq(ItemsOver(P))
  BY BagParts, ItemsInOver
<1>2. PICK set : set = [bag EXCEPT !.status = "open"]
  OBVIOUS
<1>3. set \in RawBags(P) /\ set.status = "open" /\ set.items = bag.items
  BY <1>1, <1>2, NewStatus DEF PackingStatuses
<1>4. \A i \in DOMAIN bag.items : bag.items[i] \in ItemsOver(P)
  BY <1>1, LenProperties
<1>5. PICK items : items = [i \in DOMAIN bag.items |-> [bag.items[i] EXCEPT !.status = "open"]]
  OBVIOUS
<1>6. Reopened(bag) = [set EXCEPT !.items = items]
  BY <1>2, <1>3, <1>5 DEF Reopened, EachItem, Each
<1>7. \A i \in DOMAIN bag.items : items[i] \in ItemsIn(P, "open")
  BY <1>4, <1>5 DEF ItemsIn, ItemsOver, PackingStatuses
<1>8. items = [i \in DOMAIN bag.items |-> items[i]]
  BY <1>5
<1>9. items \in Seq(ItemsIn(P, set.status))
  BY <1>1, <1>3, <1>7, <1>8, RowByRow
<1>10. [set EXCEPT !.items = items] \in BagsOver(P)
  BY <1>3, <1>9, ItemsFit
<1> QED
  BY <1>6, <1>10

LEMMA DeletedPhoto ==
  ASSUME NEW P, NEW bag \in BagsOver(P), NEW photo
  PROVE  PhotoDeleted(bag, photo) \in BagsOver(P)
<1>1. bag \in RawBags(P) /\ bag.items \in Seq(ItemsIn(P, bag.status))
  BY BagParts
<1>2. PICK less : less = [bag EXCEPT !.photos = @ \ {photo}]
  OBVIOUS
<1>3. less \in RawBags(P) /\ less.status = bag.status /\ less.items = bag.items
  BY <1>1, <1>2 DEF RawBags
<1>4. \A i \in DOMAIN bag.items : bag.items[i] \in ItemsIn(P, bag.status)
  BY <1>1, LenProperties
<1>5. PICK items : items = [i \in DOMAIN bag.items |-> [bag.items[i] EXCEPT !.photos = @ \ {photo}]]
  OBVIOUS
<1>6. PhotoDeleted(bag, photo) = [less EXCEPT !.items = items]
  BY <1>2, <1>3, <1>5 DEF PhotoDeleted, EachItem, Each
<1>7. \A i \in DOMAIN bag.items : items[i] \in ItemsIn(P, bag.status)
  BY <1>4, <1>5 DEF ItemsIn, ItemsOver
<1>8. items = [i \in DOMAIN bag.items |-> items[i]]
  BY <1>5
<1>9. items \in Seq(ItemsIn(P, bag.status))
  BY <1>1, <1>7, <1>8, RowByRow
<1> QED
  BY <1>3, <1>6, <1>9, ItemsFit

LEMMA AddedPhoto ==
  ASSUME NEW P, NEW bag \in BagsOver(P), NEW owner, NEW photo
  PROVE  PhotoAdded(bag, owner, photo) \in BagsOver(P \cup {photo})
<1>0. PICK Q : Q = P \cup {photo}
  OBVIOUS
<1>1. bag \in RawBags(Q) /\ bag.items \in Seq(ItemsIn(Q, bag.status))
  BY <1>0, Wider, BagParts
<1>2. PICK more : more = (IF bag.id = owner THEN [bag EXCEPT !.photos = @ \cup {photo}] ELSE bag)
  OBVIOUS
<1>3. more \in RawBags(Q) /\ more.status = bag.status /\ more.items = bag.items
  BY <1>0, <1>1, <1>2 DEF RawBags
<1>4. \A i \in DOMAIN bag.items : bag.items[i] \in ItemsIn(Q, bag.status)
  BY <1>1, LenProperties
<1>5. PICK items : items = [i \in DOMAIN bag.items |->
          IF bag.items[i].id = owner THEN [bag.items[i] EXCEPT !.photos = @ \cup {photo}] ELSE bag.items[i]]
  OBVIOUS
<1>6. PhotoAdded(bag, owner, photo) = [more EXCEPT !.items = items]
  BY <1>2, <1>3, <1>5 DEF PhotoAdded, EachItem, Each
<1>7. \A i \in DOMAIN bag.items : items[i] \in ItemsIn(Q, bag.status)
  BY <1>0, <1>4, <1>5 DEF ItemsIn, ItemsOver
<1>8. items = [i \in DOMAIN bag.items |-> items[i]]
  BY <1>5
<1>9. items \in Seq(ItemsIn(Q, more.status))
  BY <1>1, <1>3, <1>7, <1>8, RowByRow
<1>10. [more EXCEPT !.items = items] \in BagsOver(Q)
  BY <1>3, <1>9, ItemsFit
<1> QED
  BY <1>0, <1>6, <1>10

-----------------------------------------------------------------------------
(* What a change does to the list.                                          *)

Operations ==
  {"create_bag", "rename_bag", "delete_bag", "reorder_bags", "create_item", "rename_item", "delete_item",
   "reorder_items", "set_item_status", "set_bag_status", "delete_photo", "upload_photo", "reset"}
PackingChanges == [kind : Operations, target : Nat, status : PackingStatuses, order : Seq(Nat)]

\* One bag changes, or each of them.
LEMMA EachBag ==
  ASSUME NEW P, NEW Q, NEW bags \in Seq(BagsOver(P)), NEW new,
         new = [i \in DOMAIN bags |-> new[i]],
         \A i \in DOMAIN bags : bags[i] \in BagsOver(P) => new[i] \in BagsOver(Q)
  PROVE  new \in Seq(BagsOver(Q))
<1>1. \A i \in DOMAIN bags : bags[i] \in BagsOver(P)
  BY LenProperties
<1> QED
  BY <1>1, RowByRow

LEMMA BagChanges ==
  ASSUME NEW P, NEW bags \in Seq(BagsOver(P)), NEW e \in Nat, NEW c \in PackingChanges, Target(bags, c),
         c.kind \in {"create_bag", "rename_bag", "delete_bag", "reorder_bags", "create_item", "reorder_items", "set_bag_status"}
  PROVE  /\ Applied(bags, e, c) \in Seq(BagsOver(P))
         /\ c.kind \in {"create_bag", "rename_bag", "create_item"} =>
              PhotoIds(Applied(bags, e, c)) \subseteq PhotoIds(Applied(bags, 0, c))
<1> DEFINE bag == RowOf(bags, c.target)
<1>0. c.target \in Nat /\ c.status \in PackingStatuses /\ c.order \in Seq(Nat)
  BY DEF PackingChanges
<1>1. c.kind \notin {"create_bag", "reorder_bags"} => bag \in BagsOver(P) /\ bag \in RawBags(P) /\ bag.id = c.target
  <2>1. c.kind \notin {"create_bag", "reorder_bags"} => c.target \in Ids(bags)
    BY DEF Target
  <2> QED
    BY <2>1, RowFound, BagParts
<1>2. CASE c.kind = "create_bag"
  <2>1. \A id \in Nat : NewBag(id) \in BagsOver(P) /\ PhotosOf(NewBag(id)) = {}
    BY EmptySeq DEF NewBag, BagsOver, PackingStatuses, PhotosOf
  <2>2. \A id : Applied(bags, id, c) = Append(bags, NewBag(id))
    BY <1>2 DEF Applied
  <2>3. ASSUME NEW id \in Nat
        PROVE  Append(bags, NewBag(id)) \in Seq(BagsOver(P)) /\ PhotoIds(Append(bags, NewBag(id))) = PhotoIds(bags)
    <3>1. PICK new : new = Append(bags, NewBag(id))
      OBVIOUS
    <3>2. /\ new \in Seq(BagsOver(P)) /\ DOMAIN new = DOMAIN bags \cup {Len(bags) + 1}
          /\ \A i \in DOMAIN bags : new[i] = bags[i]
          /\ new[Len(bags) + 1] = NewBag(id)
      BY <2>1, <3>1, AppendProperties, LenProperties
    <3>3. PhotosOf(NewBag(id)) = {}
      BY <2>1
    <3> QED
      BY <3>1, <3>2, <3>3 DEF PhotoIds
  <2> QED
    BY <1>2, <2>2, <2>3
<1>3. CASE c.kind = "rename_bag"
  <2>1. \A id : Applied(bags, id, c) = With(bags, [bag EXCEPT !.name = id])
    BY <1>3 DEF Applied
  <2>2. \A id \in Nat : /\ [bag EXCEPT !.name = id] \in BagsOver(P)
                        /\ [bag EXCEPT !.name = id].id = bag.id
                        /\ PhotosOf([bag EXCEPT !.name = id]) = PhotosOf(bag)
    <3>1. bag \in BagsOver(P)
      BY <1>1, <1>3
    <3> HIDE DEF bag
    <3> QED
      BY <3>1 DEF BagsOver, PhotosOf
  <2> HIDE DEF bag
  <2>3. PICK a : a = [bag EXCEPT !.name = e]
    OBVIOUS
  <2>4. PICK b : b = [bag EXCEPT !.name = 0]
    OBVIOUS
  <2>5. a \in BagsOver(P) /\ a.id = b.id /\ PhotosOf(a) = PhotosOf(b)
    BY <2>2, <2>3, <2>4
  <2>6. PhotoIds(With(bags, a)) = PhotoIds(With(bags, b))
    BY <2>5, SamePhotos
  <2>7. With(bags, a) \in Seq(BagsOver(P))
    BY <2>5, WithRows
  <2> QED
    BY <2>1, <2>3, <2>4, <2>6, <2>7
<1>4. CASE c.kind = "create_item"
  <2>1. \A id : Applied(bags, id, c) = With(bags, ItemAdded(bag, id))
    BY <1>4 DEF Applied
  <2>2. \A id \in Nat : /\ ItemAdded(bag, id) \in BagsOver(P)
                        /\ ItemAdded(bag, id).id = bag.id
                        /\ PhotosOf(ItemAdded(bag, id)) = PhotosOf(bag)
    BY <1>1, <1>4, AddedBag
  <2> HIDE DEF bag
  <2>3. PhotoIds(With(bags, ItemAdded(bag, e))) = PhotoIds(With(bags, ItemAdded(bag, 0)))
    BY <2>2, SamePhotos
  <2> QED
    BY <2>1, <2>2, <2>3, WithRows
<1>5. CASE c.kind = "delete_bag"
  <2>1. Applied(bags, e, c) = Without(bags, c.target) /\ c.target \in Ids(bags)
    BY <1>5 DEF Applied, Target
  <2> QED
    BY <1>5, <2>1, WithoutRows
<1>6. CASE c.kind = "reorder_bags"
  <2>1. Applied(bags, e, c) = Reordered(bags, c.order) /\ Orders(c.order, bags)
    BY <1>6 DEF Applied, Target
  <2> QED
    BY <1>0, <1>6, <2>1, ReorderedRows
<1>7. CASE c.kind = "reorder_items"
  <2>1. PICK items : items = Reordered(bag.items, c.order)
    OBVIOUS
  <2>2. Applied(bags, e, c) = With(bags, [bag EXCEPT !.items = items]) /\ Orders(c.order, bag.items)
    BY <1>7, <2>1 DEF Applied, Target
  <2>3. bag \in RawBags(P) /\ bag.items \in Seq(ItemsIn(P, bag.status))
    BY <1>1, <1>7, BagParts
  <2> HIDE DEF bag
  <2>4. items \in Seq(ItemsIn(P, bag.status))
    BY <1>0, <2>1, <2>2, <2>3, ReorderedRows
  <2>5. [bag EXCEPT !.items = items] \in BagsOver(P)
    BY <2>3, <2>4, ItemsFit
  <2> QED
    BY <1>7, <2>2, <2>5, WithRows
<1>8. CASE c.kind = "set_bag_status"
  <2>1. Applied(bags, e, c) = With(bags, BagSet(bag, c.status))
    BY <1>8 DEF Applied
  <2>2. BagSet(bag, c.status) \in BagsOver(P)
    BY <1>0, <1>1, <1>8, SetBag
  <2> QED
    BY <1>8, <2>1, <2>2, WithRows
<1> QED
  BY <1>2, <1>3, <1>4, <1>5, <1>6, <1>7, <1>8

LEMMA ItemChanges ==
  ASSUME NEW P, NEW bags \in Seq(BagsOver(P)), NEW e \in Nat, NEW c \in PackingChanges, Target(bags, c),
         c.kind \in {"rename_item", "delete_item", "set_item_status"}
  PROVE  /\ Applied(bags, e, c) \in Seq(BagsOver(P))
         /\ c.kind = "rename_item" => PhotoIds(Applied(bags, e, c)) \subseteq PhotoIds(Applied(bags, 0, c))
<1>1. PICK home : home = Home(bags, c.target)
  OBVIOUS
<1>2. PICK item : item = RowOf(home.items, c.target)
  OBVIOUS
<1>3. c.target \in ItemIds(bags)
  BY DEF Target
<1>4. /\ home \in BagsOver(P) /\ home \in RawBags(P) /\ home.items \in Seq(ItemsIn(P, home.status))
      /\ c.target \in Ids(home.items)
  BY <1>1, <1>3, HomeFound, BagParts
<1>5. item \in ItemsIn(P, home.status) /\ item.id = c.target
  BY <1>2, <1>4, RowFound
<1>6. ASSUME NEW i, i \in ItemsIn(P, home.status)
      PROVE  WithItem(home, i) \in BagsOver(P)
  <2>1. With(home.items, i) \in Seq(ItemsIn(P, home.status))
    BY <1>4, <1>6, WithRows
  <2>2. [home EXCEPT !.items = With(home.items, i)] \in BagsOver(P)
    BY <1>4, <2>1, ItemsFit
  <2> QED
    BY <2>2 DEF WithItem
<1>7. CASE c.kind = "rename_item"
  <2>1. \A id : Applied(bags, id, c) = With(bags, WithItem(home, [item EXCEPT !.name = id]))
    BY <1>1, <1>2, <1>7 DEF Applied
  <2>2. \A id \in Nat : /\ [item EXCEPT !.name = id] \in ItemsIn(P, home.status)
                        /\ [item EXCEPT !.name = id].id = item.id
                        /\ [item EXCEPT !.name = id].photos = item.photos
    BY <1>5 DEF ItemsIn, ItemsOver
  <2>3. \A id \in Nat : WithItem(home, [item EXCEPT !.name = id]) \in BagsOver(P)
    BY <1>6, <2>2
  <2>4. PICK a : a = WithItem(home, [item EXCEPT !.name = e])
    OBVIOUS
  <2>5. PICK b : b = WithItem(home, [item EXCEPT !.name = 0])
    OBVIOUS
  <2>6. a.id = b.id /\ PhotosOf(a) = PhotosOf(b)
    <3>1. PICK x : x = [item EXCEPT !.name = e]
      OBVIOUS
    <3>2. PICK y : y = [item EXCEPT !.name = 0]
      OBVIOUS
    <3>3. x.id = y.id /\ x.photos = y.photos
      BY <2>2, <3>1, <3>2
    <3>4. WithItem(home, x).id = WithItem(home, y).id /\ PhotosOf(WithItem(home, x)) = PhotosOf(WithItem(home, y))
      BY <1>4, <3>3, SamePhotosOf
    <3> QED
      BY <2>4, <2>5, <3>1, <3>2, <3>4
  <2>7. PhotoIds(With(bags, a)) = PhotoIds(With(bags, b))
    BY <2>6, SamePhotos
  <2>8. With(bags, a) \in Seq(BagsOver(P))
    BY <2>3, <2>4, WithRows
  <2> QED
    BY <2>1, <2>4, <2>5, <2>7, <2>8
<1>8. CASE c.kind = "delete_item"
  <2>1. PICK items : items = Without(home.items, c.target)
    OBVIOUS
  <2>2. Applied(bags, e, c) = With(bags, Recomputed([home EXCEPT !.items = items]))
    BY <1>1, <1>8, <2>1 DEF Applied
  <2>3. items \in Seq(ItemsIn(P, home.status))
    BY <1>4, <2>1, WithoutRows
  <2>4. [home EXCEPT !.items = items] \in RawBags(P)
    BY <1>4, <2>3, ItemsInOver, NewItems
  <2>5. Recomputed([home EXCEPT !.items = items]) \in BagsOver(P)
    BY <2>4, RecomputedBag
  <2> QED
    BY <1>8, <2>2, <2>5, WithRows
<1>9. CASE c.kind = "set_item_status"
  <2>1. PICK i : i = [item EXCEPT !.status = c.status]
    OBVIOUS
  <2>2. Applied(bags, e, c) = With(bags, Recomputed(WithItem(home, i)))
    BY <1>1, <1>2, <1>9, <2>1 DEF Applied
  <2>3. i \in ItemsOver(P)
    BY <1>5, <2>1 DEF ItemsIn, ItemsOver, PackingChanges
  <2>4. With(home.items, i) \in Seq(ItemsOver(P))
    BY <1>4, <2>3, ItemsInOver, WithRows
  <2>5. WithItem(home, i) \in RawBags(P)
    BY <1>4, <2>4, NewItems DEF WithItem
  <2>6. Recomputed(WithItem(home, i)) \in BagsOver(P)
    BY <2>5, RecomputedBag
  <2> QED
    BY <1>9, <2>2, <2>6, WithRows
<1> QED
  BY <1>7, <1>8, <1>9

\* The photos there may be after a change.
After(P, e, c) == IF c.kind = "upload_photo" THEN P \cup {e} ELSE P

LEMMA PhotoChanges ==
  ASSUME NEW P, NEW bags \in Seq(BagsOver(P)), NEW e, NEW c,
         c.kind \in {"delete_photo", "upload_photo", "reset"}
  PROVE  Applied(bags, e, c) \in Seq(BagsOver(After(P, e, c)))
<1>1. PICK new : new = Applied(bags, e, c)
  OBVIOUS
<1>2. CASE c.kind = "delete_photo"
  <2>1. new = [i \in DOMAIN bags |-> PhotoDeleted(bags[i], c.target)]
    BY <1>1, <1>2 DEF Applied, Each
  <2>2. \A i \in DOMAIN bags : bags[i] \in BagsOver(P) => new[i] \in BagsOver(P)
    BY <2>1, DeletedPhoto
  <2>3. new = [i \in DOMAIN bags |-> new[i]]
    BY <2>1
  <2>4. After(P, e, c) = P
    BY <1>2 DEF After
  <2>5. new \in Seq(BagsOver(P))
    BY <2>2, <2>3, EachBag
  <2> QED
    BY <1>1, <2>4, <2>5
<1>3. CASE c.kind = "upload_photo"
  <2>1. new = [i \in DOMAIN bags |-> PhotoAdded(bags[i], c.target, e)]
    BY <1>1, <1>3 DEF Applied, Each
  <2>2. \A i \in DOMAIN bags : bags[i] \in BagsOver(P) => new[i] \in BagsOver(P \cup {e})
    BY <2>1, AddedPhoto
  <2>3. new = [i \in DOMAIN bags |-> new[i]]
    BY <2>1
  <2>4. After(P, e, c) = P \cup {e}
    BY <1>3 DEF After
  <2>5. new \in Seq(BagsOver(P \cup {e}))
    BY <2>2, <2>3, EachBag
  <2> QED
    BY <1>1, <2>4, <2>5
<1>4. CASE c.kind = "reset"
  <2>1. new = [i \in DOMAIN bags |-> Reopened(bags[i])]
    BY <1>1, <1>4 DEF Applied, Each
  <2>2. \A i \in DOMAIN bags : bags[i] \in BagsOver(P) => new[i] \in BagsOver(P)
    BY <2>1, ReopenedBag
  <2>3. new = [i \in DOMAIN bags |-> new[i]]
    BY <2>1
  <2>4. After(P, e, c) = P
    BY <1>4 DEF After
  <2>5. new \in Seq(BagsOver(P))
    BY <2>2, <2>3, EachBag
  <2> QED
    BY <1>1, <2>4, <2>5
<1> QED
  BY <1>2, <1>3, <1>4

\* A change keeps bags fit for their status; only an upload brings a photo, its own.
LEMMA ListChanges ==
  ASSUME NEW P, NEW bags \in Seq(BagsOver(P)), NEW e \in Nat, NEW c \in PackingChanges, Target(bags, c)
  PROVE  Applied(bags, e, c) \in Seq(BagsOver(After(P, e, c)))
<1>1. c.kind \in Operations
  BY DEF PackingChanges
<1>2. CASE c.kind \in {"create_bag", "rename_bag", "delete_bag", "reorder_bags", "create_item", "reorder_items", "set_bag_status"}
  BY <1>2, BagChanges DEF After
<1>3. CASE c.kind \in {"rename_item", "delete_item", "set_item_status"}
  BY <1>3, ItemChanges DEF After
<1>4. CASE c.kind \in {"delete_photo", "upload_photo", "reset"}
  BY <1>4, PhotoChanges
<1> QED
  BY <1>1, <1>2, <1>3, <1>4 DEF Operations

\* The photos whose files a change removes are on the list, and no more after it.
LEMMA FilesRemoved ==
  ASSUME NEW P, list \in Seq(BagsOver(P)), NEW e \in Nat, NEW c \in PackingChanges, Target(list, c)
  PROVE  FilesOf(c) \subseteq PhotoIds(list) /\ FilesOf(c) \cap PhotoIds(Applied(list, e, c)) = {}
<1>1. FilesOf(c) \subseteq PhotoIds(list)
  BY DEF FilesOf
<1>2. CASE c.kind = "upload_photo"
  BY <1>2 DEF FilesOf
<1>3. ASSUME c.kind # "upload_photo"
      PROVE  PhotoIds(Applied(list, e, c)) \subseteq PhotoIds(Applied(list, 0, c))
  <2>1. CASE c.kind \in {"create_bag", "rename_bag", "create_item"}
    BY <2>1, BagChanges
  <2>2. CASE c.kind = "rename_item"
    BY <2>2, ItemChanges
  <2>3. CASE c.kind \in {"delete_bag", "reorder_bags", "reorder_items", "set_bag_status", "delete_item",
                         "set_item_status", "delete_photo", "reset"}
    <3>1. Applied(list, e, c) = Applied(list, 0, c)
      BY <2>3 DEF Applied
    <3> QED
      BY <3>1
  <2> QED
    BY <1>3, <2>1, <2>2, <2>3 DEF PackingChanges, Operations
<1>4. CASE c.kind # "upload_photo"
  BY <1>3, <1>4 DEF FilesOf
<1> QED
  BY <1>1, <1>2, <1>4

\* What somebody may ask for who looks at such a list.
LEMMA Reversal ==
  ASSUME NEW S, NEW rows \in Seq(S), \A row \in S : row.id \in Nat
  PROVE  [i \in DOMAIN rows |-> rows[Len(rows) + 1 - i].id] \in Seq(Nat)
<1>1. DOMAIN rows = 1..Len(rows) /\ Len(rows) \in Nat /\ \A i \in 1..Len(rows) : rows[i] \in S
  BY LenProperties
<1>2. \A i \in 1..Len(rows) : Len(rows) + 1 - i \in 1..Len(rows)
  BY <1>1
<1>3. [i \in 1..Len(rows) |-> rows[Len(rows) + 1 - i].id] \in [1..Len(rows) -> Nat]
  BY <1>1, <1>2
<1> QED
  BY <1>1, <1>3

LEMMA OfferedAreChanges ==
  ASSUME NEW P \in SUBSET Nat, NEW bags \in Seq(BagsOver(P)), NEW c \in Offered(bags)
  PROVE  c \in PackingChanges
<1> DEFINE reversed(rows) == [i \in DOMAIN rows |-> rows[Len(rows) + 1 - i].id]
<1>1. PICK named : named = Ids(bags) \cup ItemIds(bags) \cup PhotoIds(bags)
  OBVIOUS
<1>2. named \subseteq Nat
  <2>1. ASSUME NEW i \in DOMAIN bags
        PROVE  bags[i].id \in Nat /\ Ids(bags[i].items) \subseteq Nat
    <3>1. PICK bag \in BagsOver(P) : bag = bags[i]
      BY LenProperties
    <3>2. bag.id \in Nat /\ bag.items \in Seq(ItemsOver(P))
      BY DEF BagsOver
    <3>3. \A j \in DOMAIN bag.items : bag.items[j] \in ItemsOver(P)
      BY <3>2, LenProperties
    <3>4. \A item \in ItemsOver(P) : item.id \in Nat
      BY DEF ItemsOver
    <3> QED
      BY <3>1, <3>2, <3>3, <3>4 DEF Ids
  <2>2. PhotoIds(bags) \subseteq Nat
    BY PhotosWithin
  <2> QED
    BY <1>1, <2>1, <2>2 DEF Ids, ItemIds
<1>3. reversed(bags) \in Seq(Nat)
  <2>1. \A bag \in BagsOver(P) : bag.id \in Nat
    BY DEF BagsOver
  <2> QED
    BY <2>1, Reversal
<1>4. ASSUME NEW b \in Ids(bags) PROVE reversed(RowOf(bags, b).items) \in Seq(Nat)
  <2>1. RowOf(bags, b).items \in Seq(ItemsOver(P))
    <3>1. RowOf(bags, b) \in BagsOver(P)
      BY RowFound
    <3> QED
      BY <3>1 DEF BagsOver
  <2>2. \A item \in ItemsOver(P) : item.id \in Nat
    BY DEF ItemsOver
  <2> QED
    BY <2>1, <2>2, Reversal
<1>5. \/ \E k \in Operations, t \in named \cup {0}, s \in PackingStatuses : c = Change(k, t, s, <<>>)
      \/ c = Change("reorder_bags", 0, "open", reversed(bags))
      \/ \E b \in Ids(bags) : c = Change("reorder_items", b, "open", reversed(RowOf(bags, b).items))
  BY <1>1, MarksAssumption DEF Offered, Operations, PackingStatuses
<1>6. <<>> \in Seq(Nat) /\ 0 \in Nat /\ "open" \in PackingStatuses
      /\ "reorder_bags" \in Operations /\ "reorder_items" \in Operations
  BY EmptySeq DEF PackingStatuses, Operations
<1> HIDE DEF reversed
<1>7. \A k \in Operations, t \in Nat, s \in PackingStatuses, o \in Seq(Nat) : Change(k, t, s, o) \in PackingChanges
  BY DEF Change, PackingChanges
<1>8. CASE \E k \in Operations, t \in named \cup {0}, s \in PackingStatuses : c = Change(k, t, s, <<>>)
  BY <1>2, <1>6, <1>7, <1>8
<1>9. CASE c = Change("reorder_bags", 0, "open", reversed(bags))
  BY <1>3, <1>6, <1>7, <1>9
<1>10. CASE \E b \in Ids(bags) : c = Change("reorder_items", b, "open", reversed(RowOf(bags, b).items))
  <2>1. PICK b \in Ids(bags) : c = Change("reorder_items", b, "open", reversed(RowOf(bags, b).items))
    BY <1>10
  <2>2. b \in Nat
    BY <1>1, <1>2
  <2> QED
    BY <1>4, <1>6, <1>7, <2>1, <2>2
<1> QED
  BY <1>5, <1>8, <1>9, <1>10

-----------------------------------------------------------------------------
(* Photos and files.  Inductive: a photo on the list is of the first list   *)
(* or of an event in the log, and so is what a request is about to remove,  *)
(* which is on the list no more; an event is carried out once, so no        *)
(* removed photo comes back.                                                *)

Issued == {p \in Nat : p \in Changes => Recorded(p) # {}}

Filed ==
  /\ list \in Seq(BagsOver(files \cap Issued))
  /\ asked \in [Changes -> PackingChanges \cup {NoChange}]
  /\ \A r \in PackingRequests :
       /\ calls[r].status \in Open => calls[r].event \in Changes /\ calls[r].change \in PackingChanges
       /\ calls[r].status = "stored" => calls[r].stored = TRUE
       /\ calls[r].status = "looked" /\ calls[r].change.kind = "upload_photo" => calls[r].stored = TRUE
       /\ calls[r].status = "cleaning" => calls[r].doomed \subseteq Issued \ PhotoIds(list)

LEMMA InitFiled == PackingInit => Filed
<1> SUFFICES ASSUME PackingInit PROVE Filed
  OBVIOUS
<1>1. list = FirstList /\ files = PhotoIds(FirstList)
  BY DEF PackingInit
<1>2. PhotoIds(FirstList) \subseteq Nat \ Changes
  BY FirstListAssumption, PhotosWithin
<1>3. list \in Seq(BagsOver(files \cap Issued))
  <2>1. PhotoIds(FirstList) \subseteq files \cap Issued
    BY <1>1, <1>2 DEF Issued
  <2> QED
    BY <1>1, <2>1, FirstListAssumption, OverItsPhotos
<1>4. asked \in [Changes -> PackingChanges \cup {NoChange}]
  BY DEF PackingInit
<1>5. \A r \in PackingRequests : calls[r].status = "idle"
  BY IdleIsRequest DEF PackingInit
<1> QED
  BY <1>3, <1>4, <1>5 DEF Filed, Open

\* What a request is about stays with it while it is served; what is stored or
\* cleaned up is its own.
Served(r) ==
  /\ UNCHANGED <<listVars, asked>>
  /\ \A x \in PackingRequests \ {r} : calls'[x] = calls[x]
  /\ calls'[r].event = calls[r].event /\ calls'[r].change = calls[r].change
  /\ \/ calls'[r].status \notin Open \cup {"cleaning"}
     \/ calls[r].status \in Open /\ calls'[r].status = "stored" /\ calls'[r].stored = TRUE
     \/ /\ calls[r].status \in Open /\ calls'[r].status = "looked" /\ calls'[r].stored = calls[r].stored
        /\ calls[r].change.kind = "upload_photo" => calls[r].status = "stored"
  /\ files' \in {files, files \ (IF calls[r].status = "cleaning" THEN calls[r].doomed ELSE {})}

LEMMA ServeFiled ==
  ASSUME AreRequests, NEW r \in PackingRequests, PackingServe(r), ~ CommitChange(r)
  PROVE  Served(r)
<1>1. PICK q : q = calls[r]
  OBVIOUS
<1>2. PICK S : q \in RequestOf(S)
  BY <1>1 DEF AreRequests, IsRequest
<1>3. calls = [x \in PackingRequests |-> calls[x]]
  BY DEF AreRequests
<1>4. ASSUME NEW answer \in Refusals \cup {"replayed"}, NEW n, Reply(r, answer, n), UNCHANGED <<asked, listVars, storeVars>>
      PROVE  Served(r)
  <2>1. calls'[r] = [q EXCEPT !.status = answer, !.stored = FALSE, !.answer = n]
        /\ \A x \in PackingRequests \ {r} : calls'[x] = calls[x]
    BY <1>1, <1>3, <1>4 DEF Reply
  <2>2. calls'[r].status = answer /\ calls'[r].event = q.event /\ calls'[r].change = q.change
    BY <1>2, <2>1 DEF RequestOf
  <2>3. answer \notin Open \cup {"cleaning"}
    BY DEF Refusals, Open
  <2>4. UNCHANGED <<listVars, asked, files>>
    BY <1>4 DEF storeVars
  <2> QED
    BY <1>1, <2>1, <2>2, <2>3, <2>4 DEF Served
<1>5. CASE Forbid(r)
  <2>1. Reply(r, "forbidden", 0) /\ UNCHANGED <<asked, listVars, storeVars>>
    BY <1>5 DEF Forbid
  <2> QED
    BY <1>4, <2>1 DEF Refusals
<1>6. CASE ReplayChange(r)
  <2>1. UNCHANGED <<asked, listVars, storeVars>>
        /\ \E n : Reply(r, "replayed", n) \/ Reply(r, "sync_conflict", n)
    BY <1>6 DEF ReplayChange
  <2> QED
    BY <1>4, <2>1 DEF Refusals
<1>7. CASE Store(r)
  <2>1. UNCHANGED <<asked, listVars, storeVars>> /\ calls[r].status = "received"
    BY <1>7 DEF Store
  <2>2. CASE Reply(r, "unsupported", 0) \/ Reply(r, "quota", 0) \/ Reply(r, "target_deleted", 0)
    BY <1>4, <2>1, <2>2 DEF Refusals
  <2>3. CASE calls' = [calls EXCEPT ![r].status = "stored", ![r].stored = TRUE]
    <3>1. calls'[r] = [q EXCEPT !.status = "stored", !.stored = TRUE]
          /\ \A x \in PackingRequests \ {r} : calls'[x] = calls[x]
      BY <1>1, <1>3, <2>3
    <3>2. /\ calls'[r].status = "stored" /\ calls'[r].stored = TRUE
          /\ calls'[r].event = q.event /\ calls'[r].change = q.change
      BY <1>2, <3>1 DEF RequestOf
    <3>3. UNCHANGED <<listVars, asked, files>> /\ calls[r].status \in Open
      BY <2>1 DEF storeVars, Open
    <3> QED
      BY <1>1, <3>1, <3>2, <3>3 DEF Served
  <2> QED
    BY <1>7, <2>2, <2>3 DEF Store
<1>8. CASE Look(r)
  <2>1. UNCHANGED <<listVars, asked, files>>
    BY <1>8 DEF Look, storeVars
  <2>2. /\ calls[r].status \in Open
        /\ calls[r].change.kind = "upload_photo" => calls[r].status = "stored"
    BY <1>8 DEF Look, Open
  <2>3. calls'[r] = [q EXCEPT !.status = "looked", !.view = Revision]
        /\ \A x \in PackingRequests \ {r} : calls'[x] = calls[x]
    BY <1>1, <1>3, <1>8 DEF Look
  <2>4. /\ calls'[r].status = "looked" /\ calls'[r].stored = q.stored
        /\ calls'[r].event = q.event /\ calls'[r].change = q.change
    BY <1>2, <2>3 DEF RequestOf
  <2> QED
    BY <1>1, <2>1, <2>2, <2>3, <2>4 DEF Served
<1>9. CASE RefuseChange(r)
  <2>1. UNCHANGED <<asked, listVars, storeVars>>
        /\ \E answer \in Refusals : Reply(r, answer, 0)
    BY <1>9 DEF RefuseChange, Refusals
  <2> QED
    BY <1>4, <2>1
<1>10. CASE Clean(r)
  <2>1. UNCHANGED <<listVars, asked>> /\ calls[r].status = "cleaning" /\ files' = files \ calls[r].doomed
    BY <1>10 DEF Clean
  <2>2. calls'[r] = [q EXCEPT !.status = "applied", !.doomed = {}]
        /\ \A x \in PackingRequests \ {r} : calls'[x] = calls[x]
    BY <1>1, <1>3, <1>10 DEF Clean
  <2>3. calls'[r].status = "applied" /\ calls'[r].event = q.event /\ calls'[r].change = q.change
    BY <1>2, <2>2 DEF RequestOf
  <2>4. "applied" \notin Open \cup {"cleaning"}
    BY DEF Open
  <2> QED
    BY <1>1, <2>1, <2>2, <2>3, <2>4 DEF Served
<1>11. CASE FailChange(r)
  <2>1. Reply(r, "error", 0) /\ UNCHANGED <<asked, listVars, storeVars>>
    BY <1>11 DEF FailChange
  <2> QED
    BY <1>4, <2>1 DEF Refusals
<1> QED
  BY <1>5, <1>6, <1>7, <1>8, <1>9, <1>10, <1>11 DEF PackingServe

\* The list and the log stay, and so do the files of the list.
LEMMA UncommittedFiled ==
  ASSUME Filed, UNCHANGED listVars, asked' \in [Changes -> PackingChanges \cup {NoChange}],
         PhotoIds(list) \subseteq files',
         \A x \in PackingRequests :
           \/ calls'[x] = calls[x]
           \/ calls'[x].status \notin Open \cup {"cleaning"}
           \/ /\ calls'[x].status \in Open /\ calls'[x].event \in Changes /\ calls'[x].change \in PackingChanges
              /\ calls'[x].status = "stored" => calls'[x].stored = TRUE
              /\ calls'[x].status = "looked" /\ calls'[x].change.kind = "upload_photo" => calls'[x].stored = TRUE
  PROVE  Filed'
<1>1. list' = list /\ log' = log
  BY DEF listVars
<1>2. Issued' = Issued
  BY <1>1, LogStays DEF Issued
<1>3. list' \in Seq(BagsOver(files' \cap Issued))
  <2>1. list \in Seq(BagsOver(files \cap Issued))
    BY DEF Filed
  <2>2. PhotoIds(list) \subseteq files' \cap Issued
    BY <2>1, PhotosWithin
  <2>3. list \in Seq(BagsOver(files' \cap Issued))
    BY <2>1, <2>2, OverItsPhotos
  <2> QED
    BY <1>1, <2>3
<1>4. PhotoIds(list') = PhotoIds(list)
  BY <1>1
<1>5. ASSUME NEW r \in PackingRequests
      PROVE  /\ calls'[r].status \in Open => calls'[r].event \in Changes /\ calls'[r].change \in PackingChanges
             /\ calls'[r].status = "stored" => calls'[r].stored = TRUE
             /\ calls'[r].status = "looked" /\ calls'[r].change.kind = "upload_photo" => calls'[r].stored = TRUE
             /\ calls'[r].status = "cleaning" => calls'[r].doomed \subseteq Issued \ PhotoIds(list)
  <2>1. CASE calls'[r] = calls[r]
    BY <2>1 DEF Filed
  <2>2. CASE calls'[r].status \notin Open \cup {"cleaning"}
    BY <2>2 DEF Open
  <2>3. CASE /\ calls'[r].status \in Open /\ calls'[r].event \in Changes /\ calls'[r].change \in PackingChanges
             /\ calls'[r].status = "stored" => calls'[r].stored = TRUE
             /\ calls'[r].status = "looked" /\ calls'[r].change.kind = "upload_photo" => calls'[r].stored = TRUE
    BY <2>3 DEF Open
  <2> QED
    BY <2>1, <2>2, <2>3
<1> QED
  BY <1>2, <1>3, <1>4, <1>5 DEF Filed

\* The commit: what it uploads gets its file and its event, what it removes is gone
\* from the list, and what others are about to remove does not come back.
LEMMA CommitFiled ==
  ASSUME Filed, Entering, NEW r \in PackingRequests, CommitChange(r)
  PROVE  Filed'
<1>1. PICK e, c : e = calls[r].event /\ c = calls[r].change
  OBVIOUS
<1>2. e \in Changes /\ e \in Nat /\ c \in PackingChanges
      /\ (c.kind = "upload_photo" => calls[r].stored = TRUE)
  BY <1>1, PackingAssumption DEF CommitChange, Filed, Open
<1>3. Target(list, c) /\ list' = Applied(list, e, c) /\ asked' = asked
      /\ files' = IF calls[r].stored THEN files \cup {e} ELSE files
  BY <1>1 DEF CommitChange
<1>4. Recorded(e) = {} /\ Recorded(e)' # {} /\ \A f : f # e => Recorded(f)' = Recorded(f)
  <2>1. Recorded(e) = {} /\ \E entry : log' = Append(log, entry) /\ entry.event = e
    BY <1>1, CommitEnters
  <2>2. Recorded(e)' = Recorded(e) \cup {Revision + 1} /\ \A f : f # e => Recorded(f)' = Recorded(f)
    BY <2>1, RecordedGrows DEF Entering
  <2> QED
    BY <2>1, <2>2
<1>5. e \notin Issued /\ Issued' = Issued \cup {e}
  BY <1>2, <1>4 DEF Issued
<1>6. list \in Seq(BagsOver(files \cap Issued))
  BY DEF Filed
<1>7. list' \in Seq(BagsOver(files' \cap Issued'))
  <2>1. list' \in Seq(BagsOver(After(files \cap Issued, e, c)))
    BY <1>2, <1>3, <1>6, ListChanges
  <2>2. After(files \cap Issued, e, c) \subseteq files' \cap Issued'
    BY <1>2, <1>3, <1>5 DEF After
  <2> QED
    BY <2>1, <2>2, WiderLists
<1>8. PhotoIds(list') \subseteq PhotoIds(list) \cup {e}
  <2>1. list \in Seq(BagsOver(PhotoIds(list)))
    BY <1>6, OverItsPhotos
  <2>2. list' \in Seq(BagsOver(After(PhotoIds(list), e, c)))
    BY <1>2, <1>3, <2>1, ListChanges
  <2>3. PhotoIds(list') \subseteq After(PhotoIds(list), e, c)
    BY <2>2, PhotosWithin
  <2> QED
    BY <2>3 DEF After
<1>9. FilesOf(c) \subseteq Issued \ PhotoIds(list')
  <2>1. FilesOf(c) \subseteq PhotoIds(list) /\ FilesOf(c) \cap PhotoIds(list') = {}
    BY <1>2, <1>3, <1>6, FilesRemoved
  <2>2. PhotoIds(list) \subseteq Issued
    BY <1>6, PhotosWithin
  <2> QED
    BY <2>1, <2>2
<1>10. PICK q : q = calls[r]
  OBVIOUS
<1>11. PICK S : q \in RequestOf(S)
  BY <1>10 DEF Entering, AreRequests, IsRequest
<1>12. /\ calls'[r].status = "cleaning" /\ calls'[r].doomed = FilesOf(c)
       /\ \A x \in PackingRequests \ {r} : calls'[x] = calls[x]
  <2>1. calls'[r] = [q EXCEPT !.status = "cleaning", !.stored = FALSE, !.doomed = FilesOf(c), !.answer = Len(log')]
        /\ \A x \in PackingRequests \ {r} : calls'[x] = calls[x]
    BY <1>1, <1>10 DEF CommitChange, Entering, AreRequests
  <2> QED
    BY <1>11, <2>1 DEF RequestOf
<1>13. ASSUME NEW x \in PackingRequests
       PROVE  /\ calls'[x].status \in Open => calls'[x].event \in Changes /\ calls'[x].change \in PackingChanges
              /\ calls'[x].status = "stored" => calls'[x].stored = TRUE
              /\ calls'[x].status = "looked" /\ calls'[x].change.kind = "upload_photo" => calls'[x].stored = TRUE
              /\ calls'[x].status = "cleaning" => calls'[x].doomed \subseteq Issued' \ PhotoIds(list')
  <2>1. CASE x = r
    BY <1>5, <1>9, <1>12, <2>1 DEF Open
  <2>2. CASE x # r
    <3>1. calls'[x] = calls[x]
      BY <1>12, <2>2
    <3>2. calls[x].status = "cleaning" => calls[x].doomed \subseteq Issued \ PhotoIds(list)
      BY DEF Filed
    <3>3. calls[x].status = "cleaning" => calls[x].doomed \subseteq Issued' \ PhotoIds(list')
      BY <1>5, <1>8, <3>2
    <3> QED
      BY <3>1, <3>3 DEF Filed
  <2> QED
    BY <2>1, <2>2
<1> QED
  BY <1>3, <1>7, <1>13 DEF Filed

LEMMA SubmitFiled ==
  ASSUME Filed, Entering, NEW r \in PackingRequests, NEW e \in Changes, Submit(r, e)
  PROVE  Filed'
<1>1. PICK c, base : /\ c \in IF asked[e] = NoChange THEN Offered(list) ELSE {asked[e]}
                     /\ asked' = [asked EXCEPT ![e] = c]
                     /\ ReceiveChange(r, e, c, base)
  BY DEF Submit
<1>2. c \in PackingChanges
  <2>1. CASE asked[e] = NoChange
    <3>1. files \cap Issued \in SUBSET Nat /\ list \in Seq(BagsOver(files \cap Issued))
      BY DEF Filed, Issued
    <3> QED
      BY <1>1, <2>1, <3>1, OfferedAreChanges
  <2>2. CASE asked[e] # NoChange
    BY <1>1, <2>2 DEF Filed
  <2> QED
    BY <2>1, <2>2
<1>3. PICK q : q = [IdleRequest EXCEPT !.status = "received", !.event = e, !.change = c, !.base = base]
  OBVIOUS
<1>4. calls'[r] = q /\ \A x \in PackingRequests \ {r} : calls'[x] = calls[x]
  BY <1>1, <1>3 DEF ReceiveChange, Entering, AreRequests
<1>5. q.status = "received" /\ q.event = e /\ q.change = c
  BY <1>3 DEF IdleRequest
<1>6. UNCHANGED listVars /\ UNCHANGED files
  BY DEF Submit, storeVars
<1>7. asked' \in [Changes -> PackingChanges \cup {NoChange}]
  BY <1>1, <1>2 DEF Filed
<1>8. PhotoIds(list) \subseteq files'
  BY <1>6, PhotosWithin DEF Filed
<1>9. \A x \in PackingRequests : calls'[x] = calls[x] \/
        /\ calls'[x].status \in Open /\ calls'[x].event \in Changes /\ calls'[x].change \in PackingChanges
        /\ calls'[x].status = "received"
  BY <1>2, <1>4, <1>5 DEF Open
<1> QED
  BY <1>6, <1>7, <1>8, <1>9, UncommittedFiled

LEMMA ServedFiled ==
  ASSUME Filed, NEW r \in PackingRequests, Served(r)
  PROVE  Filed'
<1>1. UNCHANGED listVars /\ asked' \in [Changes -> PackingChanges \cup {NoChange}]
  BY DEF Served, Filed
<1>2. PhotoIds(list) \subseteq files'
  <2>1. PhotoIds(list) \subseteq files
    BY PhotosWithin DEF Filed
  <2>2. calls[r].status = "cleaning" => calls[r].doomed \cap PhotoIds(list) = {}
    BY DEF Filed
  <2> QED
    BY <2>1, <2>2 DEF Served
<1>3. ASSUME NEW x \in PackingRequests
      PROVE  \/ calls'[x] = calls[x]
             \/ calls'[x].status \notin Open \cup {"cleaning"}
             \/ /\ calls'[x].status \in Open /\ calls'[x].event \in Changes /\ calls'[x].change \in PackingChanges
                /\ calls'[x].status = "stored" => calls'[x].stored = TRUE
                /\ calls'[x].status = "looked" /\ calls'[x].change.kind = "upload_photo" => calls'[x].stored = TRUE
  <2>1. CASE x # r
    BY <2>1 DEF Served
  <2>2. CASE x = r /\ calls'[r].status \notin Open \cup {"cleaning"}
    BY <2>2
  <2>3. CASE x = r /\ calls[r].status \in Open /\ calls'[r].status = "stored" /\ calls'[r].stored = TRUE
    BY <2>3 DEF Served, Filed, Open
  <2>4. CASE /\ x = r /\ calls[r].status \in Open /\ calls'[r].status = "looked" /\ calls'[r].stored = calls[r].stored
             /\ calls[r].change.kind = "upload_photo" => calls[r].status = "stored"
    BY <2>4 DEF Served, Filed, Open
  <2> QED
    BY <2>1, <2>2, <2>3, <2>4 DEF Served
<1> QED
  BY <1>1, <1>2, <1>3, UncommittedFiled

LEMMA StepFiled == Filed /\ Entering /\ [PackingNext]_packingVars => Filed'
<1> SUFFICES ASSUME Filed, Entering, [PackingNext]_packingVars PROVE Filed'
  OBVIOUS
<1>0. AreRequests /\ asked \in [Changes -> PackingChanges \cup {NoChange}] /\ PhotoIds(list) \subseteq files
  BY PhotosWithin DEF Entering, Filed
<1>1. CASE Restart
  <2>1. UNCHANGED listVars /\ asked' = asked /\ files' = files
    BY <1>1 DEF Restart
  <2>2. \A r \in PackingRequests : calls'[r] = calls[r] \/ calls'[r].status \notin Open \cup {"cleaning"}
    BY <1>0, <1>1, RestartChanges DEF Open
  <2> QED
    BY <1>0, <2>1, <2>2, UncommittedFiled
<1>2. ASSUME NEW r \in PackingRequests, PackingServe(r) PROVE Filed'
  <2>1. CASE CommitChange(r)
    BY <2>1, CommitFiled
  <2>2. CASE ~ CommitChange(r)
    BY <1>0, <1>2, <2>2, ServeFiled, ServedFiled
  <2> QED
    BY <2>1, <2>2
<1>3. ASSUME NEW r \in PackingRequests, FinishChange(r), UNCHANGED <<asked, listVars, storeVars>> PROVE Filed'
  <2>1. UNCHANGED listVars /\ asked' = asked /\ files' = files
    BY <1>3 DEF storeVars
  <2>2. \A x \in PackingRequests : calls'[x] = calls[x] \/ calls'[x].status \notin Open \cup {"cleaning"}
    BY <1>0, <1>3, FinishChanges, ChangedStays, IdleIsRequest DEF Open
  <2> QED
    BY <1>0, <2>1, <2>2, UncommittedFiled
<1>4. CASE UNCHANGED packingVars
  <2>1. UNCHANGED listVars /\ asked' = asked /\ files' = files /\ calls' = calls
    BY <1>4 DEF packingVars, storeVars
  <2> QED
    BY <1>0, <2>1, UncommittedFiled
<1> QED
  BY <1>1, <1>2, <1>3, <1>4, SubmitFiled DEF PackingNext

\* Every photo on the list has its file, through deletions, refused and repeated
\* uploads, and wherever the server stops (UploadPhoto, applyPackingOperation).
THEOREM FilesStay == PackingSpec => []PhotosHaveFiles
<1>1. PackingInit => Filed /\ Entering
  BY InitFiled, InitEntering
<1>2. Filed /\ Entering /\ [PackingNext]_packingVars => (Filed /\ Entering)'
  BY StepFiled, StepEntering
<1>3. Filed => PhotosHaveFiles
  BY PhotosWithin DEF Filed, PhotosHaveFiles
<1> QED
  BY <1>1, <1>2, <1>3, PTL DEF PackingSpec

\* A bag that is shown as packed holds nothing that is still open, whatever way it
\* got there (applyOperation, recomputeBag).
THEOREM PackedStaysTrue == PackingSpec => []PackedMeansPacked
<1>1. PackingInit => Filed /\ Entering
  BY InitFiled, InitEntering
<1>2. Filed /\ Entering /\ [PackingNext]_packingVars => (Filed /\ Entering)'
  BY StepFiled, StepEntering
<1>3. Filed => PackedMeansPacked
  BY LenProperties DEF Filed, BagsOver, PackedMeansPacked
<1> QED
  BY <1>1, <1>2, <1>3, PTL DEF PackingSpec

-----------------------------------------------------------------------------
(* Devices.  Inductive: an event somebody asked for is numbered before any  *)
(* that will be, only its maker queues and sends it, a device waits for a   *)
(* request of its own, and what the server says it applied or replayed is   *)
(* in the log.  The order holds because a run sends its oldest entry only   *)
(* when nothing older waits: whatever is older and was not refused is in    *)
(* the log, still to be sent by the same run, or what it just sent - and    *)
(* an error ends the run before anything younger goes out.                  *)

RunOf(S) == [pc : S, todo : S, event : S, slot : S, override : S, server : S]
IsRun(s) == \E S : s \in RunOf(S)

Asked == {e \in Changes : asked[e] # NoChange}

Shape ==
  /\ IsSeq(log) /\ AreRequests
  /\ asked = [e \in Changes |-> asked[e]]
  /\ maker \in [Devices -> SUBSET Changes]
  /\ queue \in [Devices -> SUBSET Changes]
  /\ run = [d \in Devices |-> run[d]]
  /\ \A d \in Devices : IsRun(run[d])

Numbered == \A e \in Changes : \A f \in Asked : e < f => e \in Asked

Known ==
  /\ \A d \in Devices : maker[d] \subseteq Asked
  /\ \A e : Recorded(e) # {} => e \in Asked
  /\ \A r \in PackingRequests : calls[r].status # "idle" => calls[r].event \in Asked

OneMaker == \A d, g \in Devices : d # g => maker[d] \cap maker[g] = {}

Sends(d, r) == run[d].pc = "sent" /\ run[d].slot = r

OwnEntries ==
  \A d \in Devices :
    /\ run[d].todo \subseteq maker[d]
    /\ run[d].pc = "sent" => run[d].event \in maker[d] /\ run[d].slot \in PackingRequests

OwnQueue == \A d \in Devices : queue[d] \subseteq maker[d]

OwnRequests ==
  \A d \in Devices : \A r \in PackingRequests : Sends(d, r) =>
    /\ calls[r].status # "idle" /\ calls[r].event = run[d].event
    /\ \A g \in Devices : Sends(g, r) => g = d

Done == {"cleaning", "applied", "replayed"}

Truthful ==
  \A r \in PackingRequests : calls[r].status \in Done =>
    \A e \in Changes : calls[r].event = e => Recorded(e) # {}

OlderRecorded ==
  \A r \in PackingRequests : calls[r].status \in Open =>
    \A d \in Devices : \A e, f \in maker[d] :
      e < f /\ f = calls[r].event /\ e \notin Refused => Recorded(e) # {}

OlderFirst ==
  \A d \in Devices : \A f \in run[d].todo : \A e \in maker[d] :
    e < f /\ e \notin Refused =>
      \/ Recorded(e) # {}
      \/ e \in run[d].todo
      \/ run[d].pc = "sent" /\ run[d].event = e

Queueing ==
  /\ Shape /\ Numbered /\ Known /\ OneMaker /\ OwnEntries /\ OwnQueue /\ OwnRequests /\ Truthful
  /\ OlderRecorded /\ OlderFirst /\ NoChangeLost /\ MadeInOrder

LEMMA RoomyRun ==
  ASSUME NEW a, IsRun(a), NEW X
  PROVE  \E S : a \in RunOf(S) /\ X \subseteq S
<1>1. PICK S : a \in RunOf(S)
  BY DEF IsRun
<1>2. PICK T : T = S \cup X
  OBVIOUS
<1>3. a \in RunOf(T) /\ X \subseteq T
  BY <1>1, <1>2 DEF RunOf
<1> QED
  BY <1>3

LEMMA NoRunIsRun == IsRun(NoRun) /\ NoRun.pc = "idle" /\ NoRun.todo = {}
<1>1. PICK T : T = {"idle", {}, 0, NoCall, NoRun.server}
  OBVIOUS
<1>2. NoRun \in RunOf(T)
  BY <1>1 DEF NoRun, RunOf
<1> QED
  BY <1>2 DEF IsRun, NoRun

Moved(d, s) == IsRun(s) /\ run' = [run EXCEPT ![d] = s]

LEMMA MovedStays ==
  ASSUME Shape, NEW d \in Devices, NEW s, Moved(d, s)
  PROVE  /\ run' = [g \in Devices |-> run'[g]]
         /\ \A g \in Devices : IsRun(run'[g])
         /\ run'[d] = s
         /\ \A g \in Devices \ {d} : run'[g] = run[g]
BY DEF Shape, Moved

LEMMA DevicesStart == DevicesInit => Queueing
<1> SUFFICES ASSUME DevicesInit PROVE Queueing
  OBVIOUS
<1>1. /\ IsSeq(log) /\ \A e : Recorded(e) = {}
  BY EmptySeq DEF DevicesInit, PackingInit, IsSeq, Recorded
<1>2. AreRequests /\ \A r \in PackingRequests : calls[r].status = "idle"
  BY InitRequests, IdleIsRequest DEF DevicesInit, PackingInit
<1>3. \A d \in Devices : run[d].pc = "idle" /\ run[d].todo = {} /\ IsRun(run[d]) /\ maker[d] = {}
  BY NoRunIsRun DEF DevicesInit
<1>4. Asked = {}
  BY DEF DevicesInit, PackingInit, Asked
<1>5. Shape
  BY <1>1, <1>2, <1>3 DEF Shape, DevicesInit, PackingInit
<1>6. Numbered /\ Known /\ OneMaker
  BY <1>1, <1>2, <1>3, <1>4 DEF Numbered, Known, OneMaker
<1>7. OwnEntries /\ OwnQueue /\ OwnRequests /\ Truthful
  BY <1>2, <1>3 DEF DevicesInit, OwnEntries, OwnQueue, OwnRequests, Sends, Truthful, Done
<1>8. OlderRecorded /\ OlderFirst /\ NoChangeLost /\ MadeInOrder
  BY <1>3 DEF OlderRecorded, OlderFirst, NoChangeLost, MadeInOrder
<1> QED
  BY <1>5, <1>6, <1>7, <1>8 DEF Queueing

\* What is offered is a change.
LEMMA OfferedIsChange ==
  ASSUME NEW bags, NEW c \in Offered(bags)
  PROVE  c # NoChange
<1>1. c.kind # "none"
  BY DEF Offered, Change
<1> QED
  BY <1>1 DEF NoChange, Change

\* A change that is made is numbered above all that were made before.
LEMMA NewNumber ==
  ASSUME Queueing, NEW e \in Changes, NextChange(e), NEW c, c # NoChange,
         asked' = [asked EXCEPT ![e] = c]
  PROVE  /\ asked' = [f \in Changes |-> asked'[f]]
         /\ Asked' = Asked \cup {e} /\ e \notin Asked
         /\ \A f \in Asked : f < e
         /\ Numbered'
<1>1. asked = [f \in Changes |-> asked[f]] /\ Numbered /\ Changes \subseteq Nat
  BY PackingAssumption DEF Queueing, Shape
<1>2. asked' = [f \in Changes |-> asked'[f]] /\ Asked' = Asked \cup {e} /\ e \notin Asked
  BY <1>1 DEF Asked, NextChange
<1>3. ASSUME NEW f \in Asked PROVE f < e
  <2>1. ~(e < f) /\ e # f /\ f \in Changes
    BY <1>1, <1>2, <1>3 DEF Numbered, Asked
  <2> QED
    BY <1>1, <2>1
<1>4. \A f \in Changes : f < e => f \in Asked
  BY DEF NextChange, Asked
<1>5. Numbered'
  BY <1>1, <1>2, <1>4 DEF Numbered
<1> QED
  BY <1>2, <1>3, <1>5

\* The device makes a change.
LEMMA MutateKeeps ==
  ASSUME Queueing, NEW d \in Devices, NEW e \in Changes, Mutate(d, e)
  PROVE  Queueing'
<1>1. PICK c : /\ c # NoChange
               /\ asked' = [asked EXCEPT ![e] = c]
  BY OfferedIsChange DEF Mutate
<1>2. /\ maker' = [maker EXCEPT ![d] = @ \cup {e}]
      /\ queue' = [queue EXCEPT ![d] = @ \cup {e}]
      /\ UNCHANGED <<log, calls, failed, run, retried, dropped>>
      /\ NextChange(e)
  BY DEF Mutate, listVars
<1>3. /\ asked' = [f \in Changes |-> asked'[f]]
      /\ Asked' = Asked \cup {e} /\ e \notin Asked
      /\ \A f \in Asked : f < e
      /\ Numbered'
  BY <1>1, <1>2, NewNumber
<1>4. /\ Revision' = Revision /\ \A f : Recorded(f)' = Recorded(f)
      /\ Refused' = Refused
  BY <1>2, LogStays DEF Refused
<1>5. /\ maker \in [Devices -> SUBSET Changes] /\ queue \in [Devices -> SUBSET Changes]
      /\ Changes \subseteq Nat
      /\ Known
  BY PackingAssumption DEF Queueing, Shape
<1>6. /\ maker' \in [Devices -> SUBSET Changes] /\ queue' \in [Devices -> SUBSET Changes]
      /\ maker'[d] = maker[d] \cup {e} /\ queue'[d] = queue[d] \cup {e}
      /\ \A g \in Devices \ {d} : maker'[g] = maker[g] /\ queue'[g] = queue[g]
  BY <1>2, <1>5
<1>7. \A g \in Devices : maker[g] \subseteq maker'[g] /\ queue[g] \subseteq queue'[g]
  BY <1>6
<1>8. \A g \in Devices : \A f \in maker'[g] : f \in maker[g] \/ (f = e /\ g = d)
  BY <1>6
<1>9. \A g \in Devices : \A f \in maker[g] : f < e /\ ~(e < f)
  <2>1. \A g \in Devices : \A f \in maker[g] : f \in Asked /\ f \in Nat
    BY <1>5 DEF Known
  <2> QED
    BY <1>3, <1>5, <2>1
<1>10. ~(e < e)
  BY <1>5
<1>11. Recorded(e) = {}
  BY <1>3, <1>5 DEF Known
<1>12. Shape'
  BY <1>2, <1>3, <1>6 DEF Queueing, Shape, AreRequests
<1>13. Known'
  BY <1>2, <1>3, <1>4, <1>5, <1>6 DEF Known
<1>14. OneMaker'
  BY <1>3, <1>5, <1>8 DEF Queueing, OneMaker, Known
<1>15. OwnEntries' /\ OwnQueue' /\ OwnRequests' /\ Truthful'
  BY <1>2, <1>4, <1>6, <1>7 DEF OwnQueue, Queueing, OwnEntries, OwnRequests, Sends, Truthful
<1>16. OlderRecorded'
  <2>1. \A r \in PackingRequests : calls[r].status \in Open => calls[r].event \in Asked
    BY <1>5 DEF Known, Open
  <2> QED
    BY <1>2, <1>3, <1>4, <1>8, <1>9, <1>10, <2>1 DEF Queueing, OlderRecorded
<1>17. OlderFirst'
  BY <1>2, <1>4, <1>8, <1>9 DEF Queueing, OlderFirst, OwnEntries
<1>18. NoChangeLost'
  BY <1>2, <1>4, <1>6, <1>7, <1>8 DEF Queueing, NoChangeLost
<1>19. MadeInOrder'
  BY <1>4, <1>8, <1>9, <1>10, <1>11 DEF Queueing, MadeInOrder
<1> QED
  BY <1>3, <1>12, <1>13, <1>14, <1>15, <1>16, <1>17, <1>18, <1>19 DEF Queueing

\* A run begins with what waits, or comes to its end.
LEMMA RunKeeps ==
  ASSUME Queueing, NEW d \in Devices, NEW s, Moved(d, s),
         s.pc # "sent", s.todo = {} \/ s.todo = Waiting(d),
         UNCHANGED <<asked, log, calls, maker, queue, failed, retried, dropped>>
  PROVE  Queueing'
<1>1. /\ run' = [g \in Devices |-> run'[g]]
      /\ \A g \in Devices : IsRun(run'[g])
      /\ run'[d] = s
      /\ \A g \in Devices \ {d} : run'[g] = run[g]
  BY MovedStays DEF Queueing
<1>2. /\ \A f : Recorded(f)' = Recorded(f)
      /\ Refused' = Refused /\ Asked' = Asked
  BY LogStays DEF Refused, Asked
<1>3. Shape'
  BY <1>1 DEF Queueing, Shape, AreRequests
<1>4. Numbered' /\ Known' /\ OneMaker' /\ OwnQueue' /\ Truthful'
  BY <1>2 DEF OwnQueue, Queueing, Numbered, Known, OneMaker, Truthful
<1>5. \A e \in s.todo : e \in queue[d] /\ e \in maker[d]
  BY DEF Queueing, OwnQueue, Waiting
<1>6. OwnEntries'
  BY <1>1, <1>5 DEF Queueing, OwnEntries
<1>7. OwnRequests'
  BY <1>1 DEF Queueing, OwnRequests, Sends
<1>8. OlderRecorded' /\ NoChangeLost' /\ MadeInOrder'
  BY <1>2 DEF Queueing, OlderRecorded, NoChangeLost, MadeInOrder
<1>9. OlderFirst'
  <2>1. ASSUME NEW f \in s.todo, NEW e \in maker[d], e \notin Refused
        PROVE  Recorded(e) # {} \/ e \in s.todo
    BY <2>1 DEF Queueing, NoChangeLost, Refused, Waiting
  <2>2. ASSUME NEW g \in Devices, NEW f \in run'[g].todo, NEW e \in maker'[g],
               e < f, e \notin Refused'
        PROVE  \/ Recorded(e) # {}
               \/ e \in run'[g].todo
               \/ run'[g].pc = "sent" /\ run'[g].event = e
    <3>1. CASE g = d
      BY <1>1, <1>2, <2>1, <2>2, <3>1
    <3>2. CASE g # d
      BY <1>1, <1>2, <2>2, <3>2 DEF Queueing, OlderFirst
    <3> QED
      BY <3>1, <3>2
  <2> QED
    BY <1>2, <2>2 DEF OlderFirst
<1> QED
  BY <1>3, <1>4, <1>6, <1>7, <1>8, <1>9 DEF Queueing

\* The oldest entry that is left goes out.
LEMMA SendKeeps ==
  ASSUME Queueing, NEW d \in Devices, NEW e \in Changes, NEW r \in PackingRequests,
         run[d].pc = "next", Earliest(e, run[d].todo),
         calls[r].status = "idle",
         NEW q, Changed(r, q), q.status = "received", q.event = e,
         NEW s, Moved(d, s), s.pc = "sent", s.todo = run[d].todo \ {e}, s.event = e, s.slot = r,
         UNCHANGED <<asked, log, maker, queue, failed, retried, dropped>>
  PROVE  Queueing'
<1>1. AreRequests' /\ calls'[r] = q /\ \A x \in PackingRequests \ {r} : calls'[x] = calls[x]
  BY ChangedStays DEF Queueing, Shape
<1>2. /\ run' = [g \in Devices |-> run'[g]]
      /\ \A g \in Devices : IsRun(run'[g])
      /\ run'[d] = s
      /\ \A g \in Devices \ {d} : run'[g] = run[g]
  BY MovedStays DEF Queueing
<1>3. /\ \A f : Recorded(f)' = Recorded(f)
      /\ Refused' = Refused /\ Asked' = Asked
  BY LogStays DEF Refused, Asked
<1>4. e \in run[d].todo /\ (\A f \in run[d].todo : e <= f) /\ e \in maker[d] /\ e \in Asked
  BY DEF Earliest, Queueing, OwnEntries, Known
<1>5. Shape'
  BY <1>1, <1>2 DEF Queueing, Shape
<1>6. Numbered' /\ OneMaker' /\ OwnQueue'
  BY <1>3 DEF OwnQueue, Queueing, Numbered, OneMaker
<1>7. Known'
  BY <1>1, <1>3, <1>4 DEF Queueing, Known
<1>8. OwnEntries'
  BY <1>2, <1>4 DEF Queueing, OwnEntries
<1>9. OwnRequests'
  <2>1. \A g \in Devices : ~Sends(g, r)
    BY DEF Queueing, OwnRequests
  <2>2. \A g \in Devices \ {d} : \A x \in PackingRequests : Sends(g, x)' <=> Sends(g, x)
    BY <1>2 DEF Sends
  <2>3. \A x \in PackingRequests : Sends(d, x)' => x = r
    BY <1>2 DEF Sends
  <2>4. ASSUME NEW g \in Devices, NEW x \in PackingRequests, Sends(g, x)'
        PROVE  /\ calls'[x].status # "idle" /\ calls'[x].event = run'[g].event
               /\ \A h \in Devices : Sends(h, x)' => h = g
    <3>1. CASE g = d
      BY <1>1, <1>2, <2>1, <2>2, <2>3, <2>4, <3>1
    <3>2. CASE g # d
      <4>1. x # r /\ Sends(g, x) /\ run'[g] = run[g] /\ calls'[x] = calls[x]
        BY <1>1, <1>2, <2>1, <2>2, <2>4, <3>2
      <4>2. \A h \in Devices : Sends(h, x)' => h # d /\ Sends(h, x)
        BY <2>2, <2>3, <4>1
      <4> QED
        BY <4>1, <4>2 DEF Queueing, OwnRequests
    <3> QED
      BY <3>1, <3>2
  <2> QED
    BY <2>4 DEF OwnRequests
<1>10. Truthful'
  BY <1>1, <1>3 DEF Queueing, Truthful, Done
<1>11. OlderRecorded'
  <2>1. ASSUME NEW a \in maker[d], a < e, a \notin Refused
        PROVE  Recorded(a) # {}
    <3>1. a \notin run[d].todo
      BY <1>4, <2>1, PackingAssumption DEF Queueing, Shape
    <3> QED
      BY <1>4, <2>1, <3>1 DEF Queueing, OlderFirst
  <2>2. ASSUME NEW g \in Devices, NEW a \in maker[g], e \in maker[g], a < e, a \notin Refused
        PROVE  Recorded(a) # {}
    BY <1>4, <2>1, <2>2 DEF Queueing, OneMaker
  <2> QED
    BY <1>1, <1>3, <2>2 DEF Queueing, OlderRecorded
<1>12. OlderFirst'
  <2>1. ASSUME NEW g \in Devices, NEW f \in run'[g].todo, NEW a \in maker'[g],
               a < f, a \notin Refused'
        PROVE  \/ Recorded(a) # {}
               \/ a \in run'[g].todo
               \/ run'[g].pc = "sent" /\ run'[g].event = a
    <3>1. CASE g = d
      <4>1. f \in run[d].todo /\ a \in maker[d] /\ a \notin Refused
        BY <1>2, <1>3, <2>1, <3>1
      <4>2. Recorded(a) # {} \/ a \in run[d].todo
        BY <2>1, <4>1 DEF Queueing, OlderFirst
      <4> QED
        BY <1>2, <3>1, <4>2
    <3>2. CASE g # d
      <4>1. f \in run[g].todo /\ a \in maker[g] /\ a \notin Refused /\ run'[g] = run[g]
        BY <1>2, <1>3, <2>1, <3>2
      <4> QED
        BY <2>1, <4>1 DEF Queueing, OlderFirst
    <3> QED
      BY <3>1, <3>2
  <2> QED
    BY <1>3, <2>1 DEF OlderFirst
<1>13. NoChangeLost' /\ MadeInOrder'
  BY <1>3 DEF Queueing, NoChangeLost, MadeInOrder
<1> QED
  BY <1>5, <1>6, <1>7, <1>8, <1>9, <1>10, <1>11, <1>12, <1>13 DEF Queueing

\* The answer to what the device sent: the entry stays and the run ends, or the run
\* goes on without what is in the log or was refused.
LEMMA SettleKeeps ==
  ASSUME Queueing, NEW d \in Devices, NEW r \in PackingRequests, NEW e,
         Sends(d, r), e = run[d].event,
         Changed(r, IdleRequest),
         NEW s, Moved(d, s), s.pc = "next",
         UNCHANGED <<asked, log, maker>>,
         queue' \in [Devices -> SUBSET Changes],
         \A g \in Devices : queue'[g] \subseteq queue[g],
         \A g \in Devices : \A f \in queue[g] : f \in queue'[g] \/ Recorded(f) # {} \/ f \in dropped',
         dropped \subseteq dropped', Refused \subseteq Refused',
         \/ s.todo = {}
         \/ s.todo = run[d].todo /\ (Recorded(e) # {} \/ e \in Refused')
  PROVE  Queueing'
<1>1. /\ AreRequests' /\ calls'[r].status = "idle"
      /\ \A x \in PackingRequests \ {r} : calls'[x] = calls[x]
  BY ChangedStays, IdleIsRequest DEF Queueing, Shape
<1>2. /\ run' = [g \in Devices |-> run'[g]]
      /\ \A g \in Devices : IsRun(run'[g])
      /\ run'[d] = s
      /\ \A g \in Devices \ {d} : run'[g] = run[g]
  BY MovedStays DEF Queueing
<1>3. (\A f : Recorded(f)' = Recorded(f)) /\ Asked' = Asked
  BY LogStays DEF Asked
<1>4. Shape'
  BY <1>1, <1>2 DEF Queueing, Shape
<1>5. Numbered' /\ OneMaker' /\ OwnQueue'
  BY <1>3 DEF Queueing, Numbered, OneMaker, OwnQueue
<1>6. Known'
  BY <1>1, <1>3 DEF Queueing, Known
<1>7. OwnEntries'
  BY <1>2 DEF Queueing, OwnEntries
<1>8. OwnRequests'
  <2>1. \A g \in Devices \ {d} : ~Sends(g, r)
    BY DEF Queueing, OwnRequests
  <2>2. \A g \in Devices : \A x \in PackingRequests : Sends(g, x)' => Sends(g, x) /\ g # d
    BY <1>2 DEF Sends
  <2>3. ASSUME NEW g \in Devices, NEW x \in PackingRequests, Sends(g, x)'
        PROVE  /\ calls'[x].status # "idle" /\ calls'[x].event = run'[g].event
               /\ \A h \in Devices : Sends(h, x)' => h = g
    <3>1. Sends(g, x) /\ g # d /\ x # r
      BY <2>1, <2>2, <2>3
    <3>2. calls'[x] = calls[x] /\ run'[g] = run[g]
      BY <1>1, <1>2, <3>1
    <3> QED
      BY <2>2, <3>1, <3>2 DEF Queueing, OwnRequests
  <2> QED
    BY <2>3 DEF OwnRequests
<1>9. Truthful'
  BY <1>1, <1>3 DEF Queueing, Truthful, Done
<1>10. OlderRecorded'
  BY <1>1, <1>3 DEF Queueing, OlderRecorded, Open
<1>11. OlderFirst'
  <2>1. ASSUME NEW g \in Devices, NEW f \in run'[g].todo, NEW a \in maker'[g],
               a < f, a \notin Refused'
        PROVE  \/ Recorded(a) # {}
               \/ a \in run'[g].todo
               \/ run'[g].pc = "sent" /\ run'[g].event = a
    <3>1. CASE g = d
      <4>1. f \in run[d].todo /\ s.todo = run[d].todo /\ (Recorded(e) # {} \/ e \in Refused')
        BY <1>2, <2>1, <3>1
      <4>2. Recorded(a) # {} \/ a \in run[d].todo \/ e = a
        BY <2>1, <3>1, <4>1 DEF Queueing, OlderFirst
      <4> QED
        BY <1>2, <2>1, <3>1, <4>1, <4>2
    <3>2. CASE g # d
      <4>1. f \in run[g].todo /\ a \in maker[g] /\ a \notin Refused /\ run'[g] = run[g]
        BY <1>2, <2>1, <3>2
      <4> QED
        BY <2>1, <4>1 DEF Queueing, OlderFirst
    <3> QED
      BY <3>1, <3>2
  <2> QED
    BY <1>3, <2>1 DEF OlderFirst
<1>12. NoChangeLost'
  BY <1>3 DEF Queueing, NoChangeLost
<1>13. MadeInOrder'
  BY <1>3 DEF Queueing, MadeInOrder
<1> QED
  BY <1>4, <1>5, <1>6, <1>7, <1>8, <1>9, <1>10, <1>11, <1>12, <1>13 DEF Queueing

LEMMA AnsweredKeeps ==
  ASSUME Queueing, NEW d \in Devices, Answered(d)
  PROVE  Queueing'
<1> DEFINE r == run[d].slot
           e == run[d].event
           n == calls[r].answer
           left == [run[d] EXCEPT !.pc = "next", !.event = 0, !.slot = NoCall]
<1>1. Sends(d, r) /\ r \in PackingRequests /\ e \in maker[d] /\ e \in Changes
  BY DEF Answered, Sends, Queueing, OwnEntries, Shape
<1>2. calls[r].event = e
  BY <1>1 DEF Queueing, OwnRequests
<1>3. Changed(r, IdleRequest)
  BY <1>1, FinishChanges DEF Answered, Queueing, Shape
<1>4. UNCHANGED <<asked, log, maker, retried>>
  BY DEF Answered, listVars
<1>5. PICK a : a = left
  OBVIOUS
<1>6. IsRun(a) /\ a.pc = "next" /\ a.todo = run[d].todo
  <2>1. PICK X : X = {"next", 0, NoCall}
    OBVIOUS
  <2>2. PICK S : run[d] \in RunOf(S) /\ X \subseteq S
    BY RoomyRun DEF Queueing, Shape
  <2>3. a \in RunOf(S) /\ a.pc = "next" /\ a.todo = run[d].todo
    BY <1>5, <2>1, <2>2 DEF RunOf
  <2> QED
    BY <2>3 DEF IsRun
<1>7. ASSUME NEW Q \in SUBSET queue[d], queue' = [queue EXCEPT ![d] = Q]
      PROVE  /\ queue' \in [Devices -> SUBSET Changes] /\ queue'[d] = Q
             /\ \A g \in Devices \ {d} : queue'[g] = queue[g]
             /\ \A g \in Devices : queue'[g] \subseteq queue[g]
  BY <1>7 DEF Queueing, Shape
<1>8. queue \in [Devices -> SUBSET Changes]
  BY DEF Queueing, Shape
<1>9. CASE /\ SettledBy(calls[r].status)
           /\ queue' = [queue EXCEPT ![d] = @ \ {e}]
           /\ run' = [run EXCEPT ![d] =
                [left EXCEPT !.server = Snapshot(GenerationAt(n), ListAt(n)),
                             !.override = IF asked[e].kind = "reset" THEN GenerationAt(n) ELSE @]]
           /\ UNCHANGED <<failed, dropped>>
  <2>1. PICK s, x, y : /\ x = Snapshot(GenerationAt(n), ListAt(n))
                       /\ y = IF asked[e].kind = "reset" THEN GenerationAt(n) ELSE a.override
                       /\ s = [a EXCEPT !.server = x, !.override = y]
    OBVIOUS
  <2>2. PICK X : X = {x, y}
    OBVIOUS
  <2>3. PICK S : a \in RunOf(S) /\ X \subseteq S
    BY <1>6, RoomyRun
  <2>4. s \in RunOf(S) /\ s.pc = "next" /\ s.todo = run[d].todo
    BY <1>6, <2>1, <2>2, <2>3 DEF RunOf
  <2>5. run' = [run EXCEPT ![d] = s]
    BY <1>5, <1>9, <2>1
  <2>6. Moved(d, s)
    BY <2>4, <2>5 DEF Moved, IsRun
  <2>7. Recorded(e) # {}
    BY <1>1, <1>2, <1>9 DEF SettledBy, Queueing, Truthful, Done
  <2>8. /\ queue' \in [Devices -> SUBSET Changes] /\ queue'[d] = queue[d] \ {e}
        /\ \A g \in Devices \ {d} : queue'[g] = queue[g]
        /\ \A g \in Devices : queue'[g] \subseteq queue[g]
    BY <1>7, <1>9
  <2>9. \A g \in Devices : \A f \in queue[g] : f \in queue'[g] \/ Recorded(f) # {}
    BY <2>7, <2>8
  <2>10. Refused' = Refused
    BY <1>4, <1>9 DEF Refused
  <2> HIDE DEF r, e
  <2> QED
    BY <1>1, <1>3, <1>4, <1>9, <2>4, <2>6, <2>7, <2>8, <2>9, <2>10, SettleKeeps DEF e
<1>10. CASE /\ queue' = [queue EXCEPT ![d] = @ \ {e}]
            /\ dropped' = dropped \cup {e}
            /\ run' = [run EXCEPT ![d] = left]
            /\ UNCHANGED failed
  <2>1. Moved(d, a)
    BY <1>5, <1>6, <1>10 DEF Moved
  <2>2. /\ queue' \in [Devices -> SUBSET Changes] /\ queue'[d] = queue[d] \ {e}
        /\ \A g \in Devices \ {d} : queue'[g] = queue[g]
        /\ \A g \in Devices : queue'[g] \subseteq queue[g]
    BY <1>7, <1>10
  <2>3. \A g \in Devices : \A f \in queue[g] : f \in queue'[g] \/ f \in dropped'
    BY <1>10, <2>2
  <2>4. Refused \subseteq Refused' /\ e \in Refused' /\ dropped \subseteq dropped'
    BY <1>4, <1>10 DEF Refused
  <2> HIDE DEF r, e
  <2> QED
    BY <1>1, <1>3, <1>4, <1>6, <2>1, <2>2, <2>3, <2>4, SettleKeeps DEF e
<1>11. CASE /\ failed' = failed \cup {e}
            /\ run' = [run EXCEPT ![d] = left]
            /\ UNCHANGED <<queue, dropped>>
  <2>1. Moved(d, a)
    BY <1>5, <1>6, <1>11 DEF Moved
  <2>2. Refused \subseteq Refused' /\ e \in Refused' /\ dropped \subseteq dropped'
    BY <1>4, <1>11 DEF Refused
  <2>3. \A g \in Devices : queue'[g] = queue[g]
    BY <1>11
  <2>4. queue' \in [Devices -> SUBSET Changes]
    BY <1>8, <1>11
  <2> HIDE DEF r, e
  <2> QED
    BY <1>1, <1>3, <1>4, <1>6, <2>1, <2>2, <2>3, <2>4, SettleKeeps DEF e
<1>12. CASE /\ run' = [run EXCEPT ![d] = AfterError(left)]
            /\ UNCHANGED <<queue, failed, dropped>>
  <2>1. PICK s : s = AfterError(a)
    OBVIOUS
  <2>2. PICK X : X = {"next", {}}
    OBVIOUS
  <2>3. PICK S : a \in RunOf(S) /\ X \subseteq S
    BY <1>6, RoomyRun
  <2>4. s \in RunOf(S) /\ s.pc = "next" /\ s.todo = {}
    BY <2>1, <2>2, <2>3 DEF RunOf, AfterError
  <2>5. Moved(d, s)
    BY <1>5, <1>12, <2>1, <2>4 DEF Moved, IsRun
  <2>6. Refused' = Refused /\ dropped' = dropped
    BY <1>4, <1>12 DEF Refused
  <2>7. \A g \in Devices : queue'[g] = queue[g]
    BY <1>12
  <2>8. queue' \in [Devices -> SUBSET Changes]
    BY <1>8, <1>12
  <2> HIDE DEF r, e
  <2> QED
    BY <1>1, <1>3, <1>4, <2>4, <2>5, <2>6, <2>7, <2>8, SettleKeeps DEF e
<1> QED
  BY <1>9, <1>10, <1>11, <1>12 DEF Answered

\* The user sends a failed entry again or gives it up.
LEMMA ResolveKeeps ==
  ASSUME Queueing, UNCHANGED <<asked, log, calls, maker, run>>,
         queue' \in [Devices -> SUBSET Changes],
         \A g \in Devices : queue'[g] \subseteq queue[g],
         \A g \in Devices : \A f \in queue[g] : f \in queue'[g] \/ f \in dropped',
         dropped \subseteq dropped', Refused \subseteq Refused'
  PROVE  Queueing'
<1>1. (\A f : Recorded(f)' = Recorded(f)) /\ Asked' = Asked
  BY LogStays DEF Asked
<1>2. Shape' /\ Numbered' /\ Known' /\ OneMaker' /\ OwnEntries' /\ OwnQueue'
  BY <1>1 DEF Queueing, Shape, AreRequests, Numbered, Known, OneMaker, OwnEntries, OwnQueue
<1>3. OwnRequests' /\ Truthful'
  BY <1>1 DEF Queueing, OwnRequests, Sends, Truthful
<1>4. OlderRecorded' /\ OlderFirst' /\ NoChangeLost' /\ MadeInOrder'
  BY <1>1 DEF Queueing, OlderRecorded, OlderFirst, NoChangeLost, MadeInOrder
<1> QED
  BY <1>2, <1>3, <1>4 DEF Queueing

LEMMA RetryKeeps ==
  ASSUME Queueing, NEW d \in Devices, NEW e, Retry(d, e)
  PROVE  Queueing'
<1>1. /\ UNCHANGED <<asked, log, calls, maker, run, queue, dropped>>
      /\ failed' = failed \ {e} /\ retried' = retried \cup {e}
  BY DEF Retry, packingVars, listVars
<1>2. Refused \subseteq Refused'
  BY <1>1 DEF Refused
<1>3. queue' \in [Devices -> SUBSET Changes]
  BY <1>1 DEF Queueing, Shape
<1> QED
  BY <1>1, <1>2, <1>3, ResolveKeeps

LEMMA DismissKeeps ==
  ASSUME Queueing, NEW d \in Devices, NEW e, Dismiss(d, e)
  PROVE  Queueing'
<1>1. /\ UNCHANGED <<asked, log, calls, maker, run, retried>>
      /\ failed' = failed \ {e} /\ dropped' = dropped \cup {e}
      /\ queue' = [queue EXCEPT ![d] = @ \ {e}]
  BY DEF Dismiss, packingVars, listVars
<1>2. Refused \subseteq Refused' /\ dropped \subseteq dropped'
  BY <1>1 DEF Refused
<1>3. queue \in [Devices -> SUBSET Changes]
  BY DEF Queueing, Shape
<1>4. /\ queue' \in [Devices -> SUBSET Changes] /\ queue'[d] = queue[d] \ {e}
      /\ \A g \in Devices \ {d} : queue'[g] = queue[g]
  BY <1>1, <1>3
<1>5. /\ \A g \in Devices : queue'[g] \subseteq queue[g]
      /\ \A g \in Devices : \A f \in queue[g] : f \in queue'[g] \/ f \in dropped'
  BY <1>1, <1>4
<1> QED
  BY <1>1, <1>2, <1>4, <1>5, ResolveKeeps

LEMMA TransmitKeeps ==
  ASSUME Queueing, NEW d \in Devices, Transmit(d)
  PROVE  Queueing'
<1>1. PICK e \in Changes :
        /\ Earliest(e, run[d].todo)
        /\ \/ \E r \in PackingRequests :
                /\ ReceiveChange(r, e, asked[e], Base(d, e))
                /\ run' = [run EXCEPT ![d].pc = "sent", ![d].todo = @ \ {e}, ![d].event = e, ![d].slot = r]
           \/ run' = [run EXCEPT ![d].todo = {}] /\ UNCHANGED calls
  BY DEF Transmit
<1>2. UNCHANGED <<asked, log, maker, queue, failed, retried, dropped>> /\ run[d].pc = "next"
  BY DEF Transmit, listVars
<1>3. ASSUME NEW r \in PackingRequests,
             ReceiveChange(r, e, asked[e], Base(d, e)),
             run' = [run EXCEPT ![d].pc = "sent", ![d].todo = @ \ {e}, ![d].event = e, ![d].slot = r]
      PROVE  Queueing'
  <2>1. PICK q : Changed(r, q) /\ q.status = "received" /\ q.event = e
    BY <1>3, ReceiveChanges DEF Queueing, Shape
  <2>2. calls[r].status = "idle"
    BY <1>3 DEF ReceiveChange
  <2>3. PICK s : s = [run[d] EXCEPT !.pc = "sent", !.todo = @ \ {e}, !.event = e, !.slot = r]
    OBVIOUS
  <2>4. run' = [run EXCEPT ![d] = s]
    BY <1>3, <2>3
  <2>5. PICK X : X = {"sent", run[d].todo \ {e}, e, r}
    OBVIOUS
  <2>6. PICK S : run[d] \in RunOf(S) /\ X \subseteq S
    BY RoomyRun DEF Queueing, Shape
  <2>7. s \in RunOf(S) /\ s.pc = "sent" /\ s.todo = run[d].todo \ {e} /\ s.event = e /\ s.slot = r
    BY <2>3, <2>5, <2>6 DEF RunOf
  <2>8. Moved(d, s)
    BY <2>4, <2>7 DEF Moved, IsRun
  <2> QED
    BY <1>1, <1>2, <2>1, <2>2, <2>7, <2>8, SendKeeps
<1>4. ASSUME run' = [run EXCEPT ![d].todo = {}], UNCHANGED calls
      PROVE  Queueing'
  <2>1. PICK s : s = [run[d] EXCEPT !.todo = {}]
    OBVIOUS
  <2>2. PICK X : X = {{}}
    OBVIOUS
  <2>3. PICK S : run[d] \in RunOf(S) /\ X \subseteq S
    BY RoomyRun DEF Queueing, Shape
  <2>4. s \in RunOf(S) /\ s.pc = "next" /\ s.todo = {}
    BY <1>2, <2>1, <2>2, <2>3 DEF RunOf
  <2>5. Moved(d, s)
    BY <1>4, <2>1, <2>4 DEF Moved, IsRun
  <2> QED
    BY <1>2, <1>4, <2>4, <2>5, RunKeeps
<1> QED
  BY <1>1, <1>3, <1>4

\* The other steps of a run, and the page that is closed.
LEMMA StartKeeps ==
  ASSUME Queueing, NEW d \in Devices, StartRun(d)
  PROVE  Queueing'
<1>1. PICK s : s = [NoRun EXCEPT !.pc = "next", !.todo = Waiting(d), !.server = local[d]]
  OBVIOUS
<1>2. PICK X : X = {"next", Waiting(d), local[d]}
  OBVIOUS
<1>3. PICK S : NoRun \in RunOf(S) /\ X \subseteq S
  BY NoRunIsRun, RoomyRun
<1>4. s \in RunOf(S) /\ s.pc = "next" /\ s.todo = Waiting(d)
  BY <1>1, <1>2, <1>3 DEF RunOf
<1>5. Moved(d, s)
  BY <1>1, <1>4 DEF StartRun, Moved, IsRun
<1>6. UNCHANGED <<asked, log, calls, maker, queue, failed, retried, dropped>>
  BY DEF StartRun, packingVars, listVars
<1> QED
  BY <1>4, <1>5, <1>6, RunKeeps

LEMMA LostKeeps ==
  ASSUME Queueing, NEW d \in Devices, Lost(d)
  PROVE  Queueing'
<1>1. PICK a : a = [run[d] EXCEPT !.event = 0, !.slot = NoCall]
  OBVIOUS
<1>2. PICK s : s = AfterError(a)
  OBVIOUS
<1>3. PICK X : X = {0, NoCall, "next", {}}
  OBVIOUS
<1>4. PICK S : run[d] \in RunOf(S) /\ X \subseteq S
  BY RoomyRun DEF Queueing, Shape
<1>5. a \in RunOf(S)
  BY <1>1, <1>3, <1>4 DEF RunOf
<1>6. s \in RunOf(S) /\ s.pc = "next" /\ s.todo = {}
  BY <1>2, <1>3, <1>4, <1>5 DEF RunOf, AfterError
<1>7. Moved(d, s)
  BY <1>1, <1>2, <1>6 DEF Lost, Moved, IsRun
<1>8. UNCHANGED <<asked, log, calls, maker, queue, failed, retried, dropped>>
  BY DEF Lost, packingVars, listVars
<1> QED
  BY <1>6, <1>7, <1>8, RunKeeps

LEMMA FetchKeeps ==
  ASSUME Queueing, NEW d \in Devices, FetchState(d)
  PROVE  Queueing'
<1>1. PICK x : x = [run[d].server EXCEPT !.generation = generation]
  OBVIOUS
<1>2. PICK s : s = [run[d] EXCEPT !.pc = "rows", !.server = x]
  OBVIOUS
<1>3. PICK X : X = {"rows", x}
  OBVIOUS
<1>4. PICK S : run[d] \in RunOf(S) /\ X \subseteq S
  BY RoomyRun DEF Queueing, Shape
<1>5. s \in RunOf(S) /\ s.pc = "rows" /\ s.todo = {}
  BY <1>2, <1>3, <1>4 DEF RunOf, FetchState
<1>6. run' = [run EXCEPT ![d] = s]
  BY <1>1, <1>2 DEF FetchState
<1>7. Moved(d, s)
  BY <1>5, <1>6 DEF Moved, IsRun
<1>8. UNCHANGED <<asked, log, calls, maker, queue, failed, retried, dropped>>
  BY DEF FetchState, packingVars, listVars
<1> QED
  BY <1>5, <1>7, <1>8, RunKeeps

LEMMA LayKeeps ==
  ASSUME Queueing, NEW d \in Devices, NEW snapshot, Lay(d, snapshot)
  PROVE  Queueing'
<1>1. PICK x : x = Overlay(d, snapshot)
  OBVIOUS
<1>2. PICK s : s = [NoRun EXCEPT !.pc = "save", !.server = x]
  OBVIOUS
<1>3. PICK X : X = {"save", x}
  OBVIOUS
<1>4. PICK S : NoRun \in RunOf(S) /\ X \subseteq S
  BY NoRunIsRun, RoomyRun
<1>5. s \in RunOf(S) /\ s.pc = "save" /\ s.todo = {}
  BY <1>2, <1>3, <1>4, NoRunIsRun DEF RunOf
<1>6. Moved(d, s)
  BY <1>1, <1>2, <1>5 DEF Lay, Moved, IsRun
<1>7. UNCHANGED <<asked, log, calls, maker, queue, failed, retried, dropped>>
  BY DEF Lay, packingVars, listVars
<1> QED
  BY <1>5, <1>6, <1>7, RunKeeps

LEMMA EndKeeps ==
  ASSUME Queueing, NEW d \in Devices, Save(d) \/ ClosePage(d)
  PROVE  Queueing'
<1>1. Moved(d, NoRun)
  BY NoRunIsRun DEF Save, ClosePage, Moved
<1>2. UNCHANGED <<asked, log, calls, maker, queue, failed, retried, dropped>>
  BY DEF Save, ClosePage, packingVars, listVars
<1> QED
  BY <1>1, <1>2, NoRunIsRun, RunKeeps

-----------------------------------------------------------------------------
(* Steps beside the devices.                                                *)

\* A request goes on or ends while no device waits for it, and commits at most its
\* own event.
LEMMA ServerKeeps ==
  ASSUME Queueing,
         UNCHANGED <<asked, maker, queue, failed, run, retried, dropped>>,
         AreRequests', IsSeq(log'),
         \A r \in PackingRequests :
           \/ calls'[r].status = "idle" /\ \A d \in Devices : ~Sends(d, r)
           \/ /\ calls'[r].status # "idle" /\ calls[r].status # "idle"
              /\ calls'[r].event = calls[r].event
              /\ calls'[r].status \in Open => calls[r].status \in Open
              /\ \A e : calls'[r].status \in Done /\ e = calls[r].event => Recorded(e)' # {},
         \/ UNCHANGED log
         \/ \E r \in PackingRequests : \E entry :
              /\ calls[r].status \in Open
              /\ entry.event = calls[r].event
              /\ log' = Append(log, entry)
  PROVE  Queueing'
<1>1. Refused' = Refused /\ Asked' = Asked
  BY DEF Refused, Asked
<1>2. /\ \A e : Recorded(e) \subseteq Recorded(e)'
      /\ \A e : Recorded(e)' # {} => e \in Asked
      /\ \A d \in Devices : \A e, f \in maker[d] : e < f /\ e \notin Refused =>
           \A n \in Recorded(f)' : \E m \in Recorded(e) : m < n
  <2>1. CASE UNCHANGED log
    BY <2>1, LogStays DEF Queueing, Known, MadeInOrder
  <2>2. ASSUME NEW r \in PackingRequests, NEW entry,
               calls[r].status \in Open, entry.event = calls[r].event, log' = Append(log, entry)
        PROVE  <1>2!1 /\ <1>2!2 /\ <1>2!3
    <3>1. PICK h : h = entry.event
      OBVIOUS
    <3>2. /\ Revision \in Nat
          /\ Recorded(h)' = Recorded(h) \cup {Revision + 1}
          /\ \A e : e # h => Recorded(e)' = Recorded(e)
          /\ \A e : Recorded(e) \subseteq 1..Revision
      BY <2>2, <3>1, RecordedGrows DEF Queueing, Shape
    <3>3. h \in Asked
      BY <2>2, <3>1 DEF Queueing, Known, Open
    <3>4. ASSUME NEW d \in Devices, NEW e \in maker[d], NEW f \in maker[d], e < f, e \notin Refused,
                 NEW n \in Recorded(f)'
          PROVE  \E m \in Recorded(e) : m < n
      <4>1. CASE n \in Recorded(f)
        BY <3>4, <4>1 DEF Queueing, MadeInOrder
      <4>2. CASE f = h /\ n = Revision + 1
        <5>1. PICK m \in Recorded(e) : TRUE
          BY <2>2, <3>1, <3>4, <4>2 DEF Queueing, OlderRecorded
        <5>2. m \in 1..Revision
          BY <3>2
        <5> QED
          BY <3>2, <4>2, <5>1, <5>2
      <4> QED
        BY <3>2, <3>4, <4>1, <4>2
    <3> QED
      BY <3>2, <3>3, <3>4 DEF Queueing, Known
  <2> QED
    BY <2>1, <2>2
<1>3. Shape' /\ Numbered' /\ OneMaker' /\ OwnEntries' /\ OwnQueue'
  BY <1>1 DEF Queueing, Shape, Numbered, OneMaker, OwnEntries, OwnQueue
<1>4. Known'
  BY <1>1, <1>2 DEF Queueing, Known
<1>5. OwnRequests'
  BY DEF Queueing, OwnRequests, Sends
<1>6. Truthful'
  BY DEF Truthful, Done
<1>7. OlderRecorded'
  BY <1>1, <1>2 DEF Queueing, OlderRecorded, Open
<1>8. OlderFirst' /\ NoChangeLost'
  BY <1>1, <1>2 DEF Queueing, OlderFirst, NoChangeLost
<1>9. MadeInOrder'
  BY <1>1, <1>2 DEF MadeInOrder
<1> QED
  BY <1>3, <1>4, <1>5, <1>6, <1>7, <1>8, <1>9 DEF Queueing

LEMMA ServeKeeps ==
  ASSUME Queueing, NEW r \in PackingRequests, PackingServe(r),
         UNCHANGED deviceVars
  PROVE  Queueing'
<1>1. PICK q : /\ Changed(r, q) /\ q.event = calls[r].event
               /\ \/ UNCHANGED listVars /\ Nearer(r, q)
                  \/ CommitChange(r) /\ q.status = "cleaning"
  BY ServeChanges DEF Queueing, Shape
<1>2. UNCHANGED <<asked, maker, queue, failed, run, retried, dropped>>
  BY DEF deviceVars, PackingServe, Forbid, ReplayChange, Store, Look, CommitChange,
         RefuseChange, Clean, FailChange
<1>3. AreRequests' /\ calls'[r] = q /\ \A x \in PackingRequests \ {r} : calls'[x] = calls[x]
  BY <1>1, ChangedStays DEF Queueing, Shape
<1>4. calls[r].status # "idle"
  BY DEF PackingServe, Forbid, ReplayChange, Store, Look, CommitChange, RefuseChange, Clean, FailChange
<1>5. \A x \in PackingRequests \ {r} : calls[x].status = "idle" => \A d \in Devices : ~Sends(d, x)
  BY DEF Queueing, OwnRequests
<1>6. \A x \in PackingRequests : \A e :
        calls[x].status \in Done /\ e = calls[x].event => Recorded(e) # {}
  BY DEF Queueing, Truthful, Known, Done, Asked
<1>7. CASE UNCHANGED listVars /\ Nearer(r, q)
  <2>1. UNCHANGED log /\ IsSeq(log')
    BY <1>7 DEF listVars, Queueing, Shape
  <2>2. \A e : Recorded(e)' = Recorded(e)
    BY <2>1, LogStays
  <2>3. q.status # "idle" /\ (q.status \in Open => calls[r].status \in Open)
    BY <1>7 DEF Nearer, Refusals, Open
  <2>4. q.status \in Done => Recorded(calls[r].event) # {}
    BY <1>6, <1>7 DEF Nearer, Refusals, Done
  <2>5. \A x \in PackingRequests :
          \/ calls'[x].status = "idle" /\ \A d \in Devices : ~Sends(d, x)
          \/ /\ calls'[x].status # "idle" /\ calls[x].status # "idle"
             /\ calls'[x].event = calls[x].event
             /\ calls'[x].status \in Open => calls[x].status \in Open
             /\ \A e : calls'[x].status \in Done /\ e = calls[x].event => Recorded(e)' # {}
    BY <1>1, <1>3, <1>4, <1>5, <1>6, <2>2, <2>3, <2>4
  <2> QED
    BY <1>2, <1>3, <2>1, <2>5, ServerKeeps
<1>8. CASE CommitChange(r) /\ q.status = "cleaning"
  <2>1. PICK entry : log' = Append(log, entry) /\ entry.event = calls[r].event
    BY <1>8 DEF CommitChange
  <2>2. /\ IsSeq(log')
        /\ Recorded(entry.event)' # {}
        /\ \A e : Recorded(e) # {} => Recorded(e)' # {}
    BY <2>1, RecordedGrows DEF Queueing, Shape
  <2>3. calls[r].status \in Open
    BY <1>8 DEF CommitChange, Open
  <2>4. \A x \in PackingRequests :
          \/ calls'[x].status = "idle" /\ \A d \in Devices : ~Sends(d, x)
          \/ /\ calls'[x].status # "idle" /\ calls[x].status # "idle"
             /\ calls'[x].event = calls[x].event
             /\ calls'[x].status \in Open => calls[x].status \in Open
             /\ \A e : calls'[x].status \in Done /\ e = calls[x].event => Recorded(e)' # {}
    BY <1>1, <1>3, <1>4, <1>5, <1>6, <1>8, <2>1, <2>2, <2>3 DEF Open, Done
  <2> QED
    BY <1>2, <1>3, <2>1, <2>2, <2>3, <2>4, ServerKeeps
<1> QED
  BY <1>1, <1>7, <1>8

LEMMA RestartKeeps ==
  ASSUME Queueing, Restart, UNCHANGED deviceVars
  PROVE  Queueing'
<1>1. UNCHANGED <<asked, log, maker, queue, failed, run, retried, dropped>>
  BY DEF deviceVars, Restart, listVars
<1>2. /\ AreRequests'
      /\ \A r \in PackingRequests :
           \/ calls'[r] = calls[r] /\ calls[r].status = "idle"
           \/ /\ calls[r].status # "idle" /\ calls'[r].status = "error"
              /\ calls'[r].event = calls[r].event
  BY RestartChanges DEF Queueing, Shape
<1>3. \A r \in PackingRequests : calls[r].status = "idle" => \A d \in Devices : ~Sends(d, r)
  BY DEF Queueing, OwnRequests
<1>4. ASSUME NEW r \in PackingRequests
      PROVE  \/ calls'[r].status = "idle" /\ \A d \in Devices : ~Sends(d, r)
             \/ /\ calls'[r].status # "idle" /\ calls[r].status # "idle"
                /\ calls'[r].event = calls[r].event
                /\ calls'[r].status \in Open => calls[r].status \in Open
                /\ \A e : calls'[r].status \in Done /\ e = calls[r].event => Recorded(e)' # {}
  BY <1>2, <1>3 DEF Open, Done
<1>5. IsSeq(log')
  BY <1>1 DEF Queueing, Shape
<1> QED
  BY <1>1, <1>2, <1>4, <1>5, ServerKeeps

LEMMA ForgetKeeps ==
  ASSUME Queueing, NEW r \in PackingRequests, ForgetAnswer(r)
  PROVE  Queueing'
<1>1. UNCHANGED <<asked, log, maker, queue, failed, run, retried, dropped>>
  BY DEF ForgetAnswer, deviceVars, listVars
<1>2. Changed(r, IdleRequest)
  BY FinishChanges DEF ForgetAnswer, Queueing, Shape
<1>3. /\ AreRequests' /\ calls'[r].status = "idle"
      /\ \A x \in PackingRequests \ {r} : calls'[x] = calls[x]
  BY <1>2, ChangedStays, IdleIsRequest DEF Queueing, Shape
<1>4. \A d \in Devices : ~Sends(d, r)
  BY DEF ForgetAnswer, Sends
<1>5. \A x \in PackingRequests : calls[x].status = "idle" => \A d \in Devices : ~Sends(d, x)
  BY DEF Queueing, OwnRequests
<1>6. \A x \in PackingRequests : \A e :
        calls[x].status \in Done /\ e = calls[x].event => Recorded(e)' # {}
  BY <1>1, LogStays DEF Queueing, Truthful, Known, Done, Asked
<1>7. \A x \in PackingRequests :
        \/ calls'[x].status = "idle" /\ \A d \in Devices : ~Sends(d, x)
        \/ /\ calls'[x].status # "idle" /\ calls[x].status # "idle"
           /\ calls'[x].event = calls[x].event
           /\ calls'[x].status \in Open => calls[x].status \in Open
           /\ \A e : calls'[x].status \in Done /\ e = calls[x].event => Recorded(e)' # {}
  BY <1>3, <1>4, <1>5, <1>6
<1>8. IsSeq(log')
  BY <1>1 DEF Queueing, Shape
<1> QED
  BY <1>1, <1>3, <1>7, <1>8, ServerKeeps

\* Somebody else makes a change, which no device will ever send.
LEMMA ElsewhereKeeps ==
  ASSUME Queueing, NEW e \in Changes, Elsewhere(e)
  PROVE  Queueing'
<1>1. PICK c, entry : /\ c # NoChange /\ asked' = [asked EXCEPT ![e] = c]
                      /\ log' = Append(log, entry) /\ entry.event = e
  <2>1. PICK c \in Offered(list) :
          /\ asked' = [asked EXCEPT ![e] = c]
          /\ log' = Append(log, [event |-> e, change |-> c, base |-> generation,
                                 generation |-> generation', list |-> list'])
    BY DEF Elsewhere
  <2>2. PICK g, bags : g = generation' /\ bags = list'
    OBVIOUS
  <2>3. PICK entry : entry = [event |-> e, change |-> c, base |-> generation,
                              generation |-> g, list |-> bags]
    OBVIOUS
  <2>4. log' = Append(log, entry) /\ entry.event = e
    BY <2>1, <2>2, <2>3
  <2> QED
    BY <2>1, <2>4, OfferedIsChange
<1>2. UNCHANGED <<calls, maker, queue, failed, run, retried, dropped>> /\ NextChange(e)
  BY DEF Elsewhere, deviceVars
<1>3. /\ asked' = [f \in Changes |-> asked'[f]]
      /\ Asked' = Asked \cup {e} /\ e \notin Asked
      /\ Numbered'
  BY <1>1, <1>2, NewNumber
<1>4. /\ IsSeq(log')
      /\ Recorded(e)' # {}
      /\ \A f : f # e => Recorded(f)' = Recorded(f)
      /\ \A f : Recorded(f) \subseteq Recorded(f)'
  BY <1>1, RecordedGrows DEF Queueing, Shape
<1>5. Refused' = Refused
  BY <1>2 DEF Refused
<1>6. \A d \in Devices : e \notin maker[d]
  BY <1>3 DEF Queueing, Known
<1>7. Shape' /\ OneMaker' /\ OwnEntries' /\ OwnQueue' /\ OwnRequests'
  BY <1>2, <1>3, <1>4 DEF Queueing, Shape, AreRequests, OneMaker, OwnEntries, OwnQueue, OwnRequests, Sends
<1>8. Known'
  BY <1>2, <1>3, <1>4 DEF Queueing, Known
<1>9. Truthful' /\ OlderRecorded' /\ OlderFirst' /\ NoChangeLost'
  BY <1>2, <1>4, <1>5 DEF Queueing, Truthful, OlderRecorded, OlderFirst, NoChangeLost
<1>10. MadeInOrder'
  BY <1>2, <1>4, <1>5, <1>6 DEF Queueing, MadeInOrder
<1> QED
  BY <1>3, <1>7, <1>8, <1>9, <1>10 DEF Queueing

\* Nothing but what the devices show, or nothing at all.
LEMMA AsideKeeps ==
  ASSUME Queueing, UNCHANGED <<asked, log, calls, maker, queue, failed, run, retried, dropped>>
  PROVE  Queueing'
<1>1. queue' \in [Devices -> SUBSET Changes] /\ Refused' = Refused
  BY DEF Queueing, Shape, Refused
<1> QED
  BY <1>1, ResolveKeeps

LEMMA StepQueueing == Queueing /\ [DevicesNext]_devicesVars => Queueing'
<1> SUFFICES ASSUME Queueing, [DevicesNext]_devicesVars PROVE Queueing'
  OBVIOUS
<1>1. ASSUME NEW d \in Devices, NEW e \in Changes, Mutate(d, e) \/ Retry(d, e) \/ Dismiss(d, e)
      PROVE  Queueing'
  BY <1>1, MutateKeeps, RetryKeeps, DismissKeeps
<1>2. ASSUME NEW d \in Devices, StartRun(d) \/ Running(d) \/ ClosePage(d)
      PROVE  Queueing'
  BY <1>2, StartKeeps, TransmitKeeps, AnsweredKeeps, LostKeeps, FetchKeeps, LayKeeps, EndKeeps
     DEF Running, FetchRows, FetchFails
<1>3. ASSUME NEW d \in Devices, Connection(d)
      PROVE  Queueing'
  BY <1>3, AsideKeeps DEF Connection, packingVars, listVars, deviceVars
<1>4. ASSUME NEW e \in Changes, Elsewhere(e)
      PROVE  Queueing'
  BY <1>4, ElsewhereKeeps
<1>5. ASSUME NEW r \in PackingRequests, ForgetAnswer(r)
      PROVE  Queueing'
  BY <1>5, ForgetKeeps
<1>6. CASE Answering
  BY <1>6, RestartKeeps, ServeKeeps DEF Answering
<1>7. CASE UNCHANGED devicesVars
  BY <1>7, AsideKeeps DEF devicesVars, packingVars, listVars, deviceVars
<1> QED
  BY <1>1, <1>2, <1>3, <1>4, <1>5, <1>6, <1>7 DEF DevicesNext

\* Through lost answers, restarts, closed pages and overlapping deliveries, what
\* somebody changed is in the log, still queued, or was given up before his eyes.
THEOREM NothingDisappears == DevicesSpec => []NoChangeLost
<1>1. Queueing => NoChangeLost
  BY DEF Queueing
<1> QED
  BY <1>1, DevicesStart, StepQueueing, PTL DEF DevicesSpec

\* Whatever deliveries are on their way, no change overtakes an older one of its
\* device that was not refused.
THEOREM NothingOvertakes == DevicesSpec => []MadeInOrder
<1>1. Queueing => MadeInOrder
  BY DEF Queueing
<1> QED
  BY <1>1, DevicesStart, StepQueueing, PTL DEF DevicesSpec
=============================================================================
