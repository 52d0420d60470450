---------------------------- MODULE Registration ----------------------------
(***************************************************************************)
(* Onboarding of a band: a public request, the system administrators'      *)
(* decision, which creates the band and its first administrator, the one   *)
(* handover of the setup code, and expiry, by the job or by a look at the  *)
(* status.  Decisions and the handover lock the request's row; the lazy    *)
(* expiry writes by id what it decided from an unlocked read.              *)
(***************************************************************************)
EXTENDS Naturals, FiniteSets

CONSTANTS
  Applications, \* requests for a band
  Calls,        \* slots for calls of administrators and applicants
  Slugs,        \* login names a band can have
  PendingTTL,   \* pendingTTL, in ticks
  DecisionTTL,  \* decisionTTL and the setup code's lifetime, the shorter of them
  MaxDay        \* bound: the clock

ASSUME RegistrationAssumption == PendingTTL \in Nat /\ DecisionTTL \in Nat /\ MaxDay \in Nat

VARIABLES
  applications, \* band_registration_requests
  founded,      \* the bands made for requests, with their administrators: <<slug, request>>
  call,         \* the calls being served
  day,
  handed         \* history: how often a setup code was handed to a request's applicant

registrationVars == <<applications, founded, call, day, handed>>

NoApplication == [status |-> "none", slug |-> "", expires |-> 0, code |-> FALSE, claimed |-> FALSE]
IdleCall == [op |-> "none", on |-> "none", stage |-> "idle"]
Operations == {"approve", "reject", "claim", "status"}
Elapsed(q) == day >= applications[q].expires

\* EnsureSlugAvailable is asked at the request, and only then.
Apply(q, slug) ==
  /\ applications[q].status = "none"
  /\ \A band \in founded : band[1] # slug
  /\ applications' = [applications EXCEPT ![q] =
       [NoApplication EXCEPT !.status = "pending", !.slug = slug, !.expires = day + PendingTTL]]
  /\ UNCHANGED <<founded, call, day, handed>>

Call(c, op, q) ==
  /\ call[c].stage = "idle"
  /\ applications[q].status # "none"
  /\ call' = [call EXCEPT ![c] = [op |-> op, on |-> q, stage |-> "called"]]
  /\ UNCHANGED <<applications, founded, day, handed>>

Done(c) == call' = [call EXCEPT ![c] = IdleCall]

\* Fault: the row is read without FOR UPDATE.
ReadUnlocked(c) == TRUE

\* Whoever holds the row's lock keeps it to the commit.
RowFree(c) == \A d \in Calls \ {c} : call[d].on = call[c].on => call[d].stage # "locked"

\* Approve and Reject want a pending request, Claim an approved one with a code.
Allowed(c) ==
  LET q == call[c].on
  IN  /\ ~Elapsed(q)
      /\ IF call[c].op = "claim"
         THEN applications[q].status = "approved" /\ ~applications[q].claimed /\ applications[q].code
         ELSE applications[q].status = "pending"

LockRow(c) ==
  /\ call[c].stage = "called" /\ call[c].op # "status"
  /\ RowFree(c)
  /\ IF Allowed(c) THEN call' = [call EXCEPT ![c].stage = "locked"] ELSE Done(c)
  /\ UNCHANGED <<applications, founded, day, handed>>

\* Approve: band, administrator and request in one transaction; a slug that was
\* taken meanwhile fails it, unless the administrator chose another.
Approve(c, slug) ==
  LET q == call[c].on
  IN  /\ call[c].stage = "locked" /\ call[c].op = "approve"
      /\ IF \E band \in founded : band[1] = slug
         THEN UNCHANGED <<applications, founded>>
         ELSE /\ founded' = founded \cup {<<slug, q>>}
              /\ applications' = [applications EXCEPT ![q].status = "approved", ![q].slug = slug,
                                    ![q].code = TRUE, ![q].expires = day + DecisionTTL]
      /\ Done(c) /\ UNCHANGED <<day, handed>>

Reject(c) ==
  /\ call[c].stage = "locked" /\ call[c].op = "reject"
  /\ applications' = [applications EXCEPT ![call[c].on].status = "rejected", ![call[c].on].expires = day + DecisionTTL]
  /\ Done(c) /\ UNCHANGED <<founded, day, handed>>

\* Claim consumes the code; whether the answer arrives is another matter.
Claim(c) ==
  LET q == call[c].on
  IN  /\ call[c].stage = "locked" /\ call[c].op = "claim"
      /\ applications' = [applications EXCEPT ![q].claimed = TRUE, ![q].code = FALSE]
      /\ handed' = [handed EXCEPT ![q] = @ + 1]
      /\ Done(c) /\ UNCHANGED <<founded, day>>

\* ROLLBACK: an error, or the server stops.
GiveUp(c) ==
  /\ call[c].stage = "locked"
  /\ Done(c) /\ UNCHANGED <<applications, founded, day, handed>>

\* Status reads without a lock, and expires by id what it found overdue.
LookUp(c) ==
  /\ call[c].stage = "called" /\ call[c].op = "status"
  /\ IF applications[call[c].on].status # "expired" /\ Elapsed(call[c].on)
     THEN call' = [call EXCEPT ![c].stage = "overdue"] ELSE Done(c)
  /\ UNCHANGED <<applications, founded, day, handed>>

Closed(row) == [row EXCEPT !.status = "expired", !.code = FALSE]

ExpireOne(c) ==
  /\ call[c].stage = "overdue" /\ RowFree(c)
  /\ applications' = [applications EXCEPT ![call[c].on] = Closed(@)]
  /\ Done(c) /\ UNCHANGED <<founded, day, handed>>

\* Expire, by the housekeeping job and before every list: one statement.
Expire ==
  /\ \E q \in Applications : applications[q].status \notin {"none", "expired"} /\ Elapsed(q)
  /\ \A c \in Calls : call[c].stage # "locked"
  /\ applications' = [q \in Applications |->
       IF applications[q].status # "none" /\ Elapsed(q) THEN Closed(applications[q]) ELSE applications[q]]
  /\ UNCHANGED <<founded, call, day, handed>>

NextDay == day < MaxDay /\ day' = day + 1 /\ UNCHANGED <<applications, founded, call, handed>>

RegistrationInit ==
  /\ applications = [q \in Applications |-> NoApplication]
  /\ founded = {} /\ call = [c \in Calls |-> IdleCall] /\ day = 0
  /\ handed = [q \in Applications |-> 0]

RegistrationNext ==
  \/ \E q \in Applications, slug \in Slugs : Apply(q, slug)
  \/ \E c \in Calls :
       \/ \E op \in Operations, q \in Applications : Call(c, op, q)
       \/ LockRow(c) \/ Reject(c) \/ Claim(c) \/ GiveUp(c) \/ LookUp(c) \/ ExpireOne(c)
       \/ \E slug \in Slugs : Approve(c, slug)
  \/ Expire \/ NextDay

RegistrationSpec == RegistrationInit /\ [][RegistrationNext]_registrationVars

-----------------------------------------------------------------------------
(* Properties.                                                              *)

\* However decisions, claims, status checks and expiry meet: a request founds at
\* most one band, no two bands share a slug, a rejected request founds none, and
\* the setup code is handed out at most once, to an applicant who has a band, and
\* is not kept once it was handed out or the request is closed.
Handover ==
  /\ \A b1, b2 \in founded : b1[1] = b2[1] \/ b1[2] = b2[2] => b1 = b2
  /\ \A q \in Applications :
       LET hasBand == \E band \in founded : band[2] = q
       IN  /\ applications[q].status = "approved" => hasBand
           /\ applications[q].status \in {"pending", "rejected"} => ~hasBand
           /\ handed[q] <= 1 /\ (handed[q] = 1 => hasBand /\ applications[q].claimed)
           /\ applications[q].code => applications[q].status = "approved" /\ handed[q] = 0
=============================================================================
