------------------------------- MODULE Finance -------------------------------
(***************************************************************************)
(* The band's ledger and its recurring entries.  A rule falls due on the   *)
(* days of its schedule; every page of the finances and the scheduler       *)
(* catch the rules up, one transaction a rule, under the lock of its row.   *)
(* Pausing and resuming a rule reads it and writes it back without a lock. *)
(***************************************************************************)
EXTENDS Integers, Sequences, FiniteSets

CONSTANTS
  Rules,      \* ids of rules, each given out once
  NoRule,     \* an entry made by hand
  Pages,      \* slots for requests of the pages, served at the same time
  Scheduler,  \* the daily job
  Starts,     \* days a rule may start on
  Interval,   \* days between two occurrences of a rule
  Limit,      \* occurrences one catch-up of a rule may make
  MaxDay,     \* bound: days
  MaxManual,  \* bound: entries made by hand, and changes of entries
  MaxStops    \* bound: stops of the process

ASSUME FinanceAssumption ==
  /\ NoRule \notin Rules /\ Scheduler \notin Pages
  /\ MaxDay \in Nat /\ Starts \subseteq 0..MaxDay
  /\ Interval \in Nat \ {0} /\ Limit \in Nat \ {0} /\ MaxManual \in Nat /\ MaxStops \in Nat

VARIABLES
  rules,    \* table recurring_band_transactions
  booked,   \* table recurring_band_transaction_runs: rule and occurrence
  entries,  \* table band_transactions in order of id; "for" is an observation
  call,     \* what each request and the job is doing
  day,
  skipped,  \* occurrences a resumption passed over (observation)
  changes,  \* entries and changes made by hand
  stops

financeVars == <<rules, booked, entries, call, day, skipped, changes, stops>>

Days == 0..MaxDay
Workers == Pages \cup {Scheduler}
NoRecurring == [status |-> "none", active |-> FALSE, start |-> 0, next |-> 0]
AtEase == [step |-> "idle", rule |-> NoRule, active |-> FALSE, next |-> 0, left |-> {}, through |-> 0]

Kept(r) == rules[r].status = "kept"
Work(c, what) == call' = [call EXCEPT ![c] = what]

\* nextOccurrence from the day "next" on, up to the first day that is not before d.
FirstFrom(next, d) ==
  IF next >= d THEN next ELSE next + Interval * ((d - next + Interval - 1) \div Interval)
Occurrences(first, last) == {d \in first..last : (d - first) % Interval = 0}

-----------------------------------------------------------------------------
(* Entries made by hand.  Each change is one transaction under the lock of   *)
(* the entry's row.                                                         *)

Entry(rule, d) == [for |-> <<rule, d>>, on |-> d, settled |-> FALSE, cancelled |-> FALSE]
ByHand == changes < MaxManual /\ changes' = changes + 1
Ledger(next) == entries' = next /\ UNCHANGED <<rules, booked, call, day, skipped, stops>>

CreateEntry == ByHand /\ Ledger(Append(entries, Entry(NoRule, day)))

\* Only an open entry is changed: its day may be any other.
Update(i, d) ==
  /\ ByHand
  /\ ~entries[i].cancelled /\ ~entries[i].settled
  /\ Ledger([entries EXCEPT ![i].on = d])

Settle(i) ==
  /\ ByHand
  /\ ~entries[i].cancelled /\ ~entries[i].settled
  /\ Ledger([entries EXCEPT ![i].settled = TRUE])

Cancel(i) == ByHand /\ ~entries[i].cancelled /\ Ledger([entries EXCEPT ![i].cancelled = TRUE])

-----------------------------------------------------------------------------
(* Catching up.                                                             *)

\* Fault: only the rules of the day are found.
RulesOfDay(through) == {r \in Rules : Kept(r) /\ rules[r].active /\ rules[r].next = through}
DueRules(through) == {r \in Rules : Kept(r) /\ rules[r].active /\ rules[r].next <= through}

\* MaterializeDueForBand and MaterializeDueAll list the rules that are due, then
\* take one after the other (in any order here).
ListDue(c, through) ==
  LET due == DueRules(through)
  IN  Work(c, IF due = {} THEN AtEase
                          ELSE [AtEase EXCEPT !.step = "book", !.left = due, !.through = through])

\* A page is opened.
OpenPage(c) ==
  /\ c \in Pages /\ call[c].step = "idle"
  /\ ListDue(c, day)
  /\ UNCHANGED <<rules, booked, entries, day, skipped, changes, stops>>

\* The rest of a request that created or resumed a rule.
CatchUp(c) ==
  /\ call[c].step = "list"
  /\ ListDue(c, day)
  /\ UNCHANGED <<rules, booked, entries, day, skipped, changes, stops>>

\* The job counts days in UTC: it may be a day behind the pages.
RecurringBandFinances ==
  /\ call[Scheduler].step = "idle"
  /\ \E today \in {day - 1, day} : ListDue(Scheduler, today)
  /\ UNCHANGED <<rules, booked, entries, day, skipped, changes, stops>>

\* What a catch-up of the rule has to book, and whether it is too much: the run
\* ledger says what was booked already.
DueDays(r, through) == Occurrences(rules[r].next, through)

\* Faults: the ledger of entries is asked instead; only the last day is booked.
MissingOnDay(r, through) ==
  {d \in DueDays(r, through) : ~\E i \in DOMAIN entries : entries[i].for[1] = r /\ entries[i].on = d}
MissingToday(r, through) == {d \in DueDays(r, through) : <<r, d>> \notin booked /\ d = through}

Missing(r, through) == {d \in DueDays(r, through) : <<r, d>> \notin booked}
TooMany(r, through) ==
  \E d \in DueDays(r, through) : Cardinality({e \in Missing(r, through) : e < d}) >= Limit

\* A set of days one after the other.
Ascending(days) ==
  {s \in [1..Cardinality(days) -> days] :
     /\ {s[i] : i \in DOMAIN s} = days
     /\ \A i, j \in DOMAIN s : i < j => s[i] < s[j]}

\* The rules that are left, unless this one cannot be booked: an error ends the pass.
Onward(c, r) ==
  IF call[c].left = {r} THEN AtEase ELSE [call[c] EXCEPT !.left = @ \ {r}]

Materialize(c, r) ==
  LET through == call[c].through
  IN  /\ call[c].step = "book" /\ r \in call[c].left
      /\ IF ~Kept(r) \/ ~rules[r].active
         THEN UNCHANGED <<rules, booked, entries>> /\ Work(c, Onward(c, r))
         ELSE IF TooMany(r, through)
         THEN UNCHANGED <<rules, booked, entries>> /\ Work(c, AtEase)
         ELSE /\ \E days \in Ascending(Missing(r, through)) :
                   entries' = entries \o [i \in DOMAIN days |-> Entry(r, days[i])]
              /\ booked' = booked \cup {<<r, d>> : d \in Missing(r, through)}
              /\ rules' = [rules EXCEPT ![r].next = FirstFrom(@, through + 1)]
              /\ Work(c, Onward(c, r))
      /\ UNCHANGED <<day, skipped, changes, stops>>

-----------------------------------------------------------------------------
(* Rules.                                                                   *)

\* The rule is stored, then the band is caught up.
CreateRecurring(c, r, start) ==
  /\ c \in Pages /\ call[c].step = "idle"
  /\ rules[r].status = "none"
  /\ rules' = [rules EXCEPT ![r] = [status |-> "kept", active |-> TRUE, start |-> start, next |-> start]]
  /\ Work(c, [AtEase EXCEPT !.step = "list"])
  /\ UNCHANGED <<booked, entries, day, skipped, changes, stops>>

\* SetRecurringActive reads the rule ...
ReadRule(c, r, active) ==
  /\ c \in Pages /\ call[c].step = "idle"
  /\ Kept(r)
  /\ Work(c, [AtEase EXCEPT !.step = "set", !.rule = r, !.active = active, !.next = rules[r].next])
  /\ UNCHANGED <<rules, booked, entries, day, skipped, changes, stops>>

\* ... and writes it by its id, the day it goes on with worked out from the read.
\* A resumed rule passes over what has elapsed; then the band is caught up.
SetRecurringActive(c) ==
  LET q == call[c]
      next == IF q.active THEN FirstFrom(q.next, day) ELSE q.next
  IN  /\ q.step = "set"
      /\ rules' = IF Kept(q.rule)
                  THEN [rules EXCEPT ![q.rule].active = q.active, ![q.rule].next = next]
                  ELSE rules
      /\ skipped' = skipped \cup {<<q.rule, d>> : d \in Occurrences(q.next, next - 1)}
      /\ Work(c, [AtEase EXCEPT !.step = IF q.active THEN "list" ELSE "idle"])
      /\ UNCHANGED <<booked, entries, day, changes, stops>>

\* The run ledger goes with the rule, the entries stay.
DeleteRecurring(r) ==
  /\ Kept(r)
  /\ rules' = [rules EXCEPT ![r] = [NoRecurring EXCEPT !.status = "gone"]]
  /\ booked' = {b \in booked : b[1] # r}
  /\ UNCHANGED <<entries, call, day, skipped, changes, stops>>

-----------------------------------------------------------------------------
PassDay ==
  /\ day < MaxDay /\ day' = day + 1
  /\ UNCHANGED <<rules, booked, entries, call, skipped, changes, stops>>

\* The process stops: requests and the job end where they are.
StopFinance ==
  /\ stops < MaxStops /\ stops' = stops + 1
  /\ call' = [c \in Workers |-> AtEase]
  /\ UNCHANGED <<rules, booked, entries, day, skipped, changes>>

FinanceInit ==
  /\ rules = [r \in Rules |-> NoRecurring] /\ booked = {} /\ entries = <<>>
  /\ call = [c \in Workers |-> AtEase]
  /\ day = 0 /\ skipped = {} /\ changes = 0 /\ stops = 0

Asked(c) ==
  \/ OpenPage(c) \/ CatchUp(c) \/ SetRecurringActive(c)
  \/ \E r \in Rules : Materialize(c, r)
  \/ \E r \in Rules, start \in Starts : CreateRecurring(c, r, start)
  \/ \E r \in Rules, active \in BOOLEAN : ReadRule(c, r, active)

FinanceNext ==
  \/ \E c \in Workers : Asked(c)
  \/ RecurringBandFinances
  \/ \E r \in Rules : DeleteRecurring(r)
  \/ CreateEntry
  \/ \E i \in DOMAIN entries : Settle(i) \/ Cancel(i) \/ \E d \in Days : Update(i, d)
  \/ PassDay \/ StopFinance

FinanceSpec == FinanceInit /\ [][FinanceNext]_financeVars

\* Days pass, the job runs every day and at every start, and goes through its list.
FinanceFairness ==
  /\ WF_financeVars(PassDay)
  /\ WF_financeVars(RecurringBandFinances)
  /\ WF_financeVars(\E r \in Rules : Materialize(Scheduler, r))

-----------------------------------------------------------------------------
(* Properties.                                                              *)

\* No occurrence of a rule is entered twice, whoever catches up, pauses, resumes
\* or deletes at the same time, and whatever is done to the entries since.
EnteredOnce ==
  \A i, j \in DOMAIN entries :
    entries[i].for = entries[j].for /\ entries[i].for[1] # NoRule => i = j

\* A rule goes on only past days that were booked, unless a resumption passed
\* over them: none is lost to a stale write, a stop or a failed catch-up.
NothingPassedOver ==
  \A r \in Rules : Kept(r) =>
    \A d \in Occurrences(rules[r].start, rules[r].next - 1) :
      /\ <<r, d>> \in booked \cup skipped
      /\ <<r, d>> \in booked => \E i \in DOMAIN entries : entries[i].for = <<r, d>>

\* What is due is booked without anybody opening a page, unless its rule is
\* paused or deleted first or the day is passed over by a resumption.
DueIsBooked ==
  \A r \in Rules, d \in 0..(MaxDay - 1) :
    (Kept(r) /\ rules[r].active /\ d \in Occurrences(rules[r].start, day - 1))
      ~> (~Kept(r) \/ ~rules[r].active \/ <<r, d>> \in booked \cup skipped)
=============================================================================
