----------------------------- MODULE MCSchedules -----------------------------
(***************************************************************************)
(* Two components whose promises rest on the scheduler: the practice mode  *)
(* and recurring finances.  They share no state, so each behaviour follows *)
(* one of them ("part") and leaves the other at its start.                 *)
(***************************************************************************)
EXTENDS Sandbox, Finance

VARIABLE part

Follow(p) == part = p /\ UNCHANGED part

SchedulesInit == part \in {"sandbox", "finance"} /\ SandboxInit /\ FinanceInit

SchedulesNext ==
  \/ Follow("sandbox") /\ SandboxNext /\ UNCHANGED financeVars
  \/ Follow("finance") /\ FinanceNext /\ UNCHANGED sandboxVars

\* The fairness of the part that is followed; the daily job and the housekeeping
\* are one condition.
SchedulesFairness ==
  /\ WF_<<part, sandboxVars, financeVars>>(
       \/ Follow("sandbox") /\ Purging /\ UNCHANGED financeVars
       \/ Follow("finance") /\ RecurringBandFinances /\ UNCHANGED sandboxVars)
  /\ WF_<<part, sandboxVars, financeVars>>(Follow("finance") /\ PassDay /\ UNCHANGED sandboxVars)
  /\ WF_<<part, sandboxVars, financeVars>>(
       Follow("finance") /\ UNCHANGED sandboxVars /\ \E r \in Rules : Materialize(Scheduler, r))

SchedulesSpec ==
  SchedulesInit /\ [][SchedulesNext]_<<part, sandboxVars, financeVars>> /\ SchedulesFairness
=============================================================================
