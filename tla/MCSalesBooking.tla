--------------------------- MODULE MCSalesBooking ---------------------------
(* Small instances of SalesBooking for TLC. *)
EXTENDS SalesBooking, TLC

Symmetry == Permutations(Requests) \cup Permutations(Events) \cup Permutations(Tokens)

\* The steps of one day.
DayNext ==
  \/ \E r \in Requests : Receive(r) \/ Serve(r) \/ Finish(r)
  \/ \E token \in Tokens : CancelIntent(token) \/ Expire(token)
  \/ PurgeExpired

DaySpec == Init /\ [][DayNext]_vars
=============================================================================
