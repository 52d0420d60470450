----------------------------- MODULE BookedOnce -----------------------------
(***************************************************************************)
(* What the booking API promises a device that retries: an event enters    *)
(* the ledger at most once, and what entered stays.                        *)
(***************************************************************************)
CONSTANT Events     \* client event ids

VARIABLE booked     \* the ledger entries of every event

Init == booked = [e \in Events |-> {}]

Book(e) ==
  /\ booked[e] = {}
  /\ \E entry \in booked'[e] : booked' = [booked EXCEPT ![e] = {entry}]

Next == \E e \in Events : Book(e)

Spec == Init /\ [][Next]_booked
=============================================================================
