------------------------------- MODULE Money --------------------------------
(***************************************************************************)
(* The cent arithmetic of a basket: one amount is split over the positions *)
(* of a receipt in proportion to what they cost (money.Distribute).        *)
(***************************************************************************)
EXTENDS Integers, Sequences, FiniteSets, Functions

SumOf(f) == SumFunctionOnSet(f, DOMAIN f)

\* Fault: the cents lost to rounding are not handed out.
DistributeTruncated(total, weights) ==
  LET sum == SumOf(weights)
  IN  [i \in DOMAIN weights |->
         IF sum = 0 THEN (IF i = 1 THEN total ELSE 0) ELSE (total * weights[i]) \div sum]

\* Every position gets its share rounded down, the cents that are left go to the
\* positions with a weight from left to right, round after round.  Without any
\* weight the first position takes everything.  Weights are not negative.
Distribute(total, weights) ==
  LET sum      == SumOf(weights)
      positive == {i \in DOMAIN weights : weights[i] > 0}
      turn(i)  == Cardinality({j \in positive : j < i})
      floor    == [i \in DOMAIN weights |-> (total * weights[i]) \div sum]
      rest     == total - SumOf(floor)
      extra(i) == Cardinality({k \in 0..(rest - 1) : k % Cardinality(positive) = turn(i)})
  IN  IF total <= 0
      THEN [i \in DOMAIN weights |-> 0]
      ELSE IF sum = 0
           THEN [i \in DOMAIN weights |-> IF i = 1 THEN total ELSE 0]
           ELSE [i \in DOMAIN weights |->
                   floor[i] + (IF i \in positive THEN extra(i) ELSE 0)]

\* What the customer hands over against the total due: the discount granted.
Discount(total, given) == IF given < total THEN total - given ELSE 0

\* ... and the donation on top.
Donation(total, given) == IF given > total THEN given - total ELSE 0
=============================================================================
