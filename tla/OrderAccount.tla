---------------------------- MODULE OrderAccount ----------------------------
(***************************************************************************)
(* What the handling of an order promises about money, whoever handles it. *)
(* Each order has an account, which holds what the customer has paid and   *)
(* not got back, and a number of claims: rights to one refund.  The charge *)
(* at creation gives the first claim.  A claim is used once, to pay at     *)
(* most one charge, or lost; a new one comes only with a new charge.       *)
(***************************************************************************)
EXTENDS Integers

CONSTANTS Orders, Charge

VARIABLES
  held,     \* the money held for each order
  claims    \* the refunds each order may still give rise to

vars == <<held, claims>>

Init ==
  /\ held = [o \in Orders |-> Charge]
  /\ claims = [o \in Orders |-> 1]

\* One claim is turned into a refund, in full or in part.
Pay(o) ==
  /\ claims[o] > 0
  /\ claims' = [claims EXCEPT ![o] = @ - 1]
  /\ \E n \in 0 .. Charge : held' = [held EXCEPT ![o] = @ - n]

\* The order is charged again, with or without a new claim.
Recharge(o) ==
  /\ held' = [held EXCEPT ![o] = @ + Charge]
  /\ \E n \in {0, 1} : claims' = [claims EXCEPT ![o] = @ + n]

\* Claims are lost without being paid.
Forfeit ==
  /\ held' = held
  /\ claims' \in [Orders -> Nat]
  /\ \A o \in Orders : claims'[o] <= claims[o]

Next == (\E o \in Orders : Pay(o) \/ Recharge(o)) \/ Forfeit

Spec == Init /\ [][Next]_vars

\* Each claim is covered by a charge that is still held.
Backed ==
  /\ held \in [Orders -> Int]
  /\ claims \in [Orders -> Nat]
  /\ \A o \in Orders : held[o] >= Charge * claims[o]
=============================================================================
