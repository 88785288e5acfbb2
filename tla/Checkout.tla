------------------------------ MODULE Checkout ------------------------------
(***************************************************************************)
(* What buying promises, however it is carried out: a request either buys, *)
(* which takes its price and makes its order in one step, or it does not.  *)
(* Two orders never share an idempotency key.  Only a server that works    *)
(* without transactions may take money and make no order, and only in an   *)
(* accident.                                                               *)
(***************************************************************************)
EXTENDS Naturals

CONSTANTS
  Requests,   \* the requests
  NoKey,      \* a request without an idempotency key
  Amounts     \* the prices

VARIABLES
  key,        \* the idempotency key of each request
  safe,       \* the server has transactions
  accident,   \* something has failed or crashed
  spent,      \* the money each request has cost
  bought      \* the requests that have an order

vars == <<key, safe, accident, spent, bought>>

Init ==
  /\ safe \in BOOLEAN
  /\ accident = FALSE
  /\ spent = [r \in Requests |-> 0]
  /\ bought = {}

\* No order with this key exists.
Fresh(r) == key[r] = NoKey \/ \A q \in bought : key[q] # key[r]

Buy(r) ==
  /\ r \notin bought
  /\ spent[r] = 0
  /\ Fresh(r)
  /\ bought' = bought \cup {r}
  /\ \E c \in Amounts : spent' = [spent EXCEPT ![r] = c]

\* Requests under way lose their money.
Lose ==
  /\ ~safe
  /\ accident'
  /\ bought' = bought
  /\ spent' \in [Requests -> Amounts \cup {0}]
  /\ \A r \in Requests : spent'[r] # spent[r] => r \notin bought /\ spent[r] = 0

Accident == accident' = TRUE /\ UNCHANGED <<spent, bought>>

Next ==
  /\ UNCHANGED <<key, safe>>
  /\ accident => accident'
  /\ \/ \E r \in Requests : Buy(r)
     \/ Lose
     \/ Accident

Spec == Init /\ [][Next]_vars
=============================================================================
