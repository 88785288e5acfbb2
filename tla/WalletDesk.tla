----------------------------- MODULE WalletDesk -----------------------------
(***************************************************************************)
(* The wallet of the customer: the administrator's adjustments, which read *)
(* the document, compute, and $set what they computed; purchases, refunds  *)
(* and forced debits of orders, which change the balance in place.         *)
(***************************************************************************)
EXTENDS Desk

Least(a, b) == IF a <= b THEN a ELSE b

(* What an adjustment makes of the document it read: balance and creditUsed *)

\* addFunds: a top-up repays the credit of a wallet in debt.
Added(u, a) ==
  [balance |-> u.balance + a,
   used |-> u.used - IF u.used > 0 /\ u.balance < 0 THEN Least(a, u.used) ELSE 0]

\* Mutant: credit drawn before is available again.
WholeCredit(u) == Limit

AvailableCredit(u) == Limit - u.used

\* deductFunds draws on the credit for what the balance does not cover.
Deducted(u, a) ==
  LET after == u.balance - a IN
  [balance |-> after,
   used |-> u.used + IF after < 0 THEN Least(-after, AvailableCredit(u)) ELSE 0]

\* setBalance and the debt adjustments rebuild creditUsed from the new balance.
AtBalance(b) == [balance |-> b, used |-> IF b < 0 THEN Least(-b, Limit) ELSE 0]

\* The check of deductFunds.
Allowed(u, a) == a <= u.balance + AvailableCredit(u)

StartAdjustment(s, op, a) ==
  /\ op = "deduct" => Allowed(user, a)
  /\ Begin(s, [op |-> op, pc |-> "write", arg |-> a, saw |-> user])
  /\ UNCHANGED <<user, ledger, ticket, local, cached, mishaps>>

Adjusted(j) == CASE j.op = "add"    -> Added(j.saw, j.arg)
                 [] j.op = "deduct" -> Deducted(j.saw, j.arg)
                 [] j.op \in {"set", "debt"} -> AtBalance(j.arg)

\* findByIdAndUpdate with $set; the row will tell the difference to what was read.
WriteAdjustment(s) ==
  /\ job[s].op \in {"add", "deduct", "set", "debt"} /\ job[s].pc = "write"
  /\ LET new == Adjusted(job[s]) IN
       /\ user' = [user EXCEPT !.balance = new.balance, !.used = new.used]
       /\ job' = [job EXCEPT ![s].pc = "row", ![s].amount = new.balance - job[s].saw.balance]
  /\ mishaps' = IF user.balance = job[s].saw.balance THEN mishaps ELSE mishaps \cup {"stale"}
  /\ UNCHANGED <<ledger, ticket, local, cached, begun>>

-----------------------------------------------------------------------------
(* Orders: the module Purchase looks inside *)

\* debitWalletAtomic: creditUsed is left alone, though the order records how much
\* of its price the balance did not cover.
Charge(s, a) ==
  /\ user.balance - a >= -Limit
  /\ Begin(s, [op |-> "charge", pc |-> "row", amount |-> -a])
  /\ user' = [user EXCEPT !.balance = @ - a]
  /\ UNCHANGED <<ledger, ticket, local, cached, mishaps>>

\* refundWalletAtomic, of what an order took; credit is what the order recorded,
\* 0 for a partial refund.
Refund(s, a, credit) ==
  /\ Begin(s, [op |-> "refund", pc |-> "row", amount |-> a])
  /\ user' = [user EXCEPT !.balance = @ + a, !.used = @ - Least(credit, @)]
  /\ UNCHANGED <<ledger, ticket, local, cached, mishaps>>

\* forcedDebitWallet: reads the balance for its row only, then decrements.
StartForcedDebit(s, a) ==
  /\ Begin(s, [op |-> "force", pc |-> "write", amount |-> -a, saw |-> user])
  /\ UNCHANGED <<user, ledger, ticket, local, cached, mishaps>>

\* Mutant: the balance read before is what the decrement starts from.
ForcedFrom(j) == j.saw.balance + j.amount

\* $inc.
Forced(j) == user.balance + j.amount

WriteForcedDebit(s) ==
  /\ At(s, "force", "write")
  /\ user' = [user EXCEPT !.balance = Forced(job[s])]
  /\ Goto(s, "row")
  /\ UNCHANGED <<ledger, ticket, local, cached, begun, mishaps>>

-----------------------------------------------------------------------------
WalletStep(s) ==
  \/ \E a \in Amounts, op \in {"add", "deduct"} : StartAdjustment(s, op, a)
  \/ \E a \in Amounts \cup {-b : b \in Amounts} \cup {0} : StartAdjustment(s, "set", a)
  \/ WriteAdjustment(s)
  \/ \E a \in Amounts : Charge(s, a) \/ StartForcedDebit(s, a)
  \/ \E a \in Amounts, credit \in 0..Limit : credit <= a /\ Refund(s, a, credit)
  \/ WriteForcedDebit(s)
=============================================================================
