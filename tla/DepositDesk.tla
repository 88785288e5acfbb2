---------------------------- MODULE DepositDesk -----------------------------
(***************************************************************************)
(* Deposit requests and target orders: submitted by the customer, reviewed *)
(* by the back office.  Approving a deposit credits the wallet, after a    *)
(* conversion when the money came in another currency.                     *)
(***************************************************************************)
EXTENDS Desk

\* The currency document exists and is active.
Usable == IF local = None THEN FALSE ELSE local.active

\* createDeposit and createDepositRequest: the currency must be active.
SubmitDeposit(d, amount, code) ==
  /\ ticket[d].status = "ABSENT"
  /\ code = "USD" \/ Usable
  /\ ticket' = [ticket EXCEPT ![d] = [status |-> "PENDING", amount |-> amount, code |-> code]]
  /\ UNCHANGED <<user, ledger, local, cached, job, begun, mishaps>>

\* createTargetOrder: amount is the total price, by the unit price of the moment.
SubmitTarget(t, amount) ==
  /\ ticket[t].status = "ABSENT"
  /\ ticket' = [ticket EXCEPT ![t] = [status |-> "PENDING", amount |-> amount, code |-> "USD"]]
  /\ UNCHANGED <<user, ledger, local, cached, job, begun, mishaps>>

Pending(t) == ticket[t].status = "PENDING"
OnlyJobs == UNCHANGED <<user, ledger, ticket, local, cached, mishaps>>

(* Approving a deposit *)

\* What is credited is fixed here: the amount and currency of the administrator,
\* else those of the copy just read.  arg and saw keep what was overridden.
StartApproval(s, d, amount, code) ==
  /\ Pending(d)
  /\ Begin(s, [op |-> "approve", pc |-> "swap", ref |-> d,
               arg |-> amount, saw |-> code,
               amount |-> IF amount = 0 THEN ticket[d].amount ELSE amount,
               code |-> IF code = None THEN ticket[d].code ELSE code])
  /\ OnlyJobs

\* Mutant: the approval does not ask for PENDING again.
SwappableAlways(t) == TRUE

\* findOneAndUpdate({_id, status: PENDING}): who comes second changes nothing.
Swappable(t) == Pending(t)

SwapToApproved(s) ==
  /\ At(s, "approve", "swap")
  /\ LET d == job[s].ref IN
     IF Swappable(d)
       THEN /\ ticket' = [ticket EXCEPT
                 ![d].status = "APPROVED",
                 ![d].amount = IF job[s].arg = 0 THEN @ ELSE job[s].amount,
                 ![d].code = IF job[s].saw = None THEN @ ELSE job[s].code]
            /\ Goto(s, "owner")
       ELSE Finish(s) /\ UNCHANGED ticket
  /\ UNCHANGED <<user, ledger, local, cached, begun, mishaps>>

\* The wallet's currency is read once and kept until the credit.
ReadOwner(s) ==
  /\ At(s, "approve", "owner")
  /\ Goto(s, IF job[s].code = user.currency THEN "credit" ELSE "rate")
  /\ UNCHANGED begun /\ OnlyJobs

\* Of two different currencies one is USD: the other one's rate decides.
Converted(j, rate) == IF j.code = "USD" THEN j.amount * rate ELSE Rounded(j.amount, rate)

\* getConversionRate, from the cache of the process or from the database.
LookUpRate(s) ==
  /\ At(s, "approve", "rate")
  /\ LET copy == cached[ProcessOf[s]] IN
     \/ /\ copy # None
        /\ job' = [job EXCEPT ![s].amount = Converted(job[s], copy.rate), ![s].pc = "credit"]
        /\ UNCHANGED mishaps
     \/ /\ copy = None /\ Usable
        /\ job' = [job EXCEPT ![s].doc = local, ![s].pc = "fill"]
        /\ UNCHANGED mishaps
     \/ /\ copy = None /\ ~Usable
        /\ Finish(s) /\ Mishap("gap")
  /\ UNCHANGED <<user, ledger, ticket, local, cached, begun>>

\* The document just read goes into the cache, whatever became of it meanwhile.
FillCache(s) ==
  /\ At(s, "approve", "fill")
  /\ cached' = [cached EXCEPT ![ProcessOf[s]] = job[s].doc]
  /\ job' = [job EXCEPT ![s].amount = Converted(job[s], job[s].doc.rate), ![s].pc = "credit"]
  /\ UNCHANGED <<user, ledger, ticket, local, begun, mishaps>>

\* Mutant: the credit leaves no row.
CreditUnbooked(s) ==
  /\ At(s, "approve", "credit")
  /\ user' = [user EXCEPT !.balance = @ + job[s].amount]
  /\ Finish(s)
  /\ UNCHANGED <<ledger, ticket, local, cached, begun, mishaps>>

\* creditWalletDirect: throws on nothing, with the deposit APPROVED.
CreditDeposit(s) ==
  /\ At(s, "approve", "credit")
  /\ IF job[s].amount <= 0
       THEN Finish(s) /\ Mishap("dust") /\ UNCHANGED user
       ELSE /\ user' = [user EXCEPT !.balance = @ + job[s].amount]
            /\ Goto(s, "row") /\ UNCHANGED mishaps
  /\ UNCHANGED <<ledger, ticket, local, cached, begun>>

(* Rejecting and editing a deposit: read, check, save *)

StartRejection(s, d) ==
  /\ Pending(d)
  /\ Begin(s, [op |-> "reject", pc |-> "save", ref |-> d])
  /\ OnlyJobs

StartEdit(s, d, amount) ==
  /\ Pending(d)
  /\ Begin(s, [op |-> "edit", pc |-> "save", ref |-> d, amount |-> amount])
  /\ OnlyJobs

\* save() writes the changed fields by _id, whatever the status is by now.
SaveDeposit(s) ==
  /\ job[s].op \in {"reject", "edit"} /\ job[s].pc = "save"
  /\ ticket' = IF job[s].op = "reject"
                 THEN [ticket EXCEPT ![job[s].ref].status = "REJECTED"]
                 ELSE [ticket EXCEPT ![job[s].ref].amount = job[s].amount]
  /\ Finish(s)
  /\ UNCHANGED <<user, ledger, local, cached, begun, mishaps>>

(* Reviewing a target order *)

StartReview(s, t, verdict) ==
  /\ Pending(t)
  /\ Begin(s, [op |-> "review", pc |-> "swap", ref |-> t, saw |-> verdict])
  /\ OnlyJobs

\* approveTargetOrder and rejectTargetOrder both swap; no money moves.
SwapReviewed(s) ==
  /\ At(s, "review", "swap")
  /\ ticket' = IF Swappable(job[s].ref)
                 THEN [ticket EXCEPT ![job[s].ref].status = job[s].saw]
                 ELSE ticket
  /\ Finish(s)
  /\ UNCHANGED <<user, ledger, local, cached, begun, mishaps>>

-----------------------------------------------------------------------------
DepositStep(s) ==
  \/ \E d \in Deposits, a \in Amounts \cup {0}, c \in Codes \cup {None} : StartApproval(s, d, a, c)
  \/ SwapToApproved(s) \/ ReadOwner(s) \/ LookUpRate(s) \/ FillCache(s) \/ CreditDeposit(s)
  \/ \E d \in Deposits : StartRejection(s, d)
  \/ \E d \in Deposits, a \in Amounts : StartEdit(s, d, a)
  \/ SaveDeposit(s)
  \/ \E t \in Targets, v \in {"APPROVED", "REJECTED"} : StartReview(s, t, v)
  \/ SwapReviewed(s)

CustomerStep ==
  \/ \E d \in Deposits, a \in Amounts, c \in Codes : SubmitDeposit(d, a, c)
  \/ \E t \in Targets, a \in Amounts : SubmitTarget(t, a)
=============================================================================
