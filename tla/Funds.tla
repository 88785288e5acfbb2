------------------------------- MODULE Funds --------------------------------
(***************************************************************************)
(* The back office at work on one customer's money: deposits and targets,  *)
(* wallet adjustments, orders and currencies at once, on one user document *)
(* without transactions.                                                   *)
(***************************************************************************)
EXTENDS DepositDesk, CurrencyDesk

Next ==
  \/ CustomerStep
  \/ \E s \in Staff : DepositStep(s) \/ WalletStep(s) \/ CurrencyStep(s) \/ WriteRow(s)
  \/ \E p \in Processes : CacheExpires(p) \/ Crash(p)

Spec == Init /\ [][Next]_vars

-----------------------------------------------------------------------------
\* The fields of the handlers are those of Idle; FundsProofs says what each holds.
TypeOK ==
  /\ user \in Wallets
  /\ ledger \in Seq([ref: Tickets \cup {None}, delta: Int])
  /\ ticket \in [Tickets -> Requests]
  /\ local \in Currencies \cup {None} /\ cached \in [Processes -> Currencies \cup {None}]
  /\ DOMAIN job = Staff /\ begun \in 0..MaxJobs /\ mishaps \subseteq Mishaps

\* What the wallet has got, or the row under way says it has got, for a deposit.
Credits(d) == {i \in 1..Len(ledger) : ledger[i].ref = d}
Crediting(d) == {s \in Staff : At(s, "approve", "row") /\ job[s].ref = d}

\* Whatever handlers overlap, a deposit is credited at most once, never without
\* an approval, and never for nothing (approveDeposit, creditWalletDirect).
CreditedOnce ==
  \A d \in Deposits :
    /\ Cardinality(Credits(d)) + Cardinality(Crediting(d)) <= 1
    /\ Credits(d) \cup Crediting(d) # {} => ticket[d].status \in {"APPROVED", "REJECTED"}
    /\ \A i \in Credits(d) : ledger[i].delta > 0

\* An approved deposit nobody works on has been credited, unless a process
\* died, the conversion had no currency, or the amount came to nothing.
ApprovedIsPaid ==
  \A d \in Deposits :
    /\ ticket[d].status = "APPROVED"
    /\ \A s \in Staff : job[s].ref # d
    /\ mishaps \cap {"crash", "gap", "dust"} = {}
    => Credits(d) # {}

\* A decision is not undone: what was reviewed is never open again, what was
\* rejected never approved, and a target order's verdict stays as it is.
DecisionsStand ==
  [][\A t \in Tickets :
       /\ ticket[t].status \in {"APPROVED", "REJECTED"} => ~Pending(t)'
       /\ ticket[t].status = "REJECTED" => ticket'[t].status = "REJECTED"
       /\ t \in Targets /\ ticket[t].status = "APPROVED" => ticket'[t].status = "APPROVED"]_vars

\* A change of the balance whose row is not written yet.
Underway == MapThenFoldSet(+, 0, LAMBDA s : IF job[s].pc = "row" THEN job[s].amount ELSE 0,
                           LAMBDA S : CHOOSE s \in S : TRUE, Staff)
Told == FoldSeq(LAMBDA row, sum : row.delta + sum, 0, ledger)

\* The ledger explains the balance, unless an adjustment replaced a balance it
\* had not read, the wallet was converted, or a process died before a row.
LedgerTellsBalance ==
  mishaps \cap {"stale", "switch", "crash"} = {} => user.balance = Told + Underway

-----------------------------------------------------------------------------
(* What comments and documents of the program say, and its code does not do *)

\* "Only PENDING requests can be rejected" (deposit.service.js:381).
OnlyPendingIsRejected ==
  [][\A d \in Deposits :
       ticket[d].status # "REJECTED" /\ ticket'[d].status = "REJECTED" => Pending(d)]_vars
=============================================================================
