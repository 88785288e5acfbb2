---------------------------- MODULE CurrencyDesk ----------------------------
(***************************************************************************)
(* Currencies: the administrator sets the platform rate, with or without   *)
(* an adjustment of the debts in that currency and a change of its status, *)
(* switches the currency on and off, creates and deletes it, and moves a   *)
(* customer to another one.  The converter of each process keeps a         *)
(* document it read for a minute.                                          *)
(***************************************************************************)
EXTENDS WalletDesk

KeepMoney == UNCHANGED <<user, ledger, ticket, mishaps>>

\* PATCH /currencies/:code; with toggle, it asks for the other status, too.
StartRateChange(s, rate, adjustDebts, toggle) ==
  /\ local # None
  /\ Begin(s, [op |-> "rate", pc |-> "save", arg |-> rate, doc |-> local, saw |-> adjustDebts,
               status |-> IF toggle THEN ~local.active ELSE None])
  /\ KeepMoney /\ UNCHANGED <<local, cached>>

StartStatusChange(s, active) ==
  /\ local # None
  /\ Begin(s, [op |-> "status", pc |-> "save", doc |-> local, saw |-> active])
  /\ KeepMoney /\ UNCHANGED <<local, cached>>

\* A document is written and deleted by _id: one that was deleted, or deleted and
\* created anew, is not found again.
StillThere(s) == local # None /\ local.id = job[s].doc.id

\* What save() makes of the stored document: it writes the field that was set,
\* unless the document already held that value when it was read.
Saved(j) ==
  IF j.op = "rate" THEN [local EXCEPT !.rate = IF j.arg = j.doc.rate THEN @ ELSE j.arg]
                   ELSE [local EXCEPT !.active = IF j.saw = j.doc.active THEN @ ELSE j.saw]

\* It fails when the document is gone.
SaveCurrency(s) ==
  /\ job[s].op \in {"rate", "status"} /\ job[s].pc = "save"
  /\ IF StillThere(s) THEN local' = Saved(job[s]) /\ Goto(s, "invalidate")
                      ELSE UNCHANGED local /\ Finish(s)
  /\ KeepMoney /\ UNCHANGED <<cached, begun>>

\* deleteCurrency: refused while a customer has it.
StartDeletion(s) ==
  /\ local # None /\ user.currency # "LOCAL"
  /\ Begin(s, [op |-> "delete", pc |-> "remove", doc |-> local])
  /\ KeepMoney /\ UNCHANGED <<local, cached>>

RemoveCurrency(s) ==
  /\ At(s, "delete", "remove")
  /\ local' = IF StillThere(s) THEN None ELSE local
  /\ Goto(s, "invalidate")
  /\ KeepMoney /\ UNCHANGED <<cached, begun>>

\* POST /currencies: find, then create; the code is unique, who comes second
\* fails.
StartCreation(s, rate, active) ==
  /\ local = None
  /\ Begin(s, [op |-> "create", pc |-> "insert", arg |-> rate, saw |-> active])
  /\ KeepMoney /\ UNCHANGED <<local, cached>>

NewCurrency(active, rate) == [active |-> active, rate |-> rate, id |-> begun]

InsertCurrency(s) ==
  /\ At(s, "create", "insert")
  /\ local' = IF local = None THEN NewCurrency(job[s].saw, job[s].arg) ELSE local
  /\ Finish(s)
  /\ KeepMoney /\ UNCHANGED <<cached, begun>>

\* percentageChange must not exceed 100 for a debt adjustment; it fails silently.
Adjustable(j) == /\ j.op = "rate" /\ j.saw /\ j.arg # j.doc.rate
                 /\ j.arg - j.doc.rate <= j.doc.rate

\* invalidateCurrencyCache, in the process of the handler.
Invalidate(s) ==
  /\ job[s].pc = "invalidate"
  /\ cached' = [cached EXCEPT ![ProcessOf[s]] = None]
  /\ IF Adjustable(job[s]) THEN Goto(s, "debtors") ELSE Conclude(s)
  /\ KeepMoney /\ UNCHANGED <<local, begun>>

\* adjustNegativeBalancesForInflation and -Deflation: the debtors in this
\* currency as they are now; a debt of r1 becomes one of r2.
ReadDebtors(s) ==
  /\ At(s, "rate", "debtors")
  /\ LET old == job[s].doc.rate
         change == Rounded(-user.balance * (job[s].arg - old), old)
     IN IF user.balance < 0 /\ user.currency = "LOCAL" /\ change # 0
          THEN job' = [job EXCEPT ![s].op = "debt", ![s].pc = "write", ![s].saw = user,
                                  ![s].arg = user.balance - change]
          ELSE Conclude(s)
  /\ KeepMoney /\ UNCHANGED <<local, cached, begun>>

\* The route saves the status last, and drops nothing from any cache.
SaveStatus(s) ==
  /\ job[s].pc = "toggle"
  /\ local' = IF StillThere(s) THEN [local EXCEPT !.active = job[s].status] ELSE local
  /\ Finish(s)
  /\ KeepMoney /\ UNCHANGED <<cached, begun>>

\* CACHE_TTL_MS passes.
CacheExpires(p) ==
  /\ cached[p] # None /\ cached' = [cached EXCEPT ![p] = None]
  /\ KeepMoney /\ UNCHANGED <<local, job, begun>>

(* updateUserCurrency: the user, then the currency documents, then the write *)

RateOf(code, doc) == IF code = "USD" \/ doc = None THEN 1 ELSE doc.rate

StartSwitch(s, code) ==
  /\ user.currency # code
  /\ Begin(s, [op |-> "switch", pc |-> "rates", code |-> code, saw |-> user])
  /\ UNCHANGED <<user, ledger, ticket, local, cached, mishaps>>

\* The new currency must be active.  convertBalance, to the cent.
ReadRates(s) ==
  /\ At(s, "switch", "rates")
  /\ IF job[s].code = "USD" \/ (local # None /\ local.active)
       THEN job' = [job EXCEPT ![s].pc = "write",
              ![s].amount = Rounded(job[s].saw.balance * RateOf(job[s].code, local),
                                    RateOf(job[s].saw.currency, local))]
       ELSE Finish(s)
  /\ KeepMoney /\ UNCHANGED <<local, cached, begun>>

\* $set of currency and balance; no row, and creditUsed stays as it was.
WriteSwitch(s) ==
  /\ At(s, "switch", "write")
  /\ user' = [user EXCEPT !.balance = job[s].amount, !.currency = job[s].code]
  /\ mishaps' = mishaps \cup {"switch"}
                        \cup IF user.balance = job[s].saw.balance THEN {} ELSE {"stale"}
  /\ Finish(s)
  /\ UNCHANGED <<ledger, ticket, local, cached, begun>>

-----------------------------------------------------------------------------
CurrencyStep(s) ==
  \/ \E r \in Rates, a, t \in BOOLEAN : StartRateChange(s, r, a, t)
  \/ \E b \in BOOLEAN : StartStatusChange(s, b)
  \/ SaveCurrency(s) \/ Invalidate(s) \/ ReadDebtors(s) \/ SaveStatus(s)
  \/ StartDeletion(s) \/ RemoveCurrency(s)
  \/ \E r \in Rates, b \in BOOLEAN : StartCreation(s, r, b)
  \/ InsertCurrency(s)
  \/ \E c \in Codes : StartSwitch(s, c)
  \/ ReadRates(s) \/ WriteSwitch(s)
=============================================================================
