----------------------------- MODULE FundsProofs -----------------------------
(***************************************************************************)
(* Proofs about Funds for every staff, every set of requests, amounts and  *)
(* rates, and every credit limit.                                          *)
(***************************************************************************)
EXTENDS Funds, FiniteSetTheorems, WellFoundedInduction, TLAPS

-----------------------------------------------------------------------------
(* Handlers *)

\* Where a handler of each kind can be, and what its fields hold there.
WalletJob(j) ==
  /\ j.op \in {"add", "deduct", "set", "debt"} =>
       /\ j.pc \in {"write", "row"} \/ (j.op = "debt" /\ j.pc = "toggle")
       /\ j.ref = None /\ j.saw \in Wallets
       /\ j.op \in {"add", "deduct"} => j.arg \in Nat
  /\ j.op = "force" => j.pc \in {"write", "row"} /\ j.ref = None
  /\ j.op \in {"charge", "refund"} => j.pc = "row" /\ j.ref = None

DepositJob(j) ==
  /\ j.op = "approve" =>
       /\ j.ref \in Deposits /\ j.pc \in {"swap", "owner", "rate", "fill", "credit", "row"}
       /\ j.amount \in Nat /\ j.arg \in Nat
       /\ j.pc = "row" => j.amount > 0
       /\ j.pc = "fill" => j.doc \in Currencies
  /\ j.op \in {"reject", "edit"} => j.pc = "save" /\ j.ref \in Deposits /\ j.amount \in Nat
  /\ j.op = "review" => j.pc = "swap" /\ j.ref \in Targets /\ j.saw \in {"APPROVED", "REJECTED"}

CurrencyJob(j) ==
  /\ j.op = "rate" => j.pc \in {"save", "invalidate", "debtors", "toggle"} /\ j.ref = None
                      /\ j.arg \in Rates /\ j.doc \in Currencies
  /\ j.op = "status" => j.pc \in {"save", "invalidate"} /\ j.ref = None /\ j.saw \in BOOLEAN
  /\ j.op = "delete" => j.pc \in {"remove", "invalidate"} /\ j.ref = None
  /\ j.op = "create" => j.pc = "insert" /\ j.ref = None /\ j.arg \in Rates /\ j.saw \in BOOLEAN
  /\ j.op = "switch" => j.pc \in {"rates", "write"} /\ j.ref = None /\ j.saw \in Wallets
  /\ j.status # None => j.status \in BOOLEAN /\ j.op \in {"rate", "debt"}
  /\ j.pc = "toggle" => j.status # None

IsJob(j) ==
  /\ DOMAIN j = DOMAIN Idle
  /\ j.op \in {"idle", "add", "deduct", "set", "debt", "force", "charge", "refund", "approve",
               "reject", "edit", "review", "rate", "status", "delete", "create", "switch"}
  /\ j.op = "idle" => j.pc = "idle" /\ j.ref = None
  /\ j.arg \in Int /\ j.amount \in Int /\ j.code \in Codes
  /\ WalletJob(j) /\ DepositJob(j) /\ CurrencyJob(j)

Jobs == job = [s \in Staff |-> job[s]] /\ \A s \in Staff : IsJob(job[s])

\* The job has turned the deposit into an approved one and is about to credit it.
Approving(j, d) ==
  j.op = "approve" /\ j.ref = d /\ j.pc \in {"owner", "rate", "fill", "credit", "row"}

\* What becomes of the approval of a deposit: it is in one pair of hands until
\* the wallet has got it, once.
Paid ==
  \A d \in Deposits :
    /\ \A s, t \in Staff : Approving(job[s], d) /\ Approving(job[t], d) => s = t
    /\ \A i, k \in Credits(d) : i = k
    /\ \A s \in Staff : Approving(job[s], d) => Credits(d) = {}
    /\ (Credits(d) # {} \/ \E s \in Staff : Approving(job[s], d))
         => ticket[d].status \in {"APPROVED", "REJECTED"}
    /\ \A i \in Credits(d) : ledger[i].delta > 0
    /\ ticket[d].status = "APPROVED" /\ mishaps \cap {"crash", "gap", "dust"} = {}
         => Credits(d) # {} \/ \E s \in Staff : Approving(job[s], d)

\* The inductive invariant.
FInv == TypeOK /\ Jobs /\ Paid

LEMMA IdleIsJob == IsJob(Idle) /\ \A d : ~Approving(Idle, d)
BY DEF IsJob, Idle, WalletJob, DepositJob, CurrencyJob, Codes, Approving

LEMMA RoundedType ==
  ASSUME NEW n \in Int, NEW d \in Nat \ {0}
  PROVE  Rounded(n, d) \in Int /\ (n >= 0 => Rounded(n, d) \in Nat)
BY DEF Rounded

-----------------------------------------------------------------------------
(* Steps *)

LEMMA BecomeMove ==
  ASSUME Jobs, NEW s \in Staff, NEW t, IsJob(t), job' = [job EXCEPT ![s] = t]
  PROVE  /\ Jobs' /\ job'[s] = t
         /\ \A q \in Staff : q # s => job'[q] = job[q]
<1>1. /\ job' = [q \in Staff |-> IF q = s THEN t ELSE job[q]]
      /\ job'[s] = t
      /\ \A q \in Staff : q # s => job'[q] = job[q]
  BY DEF Jobs
<1>2. job' = [q \in Staff |-> job'[q]]
  BY <1>1
<1>3. \A q \in Staff : IsJob(job'[q])
  BY <1>1 DEF Jobs
<1> QED BY <1>1, <1>2, <1>3 DEF Jobs

\* A request that was decided stays decided, and only approvals approve.
Stands(d) ==
  /\ ticket[d].status \in {"APPROVED", "REJECTED"} => ticket'[d].status \in {"APPROVED", "REJECTED"}
  /\ ticket'[d].status = "APPROVED" => ticket[d].status = "APPROVED"

\* A step of one handler that neither approves a deposit nor credits one.
LEMMA StepKeeps ==
  ASSUME FInv, NEW s \in Staff, NEW t, IsJob(t), job' = [job EXCEPT ![s] = t],
         \A d \in Deposits : Approving(t, d) <=> Approving(job[s], d),
         ledger' = ledger, mishaps \subseteq mishaps', mishaps' \subseteq Mishaps,
         user' \in Wallets, ticket' \in [Tickets -> Requests],
         \A d \in Deposits : Stands(d),
         local' \in Currencies \cup {None},
         cached' \in [Processes -> Currencies \cup {None}], begun' \in 0..MaxJobs
  PROVE  FInv'
<1>1. /\ Jobs' /\ job'[s] = t
      /\ \A q \in Staff : q # s => job'[q] = job[q]
  BY BecomeMove DEF FInv
<1>2. TypeOK'
  BY <1>1 DEF FInv, TypeOK, Jobs
<1>3. \A q \in Staff, d \in Deposits : Approving(job'[q], d) <=> Approving(job[q], d)
  BY <1>1
<1>4. \A d \in Deposits : Credits(d)' = Credits(d)
  BY DEF Credits
<1>5. Paid'
  BY <1>3, <1>4 DEF FInv, Paid, Stands
<1> QED BY <1>1, <1>2, <1>5 DEF FInv

\* A handler begins.
LEMMA StartKeeps ==
  ASSUME FInv, NEW s \in Staff, NEW read, Begin(s, read),
         IsJob(Filled(read)), \A d \in Deposits : ~Approving(Filled(read), d),
         UNCHANGED <<ledger, ticket, local, cached, mishaps>>,
         user' \in Wallets
  PROVE  FInv'
<1>1. /\ job[s] = Idle /\ job' = [job EXCEPT ![s] = Filled(read)]
      /\ begun' \in 0..MaxJobs
  BY JobsBound DEF Begin, FInv, TypeOK
<1>2. \A d \in Deposits : ~Approving(job[s], d)
  BY <1>1, IdleIsJob
<1>3. \A d \in Deposits : Stands(d)
  BY DEF Stands
<1> QED BY <1>1, <1>2, <1>3, StepKeeps DEF FInv, TypeOK

\* A handler ends, or goes on to another place.
LEMMA FinishMove ==
  ASSUME Jobs, NEW s \in Staff, Finish(s)
  PROVE  /\ job' = [job EXCEPT ![s] = Idle] /\ IsJob(Idle)
         /\ \A d : ~Approving(Idle, d)
BY IdleIsJob DEF Finish, Idle

LEMMA GotoFields ==
  ASSUME Jobs, NEW s \in Staff, NEW pc, NEW t, t = [job[s] EXCEPT !.pc = pc]
  PROVE  /\ DOMAIN t = DOMAIN Idle /\ t.pc = pc /\ t.op = job[s].op /\ t.ref = job[s].ref
         /\ t.arg = job[s].arg /\ t.amount = job[s].amount /\ t.code = job[s].code
         /\ t.saw = job[s].saw /\ t.doc = job[s].doc /\ t.status = job[s].status
BY DEF Jobs, IsJob, Idle

\* A handler concludes: it ends, or has a status to save.
LEMMA ConcludeMove ==
  ASSUME Jobs, NEW s \in Staff, Conclude(s)
  PROVE  \E t : /\ IsJob(t) /\ job' = [job EXCEPT ![s] = t]
               /\ t.pc \in {"idle", "toggle"} /\ \A d : ~Approving(t, d)
<1>1. CASE job[s].status = None
  <2>1. Finish(s) /\ Idle.pc = "idle"
    BY <1>1 DEF Conclude, Idle
  <2> QED BY <2>1, FinishMove
<1>2. CASE job[s].status # None
  <2> DEFINE t == [job[s] EXCEPT !.pc = "toggle"]
  <2>1. job' = [job EXCEPT ![s] = t]
    BY <1>2 DEF Conclude, Goto
  <2>2. IsJob(job[s]) /\ job[s].op \in {"rate", "debt"}
    BY <1>2 DEF Jobs, IsJob, CurrencyJob
  <2>3. IsJob(t) /\ t.pc = "toggle" /\ \A d : ~Approving(t, d)
    BY <1>2, <2>2, GotoFields DEF IsJob, WalletJob, DepositJob, CurrencyJob, Approving
  <2> HIDE DEF t
  <2> QED BY <2>1, <2>3
<1> QED BY <1>1, <1>2

-----------------------------------------------------------------------------
(* The wallet desk *)

LEMMA AdjustedType ==
  ASSUME NEW j, IsJob(j), j.op \in {"add", "deduct", "set", "debt"}
  PROVE  Adjusted(j).balance \in Int /\ Adjusted(j).used \in 0..Limit
<1>1. /\ j.saw.balance \in Int /\ j.saw.used \in 0..Limit /\ j.arg \in Int /\ Limit \in Nat
      /\ j.op \in {"add", "deduct"} => j.arg \in Nat
  BY NumbersAssumption DEF IsJob, WalletJob, Wallets
<1>2. CASE j.op = "add"
  BY <1>1, <1>2 DEF Adjusted, Added, Least
<1>3. CASE j.op = "deduct"
  BY <1>1, <1>3 DEF Adjusted, Deducted, Least, AvailableCredit
<1>4. CASE j.op \in {"set", "debt"}
  BY <1>1, <1>4 DEF Adjusted, AtBalance, Least
<1> QED BY <1>2, <1>3, <1>4

LEMMA WalletStepKeeps ==
  ASSUME FInv, NEW s \in Staff, WalletStep(s)
  PROVE  FInv'
<1> USE DEF FInv
<1>1. /\ user \in Wallets /\ user.balance \in Int /\ IsJob(job[s])
      /\ \A a \in Amounts : a \in Nat
  BY NumbersAssumption DEF TypeOK, Jobs, Wallets
<1>2. ASSUME NEW a \in Int, NEW op \in {"add", "deduct", "set"}, op # "set" => a \in Nat,
             StartAdjustment(s, op, a)
      PROVE  FInv'
  <2> DEFINE read == [op |-> op, pc |-> "write", arg |-> a, saw |-> user]
  <2>1. Begin(s, read) /\ UNCHANGED <<user, ledger, ticket, local, cached, mishaps>>
    BY <1>2 DEF StartAdjustment
  <2>2. IsJob(Filled(read)) /\ \A d : ~Approving(Filled(read), d)
    BY <1>1, <1>2, <2>1
    DEF Filled, Idle, IsJob, WalletJob, DepositJob, CurrencyJob, Approving, Codes
  <2> HIDE DEF read
  <2> QED BY <1>1, <2>1, <2>2, StartKeeps DEF TypeOK
<1>3. ASSUME NEW a \in Amounts, NEW credit \in 0..Limit, Charge(s, a) \/ Refund(s, a, credit)
      PROVE  FInv'
  <2>1. PICK read : /\ read \in {[op |-> "charge", pc |-> "row", amount |-> -a],
                                  [op |-> "refund", pc |-> "row", amount |-> a]}
                    /\ Begin(s, read)
    BY <1>3 DEF Charge, Refund
  <2>2. IsJob(Filled(read)) /\ \A d : ~Approving(Filled(read), d)
    BY <1>1, <2>1 DEF Filled, Idle, IsJob, WalletJob, DepositJob, CurrencyJob, Approving, Codes
  <2>3. user' \in Wallets
    <3>1. Limit \in Nat /\ user.used \in 0..Limit /\ user.used - Least(credit, user.used) \in 0..Limit
      BY <1>1, NumbersAssumption DEF Wallets, Least
    <3>2. user.balance - a \in Int /\ user.balance + a \in Int
      BY <1>1 DEF Wallets
    <3>3. CASE Charge(s, a)
      BY <1>1, <3>2, <3>3 DEF Charge, Wallets
    <3>4. CASE Refund(s, a, credit)
      BY <1>1, <3>1, <3>2, <3>4 DEF Refund, Wallets
    <3> QED BY <1>3, <3>3, <3>4
  <2>4. UNCHANGED <<ledger, ticket, local, cached, mishaps>>
    BY <1>3 DEF Charge, Refund
  <2> QED BY <2>1, <2>2, <2>3, <2>4, StartKeeps DEF TypeOK
<1>4. ASSUME NEW a \in Amounts, StartForcedDebit(s, a)
      PROVE  FInv'
  <2> DEFINE read == [op |-> "force", pc |-> "write", amount |-> -a, saw |-> user]
  <2>1. Begin(s, read) /\ UNCHANGED <<user, ledger, ticket, local, cached, mishaps>>
    BY <1>4 DEF StartForcedDebit
  <2>2. IsJob(Filled(read)) /\ \A d : ~Approving(Filled(read), d)
    BY <1>1 DEF Filled, Idle, IsJob, WalletJob, DepositJob, CurrencyJob, Approving, Codes
  <2> HIDE DEF read
  <2> QED BY <1>1, <2>1, <2>2, StartKeeps DEF TypeOK
<1>5. CASE WriteAdjustment(s)
  <2> DEFINE new == Adjusted(job[s])
             t == [job[s] EXCEPT !.pc = "row", !.amount = new.balance - job[s].saw.balance]
  <2>1. /\ job[s].op \in {"add", "deduct", "set", "debt"} /\ job[s].pc = "write"
        /\ new.balance \in Int /\ new.used \in 0..Limit /\ job[s].saw.balance \in Int
    BY <1>1, <1>5, AdjustedType DEF WriteAdjustment, IsJob, WalletJob, Wallets
  <2>2. /\ user' = [user EXCEPT !.balance = new.balance, !.used = new.used]
        /\ job' = [job EXCEPT ![s] = t]
        /\ mishaps \subseteq mishaps' /\ mishaps' \subseteq mishaps \cup {"stale"}
        /\ UNCHANGED <<ledger, ticket, local, cached, begun>>
    BY <1>5 DEF WriteAdjustment
  <2>3. user' \in Wallets
    BY <1>1, <2>1, <2>2 DEF Wallets
  <2> HIDE DEF new
  <2>4. IsJob(t) /\ t.pc = "row" /\ t.op = job[s].op
    BY <1>1, <2>1 DEF IsJob, Idle, WalletJob, DepositJob, CurrencyJob
  <2>5. \A d : Approving(t, d) <=> Approving(job[s], d)
    BY <2>1, <2>4 DEF Approving
  <2> HIDE DEF t
  <2> QED BY <2>1, <2>2, <2>3, <2>4, <2>5, StepKeeps DEF TypeOK, Stands, Mishaps
<1>6. CASE WriteForcedDebit(s)
  <2> DEFINE t == [job[s] EXCEPT !.pc = "row"]
  <2>1. /\ job[s].op = "force" /\ job[s].pc = "write" /\ job' = [job EXCEPT ![s] = t]
        /\ UNCHANGED <<ledger, ticket, local, cached, begun, mishaps>>
    BY <1>6 DEF WriteForcedDebit, At, Goto
  <2>2. user' \in Wallets
    BY <1>1, <1>6 DEF WriteForcedDebit, Forced, Wallets, IsJob
  <2>3. IsJob(t) /\ \A d : ~Approving(t, d) /\ ~Approving(job[s], d)
    BY <1>1, <2>1, GotoFields DEF IsJob, WalletJob, DepositJob, CurrencyJob, Approving
  <2> HIDE DEF t
  <2> QED BY <2>1, <2>2, <2>3, StepKeeps DEF TypeOK, Stands
<1>7. 0 \in 0..Limit
  BY NumbersAssumption
<1> QED
  BY <1>1, <1>2, <1>3, <1>4, <1>5, <1>6, <1>7 DEF WalletStep

-----------------------------------------------------------------------------
(* The currency desk *)

LEMMA CurrencyStartKeeps ==
  ASSUME FInv, NEW s \in Staff,
         \/ \E r \in Rates, a, t \in BOOLEAN : StartRateChange(s, r, a, t)
         \/ \E r \in Rates, b \in BOOLEAN : StartCreation(s, r, b)
         \/ \E b \in BOOLEAN : StartStatusChange(s, b)
         \/ StartDeletion(s)
         \/ \E c \in Codes : StartSwitch(s, c)
  PROVE  FInv'
<1> USE DEF FInv, TypeOK, KeepMoney
<1>1. \A r \in Rates : r \in Int
  BY NumbersAssumption
<1> DEFINE Fine(read) == IsJob(Filled(read)) /\ \A d : ~Approving(Filled(read), d)
<1>2. ASSUME NEW read, Begin(s, read), Fine(read),
             UNCHANGED <<user, ledger, ticket, local, cached, mishaps>>
      PROVE  FInv'
  BY <1>2, StartKeeps
<1>3. ASSUME NEW r \in Rates, NEW a \in BOOLEAN, NEW t \in BOOLEAN, StartRateChange(s, r, a, t)
      PROVE  FInv'
  <2> DEFINE status == IF t THEN ~local.active ELSE None
             read == [op |-> "rate", pc |-> "save", arg |-> r, doc |-> local, saw |-> a,
                      status |-> status]
  <2>1. /\ local \in Currencies /\ Begin(s, read)
        /\ UNCHANGED <<user, ledger, ticket, local, cached, mishaps>>
    BY <1>3 DEF StartRateChange
  <2>2. status # None => status \in BOOLEAN
    OBVIOUS
  <2> HIDE DEF status
  <2>3. Fine(read)
    BY <1>1, <2>1, <2>2
    DEF Filled, Idle, IsJob, WalletJob, DepositJob, CurrencyJob, Approving, Codes
  <2> HIDE DEF read, Fine
  <2> QED BY <1>2, <2>1, <2>3
<1>4. ASSUME NEW r \in Rates, NEW b \in BOOLEAN, StartCreation(s, r, b)
      PROVE  FInv'
  <2> DEFINE read == [op |-> "create", pc |-> "insert", arg |-> r, saw |-> b]
  <2>1. Begin(s, read) /\ UNCHANGED <<user, ledger, ticket, local, cached, mishaps>>
    BY <1>4 DEF StartCreation
  <2>2. Fine(read)
    BY <1>1 DEF Filled, Idle, IsJob, WalletJob, DepositJob, CurrencyJob, Approving, Codes
  <2> HIDE DEF read, Fine
  <2> QED BY <1>2, <2>1, <2>2
<1>5. ASSUME NEW b \in BOOLEAN, StartStatusChange(s, b)
      PROVE  FInv'
  <2> DEFINE read == [op |-> "status", pc |-> "save", doc |-> local, saw |-> b]
  <2>1. Begin(s, read) /\ UNCHANGED <<user, ledger, ticket, local, cached, mishaps>>
    BY <1>5 DEF StartStatusChange
  <2>2. Fine(read)
    BY DEF Filled, Idle, IsJob, WalletJob, DepositJob, CurrencyJob, Approving, Codes
  <2> HIDE DEF read, Fine
  <2> QED BY <1>2, <2>1, <2>2
<1>6. CASE StartDeletion(s)
  <2> DEFINE read == [op |-> "delete", pc |-> "remove", doc |-> local]
  <2>1. Begin(s, read) /\ UNCHANGED <<user, ledger, ticket, local, cached, mishaps>>
    BY <1>6 DEF StartDeletion
  <2>2. Fine(read)
    BY DEF Filled, Idle, IsJob, WalletJob, DepositJob, CurrencyJob, Approving, Codes
  <2> HIDE DEF read, Fine
  <2> QED BY <1>2, <2>1, <2>2
<1>7. ASSUME NEW c \in Codes, StartSwitch(s, c)
      PROVE  FInv'
  <2> DEFINE read == [op |-> "switch", pc |-> "rates", code |-> c, saw |-> user]
  <2>1. Begin(s, read) /\ UNCHANGED <<user, ledger, ticket, local, cached, mishaps>>
    BY <1>7 DEF StartSwitch
  <2>2. Fine(read)
    BY DEF Filled, Idle, IsJob, WalletJob, DepositJob, CurrencyJob, Approving, Codes
  <2> HIDE DEF read, Fine
  <2> QED BY <1>2, <2>1, <2>2
<1> QED BY <1>3, <1>4, <1>5, <1>6, <1>7

LEMMA CurrencyWritesKeep ==
  ASSUME FInv, NEW s \in Staff,
         \/ SaveCurrency(s) \/ RemoveCurrency(s) \/ InsertCurrency(s)
         \/ Invalidate(s) \/ SaveStatus(s)
  PROVE  FInv'
<1> USE DEF FInv, TypeOK, KeepMoney, Stands
<1>1. IsJob(job[s])
  BY DEF Jobs
<1>2. UNCHANGED <<user, ledger, ticket, mishaps, begun>>
  BY DEF SaveCurrency, RemoveCurrency, InsertCurrency, Invalidate, SaveStatus
\* Goto another place of the same handler, or Finish.
<1>3. ASSUME NEW t, IsJob(t), job' = [job EXCEPT ![s] = t], \A d : ~Approving(t, d),
             \A d : ~Approving(job[s], d),
             local' \in Currencies \cup {None}, cached' \in [Processes -> Currencies \cup {None}]
      PROVE  FInv'
  BY <1>2, <1>3, StepKeeps
<1>4. CASE SaveCurrency(s)
  <2> DEFINE t == [job[s] EXCEPT !.pc = "invalidate"]
  <2>1. /\ job[s].op \in {"rate", "status"} /\ job[s].pc = "save"
        /\ job[s].op = "rate" => job[s].arg \in Rates
        /\ job[s].op = "status" => job[s].saw \in BOOLEAN
        /\ cached' = cached
        /\ \A d : ~Approving(job[s], d)
    BY <1>1, <1>4 DEF SaveCurrency, IsJob, CurrencyJob, Approving
  <2>2. CASE ~StillThere(s)
    <3>1. Finish(s) /\ UNCHANGED local
      BY <1>4, <2>2 DEF SaveCurrency
    <3> QED BY <1>3, <2>1, <3>1, FinishMove
  <2>3. CASE StillThere(s)
    <3>1. local \in Currencies
      BY <2>3 DEF StillThere
    <3>2. local' = Saved(job[s]) /\ job' = [job EXCEPT ![s] = t]
      BY <1>4, <2>3 DEF SaveCurrency, Goto
    <3>3. local' \in Currencies
      BY <2>1, <3>1, <3>2 DEF Saved, Currencies
    <3>4. IsJob(t) /\ \A d : ~Approving(t, d)
      BY <1>1, <2>1, GotoFields DEF IsJob, WalletJob, DepositJob, CurrencyJob, Approving
    <3> HIDE DEF t
    <3> QED BY <1>3, <2>1, <3>2, <3>3, <3>4
  <2> QED BY <2>2, <2>3
<1>5. CASE RemoveCurrency(s)
  <2> DEFINE t == [job[s] EXCEPT !.pc = "invalidate"]
  <2>1. /\ job[s].op = "delete" /\ job' = [job EXCEPT ![s] = t]
        /\ local' \in {None, local} /\ cached' = cached
        /\ \A d : ~Approving(job[s], d)
    BY <1>5 DEF RemoveCurrency, At, Goto, Approving
  <2>2. IsJob(t) /\ \A d : ~Approving(t, d)
    BY <1>1, <2>1, GotoFields DEF IsJob, WalletJob, DepositJob, CurrencyJob, Approving
  <2> HIDE DEF t
  <2> QED BY <1>3, <2>1, <2>2
<1>6. CASE InsertCurrency(s)
  <2>1. /\ job[s].op = "create" /\ Finish(s)
        /\ job[s].arg \in Rates /\ job[s].saw \in BOOLEAN
        /\ local' = IF local = None THEN NewCurrency(job[s].saw, job[s].arg) ELSE local
        /\ cached' = cached
        /\ \A d : ~Approving(job[s], d)
    BY <1>1, <1>6 DEF InsertCurrency, At, Approving, IsJob, CurrencyJob
  <2>2. local' \in Currencies \cup {None}
    BY <2>1 DEF NewCurrency, Currencies
  <2> QED BY <1>3, <2>1, <2>2, FinishMove
<1>7. CASE Invalidate(s)
  <2> DEFINE t == [job[s] EXCEPT !.pc = "debtors"]
  <2>1. /\ job[s].pc = "invalidate" /\ local' = local
        /\ cached' \in [Processes -> Currencies \cup {None}]
        /\ \/ job[s].op = "rate" /\ job' = [job EXCEPT ![s] = t]
           \/ Conclude(s)
        /\ \A d : ~Approving(job[s], d)
    BY <1>7 DEF Invalidate, Adjustable, Goto, Approving
  <2>2. CASE job[s].op = "rate" /\ job' = [job EXCEPT ![s] = t]
    <3>1. IsJob(t) /\ \A d : ~Approving(t, d)
      BY <1>1, <2>1, <2>2, GotoFields DEF IsJob, WalletJob, DepositJob, CurrencyJob, Approving
    <3> HIDE DEF t
    <3> QED BY <1>3, <2>1, <2>2, <3>1
  <2>3. CASE Conclude(s)
    <3>1. PICK u : /\ IsJob(u) /\ job' = [job EXCEPT ![s] = u]
                   /\ \A d : ~Approving(u, d)
      BY <2>3, ConcludeMove
    <3> QED BY <1>3, <2>1, <3>1
  <2> QED BY <2>1, <2>2, <2>3
<1>8. CASE SaveStatus(s)
  <2>1. /\ job[s].pc = "toggle" /\ Finish(s) /\ cached' = cached
        /\ job[s].status \in BOOLEAN
        /\ local' = IF StillThere(s) THEN [local EXCEPT !.active = job[s].status] ELSE local
    BY <1>1, <1>8 DEF SaveStatus, IsJob, CurrencyJob
  <2>2. \A d : ~Approving(job[s], d)
    BY <2>1 DEF Approving
  <2>3. local' \in Currencies \cup {None}
    BY <2>1 DEF StillThere, Currencies
  <2> QED BY <1>3, <2>1, <2>2, <2>3, FinishMove
<1> QED BY <1>4, <1>5, <1>6, <1>7, <1>8

LEMMA CurrencyMovesKeep ==
  ASSUME FInv, NEW s \in Staff, ReadDebtors(s) \/ ReadRates(s) \/ WriteSwitch(s)
  PROVE  FInv'
<1> USE DEF FInv, TypeOK, KeepMoney, Stands
<1>1. /\ IsJob(job[s]) /\ user \in Wallets /\ user.balance \in Int
      /\ \A r \in Rates : r \in Nat \ {0}
  BY NumbersAssumption DEF Jobs, Wallets
<1>2. UNCHANGED <<ledger, ticket, local, cached, begun>>
  BY DEF ReadDebtors, ReadRates, WriteSwitch
<1>3. \A d : ~Approving(job[s], d)
  BY DEF ReadDebtors, ReadRates, WriteSwitch, At, Approving
<1>4. ASSUME NEW t, IsJob(t), job' = [job EXCEPT ![s] = t], \A d : ~Approving(t, d),
             user' \in Wallets, mishaps \subseteq mishaps', mishaps' \subseteq Mishaps
      PROVE  FInv'
  BY <1>2, <1>3, <1>4, StepKeeps
<1>5. CASE ReadDebtors(s)
  <2> DEFINE old == job[s].doc.rate
             change == Rounded(-user.balance * (job[s].arg - old), old)
             t == [job[s] EXCEPT !.op = "debt", !.pc = "write", !.saw = user,
                                 !.arg = user.balance - change]
  <2>1. job[s].op = "rate" /\ job[s].pc = "debtors" /\ old \in Rates /\ job[s].arg \in Rates
    BY <1>1, <1>5 DEF ReadDebtors, At, IsJob, CurrencyJob, Currencies
  <2>2. -user.balance * (job[s].arg - old) \in Int
    BY <1>1, <2>1
  <2>3. change \in Int
    BY <1>1, <2>1, <2>2, RoundedType
  <2>4. \/ job' = [job EXCEPT ![s] = t]
        \/ Conclude(s)
    BY <1>5 DEF ReadDebtors
  <2>5. UNCHANGED <<user, mishaps>>
    BY <1>5 DEF ReadDebtors
  <2> HIDE DEF change
  <2>6. IsJob(t) /\ \A d : ~Approving(t, d)
    BY <1>1, <2>1, <2>3
    DEF Idle, IsJob, WalletJob, DepositJob, CurrencyJob, Approving
  <2> HIDE DEF t
  <2>7. ASSUME Conclude(s)
        PROVE  FInv'
    <3>1. PICK u : /\ IsJob(u) /\ job' = [job EXCEPT ![s] = u]
                   /\ \A d : ~Approving(u, d)
      BY <2>7, ConcludeMove
    <3> QED BY <1>1, <1>4, <2>5, <3>1
  <2> QED BY <1>1, <1>4, <2>4, <2>5, <2>6, <2>7
<1>6. CASE ReadRates(s)
  <2> DEFINE amount == Rounded(job[s].saw.balance * RateOf(job[s].code, local),
                               RateOf(job[s].saw.currency, local))
             t == [job[s] EXCEPT !.pc = "write", !.amount = amount]
  <2>1. job[s].op = "switch" /\ job[s].saw \in Wallets /\ job[s].saw.balance \in Int
    BY <1>1, <1>6 DEF ReadRates, At, IsJob, CurrencyJob, Wallets
  <2>2. \A c : RateOf(c, local) \in Nat \ {0}
    BY <1>1 DEF RateOf, Currencies
  <2>3. job[s].saw.balance * RateOf(job[s].code, local) \in Int
    BY <2>1, <2>2
  <2>4. amount \in Int
    BY <2>2, <2>3, RoundedType
  <2>5. \/ job' = [job EXCEPT ![s] = t]
        \/ Finish(s)
    BY <1>6 DEF ReadRates
  <2>6. UNCHANGED <<user, mishaps>>
    BY <1>6 DEF ReadRates
  <2> HIDE DEF amount
  <2>7. IsJob(t) /\ \A d : ~Approving(t, d)
    BY <1>1, <2>1, <2>4 DEF IsJob, Idle, WalletJob, DepositJob, CurrencyJob, Approving
  <2> HIDE DEF t
  <2> QED BY <1>1, <1>4, <2>5, <2>6, <2>7, FinishMove
<1>7. CASE WriteSwitch(s)
  <2>1. /\ user' = [user EXCEPT !.balance = job[s].amount, !.currency = job[s].code]
        /\ mishaps \subseteq mishaps' /\ mishaps' \subseteq mishaps \cup {"switch", "stale"}
        /\ Finish(s)
    BY <1>7 DEF WriteSwitch
  <2>2. user' \in Wallets
    BY <1>1, <2>1 DEF Wallets, IsJob
  <2> QED BY <1>4, <2>1, <2>2, FinishMove DEF Mishaps
<1> QED BY <1>5, <1>6, <1>7

-----------------------------------------------------------------------------
(* The deposit desk *)

LEMMA DepositStartKeeps ==
  ASSUME FInv, NEW s \in Staff,
         \/ \E d \in Deposits, a \in Amounts \cup {0}, c \in Codes \cup {None} :
              StartApproval(s, d, a, c)
         \/ \E d \in Deposits : StartRejection(s, d)
         \/ \E d \in Deposits, a \in Amounts : StartEdit(s, d, a)
         \/ \E t \in Targets, v \in {"APPROVED", "REJECTED"} : StartReview(s, t, v)
  PROVE  FInv'
<1> USE DEF FInv, TypeOK, OnlyJobs
<1>1. /\ \A a \in Amounts : a \in Nat
      /\ \A d \in Deposits : d \in Tickets
      /\ \A d \in Tickets : ticket[d].amount \in Nat /\ ticket[d].code \in Codes
  BY NumbersAssumption DEF Tickets, Requests
<1>2. ASSUME NEW read, Begin(s, read), OnlyJobs, IsJob(Filled(read)),
             Filled(read).pc # "row", Filled(read).op # "approve" \/ Filled(read).pc = "swap"
      PROVE  FInv'
  BY <1>2, StartKeeps DEF Approving
<1> DEFINE Fine(read) == /\ IsJob(Filled(read)) /\ Filled(read).pc # "row"
                         /\ Filled(read).op # "approve" \/ Filled(read).pc = "swap"
<1>3. ASSUME NEW d \in Deposits, NEW a \in Amounts \cup {0}, NEW c \in Codes \cup {None},
             StartApproval(s, d, a, c)
      PROVE  FInv'
  <2> DEFINE m == IF a = 0 THEN ticket[d].amount ELSE a
             k == IF c = None THEN ticket[d].code ELSE c
             read == [op |-> "approve", pc |-> "swap", ref |-> d, arg |-> a, saw |-> c,
                      amount |-> m, code |-> k]
  <2>1. m \in Nat /\ k \in Codes /\ a \in Nat
    BY <1>1
  <2>2. Begin(s, read) /\ OnlyJobs
    BY <1>3 DEF StartApproval
  <2> HIDE DEF m, k
  <2>3. Fine(read)
    BY <2>1 DEF Filled, Idle, IsJob, WalletJob, DepositJob, CurrencyJob, Codes
  <2> HIDE DEF read
  <2> QED BY <1>2, <2>2, <2>3
<1>4. ASSUME NEW d \in Deposits, StartRejection(s, d)
      PROVE  FInv'
  <2> DEFINE read == [op |-> "reject", pc |-> "save", ref |-> d]
  <2>1. Begin(s, read) /\ OnlyJobs
    BY <1>4 DEF StartRejection
  <2>2. Fine(read)
    BY DEF Filled, Idle, IsJob, WalletJob, DepositJob, CurrencyJob, Codes
  <2> HIDE DEF read
  <2> QED BY <1>2, <2>1, <2>2
<1>5. ASSUME NEW d \in Deposits, NEW a \in Amounts, StartEdit(s, d, a)
      PROVE  FInv'
  <2> DEFINE read == [op |-> "edit", pc |-> "save", ref |-> d, amount |-> a]
  <2>1. Begin(s, read) /\ OnlyJobs
    BY <1>5 DEF StartEdit
  <2>2. Fine(read)
    BY <1>1 DEF Filled, Idle, IsJob, WalletJob, DepositJob, CurrencyJob, Codes
  <2> HIDE DEF read
  <2> QED BY <1>2, <2>1, <2>2
<1>6. ASSUME NEW t \in Targets, NEW v \in {"APPROVED", "REJECTED"}, StartReview(s, t, v)
      PROVE  FInv'
  <2> DEFINE read == [op |-> "review", pc |-> "swap", ref |-> t, saw |-> v]
  <2>1. Begin(s, read) /\ OnlyJobs
    BY <1>6 DEF StartReview
  <2>2. Fine(read)
    BY DEF Filled, Idle, IsJob, WalletJob, DepositJob, CurrencyJob, Codes
  <2> HIDE DEF read
  <2> QED BY <1>2, <2>1, <2>2
<1> QED BY <1>3, <1>4, <1>5, <1>6

\* The compare-and-swap: whoever turns the request into an approved one is the
\* only one, for nobody else approves what is not pending.
LEMMA SwapKeeps ==
  ASSUME FInv, NEW s \in Staff, SwapToApproved(s)
  PROVE  FInv'
<1> USE DEF FInv, TypeOK
<1> DEFINE d == job[s].ref
           t == [job[s] EXCEPT !.pc = "owner"]
<1>1. /\ IsJob(job[s]) /\ job[s].op = "approve" /\ job[s].pc = "swap"
      /\ d \in Deposits /\ d \in Tickets /\ \A e : ~Approving(job[s], e)
      /\ job[s].amount \in Nat /\ job[s].code \in Codes
      /\ UNCHANGED <<user, ledger, local, cached, begun, mishaps>>
  BY DEF SwapToApproved, At, Jobs, IsJob, DepositJob, Tickets, Approving
<1>2. CASE ~Swappable(d)
  <2>1. Finish(s) /\ ticket' = ticket
    BY <1>2 DEF SwapToApproved
  <2> QED BY <1>1, <2>1, FinishMove, StepKeeps DEF Stands
<1>3. CASE Swappable(d)
  <2>1. /\ ticket' = [ticket EXCEPT
               ![d].status = "APPROVED",
               ![d].amount = IF job[s].arg = 0 THEN @ ELSE job[s].amount,
               ![d].code = IF job[s].saw = None THEN @ ELSE job[s].code]
        /\ job' = [job EXCEPT ![s] = t]
    BY <1>3 DEF SwapToApproved, Goto
  <2>2. ticket[d].status = "PENDING" /\ ticket[d] \in Requests
    BY <1>1, <1>3 DEF Swappable, Pending
  <2>3. /\ ticket' \in [Tickets -> Requests] /\ ticket'[d].status = "APPROVED"
        /\ \A e \in Tickets : e # d => ticket'[e] = ticket[e]
    BY <1>1, <2>1, <2>2 DEF Requests
  <2>4. IsJob(t) /\ Approving(t, d) /\ \A e : e # d => ~Approving(t, e)
    BY <1>1, GotoFields DEF IsJob, WalletJob, DepositJob, CurrencyJob, Approving
  <2> HIDE DEF t
  <2>5. /\ Jobs' /\ job'[s] = t
        /\ \A q \in Staff : q # s => job'[q] = job[q]
    BY <2>1, <2>4, BecomeMove
  <2>6. \A e \in Deposits : Credits(e)' = Credits(e)
    BY <1>1 DEF Credits
  <2>7. Credits(d) = {} /\ \A q \in Staff : ~Approving(job[q], d)
    BY <1>1, <2>2 DEF Paid
  <2>8. Paid'
    <3>1. ASSUME NEW e \in Deposits
          PROVE  /\ \A q, r \in Staff : Approving(job'[q], e) /\ Approving(job'[r], e) => q = r
                 /\ \A q \in Staff : Approving(job'[q], e) => Credits(e) = {}
                 /\ (Credits(e) # {} \/ \E q \in Staff : Approving(job'[q], e))
                      => ticket'[e].status \in {"APPROVED", "REJECTED"}
                 /\ ticket'[e].status = "APPROVED" /\ mishaps \cap {"crash", "gap", "dust"} = {}
                      => Credits(e) # {} \/ \E q \in Staff : Approving(job'[q], e)
      <4>1. e \in Tickets
        BY DEF Tickets
      <4>2. CASE e = d
        BY <2>3, <2>4, <2>5, <2>7, <4>2
      <4>3. CASE e # d
        <5>1. \A q \in Staff : Approving(job'[q], e) <=> Approving(job[q], e)
          BY <1>1, <2>4, <2>5, <4>3
        <5>2. ticket'[e] = ticket[e]
          BY <2>3, <4>1, <4>3
        <5> HIDE DEF d
        <5> QED BY <5>1, <5>2 DEF Paid
      <4> QED BY <4>2, <4>3
    <3>2. \A e \in Deposits : /\ \A i, k \in Credits(e) : i = k
                              /\ \A i \in Credits(e) : ledger[i].delta > 0
      BY DEF Paid
    <3> QED BY <1>1, <2>6, <3>1, <3>2 DEF Paid
  <2> QED BY <1>1, <2>3, <2>5, <2>8 DEF Jobs
<1> QED BY <1>2, <1>3

\* An approval goes on in the same hands.
LEMMA ApprovalKeeps ==
  ASSUME FInv, NEW s \in Staff, ReadOwner(s) \/ FillCache(s)
  PROVE  FInv'
<1> USE DEF FInv, TypeOK, OnlyJobs, Stands
<1> DEFINE Next1(t) == /\ IsJob(t) /\ t.op = "approve" /\ t.ref = job[s].ref
                       /\ t.pc \in {"rate", "credit"}
<1>1. /\ IsJob(job[s]) /\ job[s].op = "approve" /\ job[s].pc \in {"owner", "fill"}
      /\ job[s].pc = "fill" => job[s].doc \in Currencies
      /\ job[s].amount \in Nat
      /\ UNCHANGED <<user, ledger, ticket, local, begun>>
  BY DEF ReadOwner, FillCache, At, Jobs, IsJob, DepositJob
<1>2. CASE ReadOwner(s)
  <2> DEFINE pc == IF job[s].code = user.currency THEN "credit" ELSE "rate"
             t == [job[s] EXCEPT !.pc = pc]
  <2>1. job' = [job EXCEPT ![s] = t] /\ UNCHANGED <<cached, mishaps>>
    BY <1>2 DEF ReadOwner, Goto
  <2>2. Next1(t)
    BY <1>1, GotoFields DEF IsJob, WalletJob, DepositJob, CurrencyJob
  <2>3. \A d \in Deposits : Approving(t, d) <=> Approving(job[s], d)
    BY <1>1, <1>2, <2>2 DEF Approving, ReadOwner, At
  <2> HIDE DEF t
  <2> QED BY <1>1, <2>1, <2>2, <2>3, StepKeeps
<1>3. CASE FillCache(s)
  <2> DEFINE m == Converted(job[s], job[s].doc.rate)
             t == [job[s] EXCEPT !.amount = m, !.pc = "credit"]
  <2>1. /\ job[s].pc = "fill" /\ job' = [job EXCEPT ![s] = t] /\ mishaps' = mishaps
        /\ cached' \in [Processes -> Currencies \cup {None}]
    BY <1>1, <1>3 DEF FillCache, At
  <2>2. job[s].doc.rate \in Nat \ {0} /\ m \in Nat
    <3>1. job[s].doc.rate \in Nat \ {0}
      BY <1>1, <2>1, NumbersAssumption DEF Currencies
    <3>2. job[s].amount \in Int /\ job[s].amount >= 0
      BY <1>1
    <3>3. Rounded(job[s].amount, job[s].doc.rate) \in Nat
      BY ONLY <3>1, <3>2, RoundedType
    <3> QED BY <1>1, <3>1, <3>3 DEF Converted
  <2> HIDE DEF m
  <2>3. Next1(t)
    BY <1>1, <2>2 DEF IsJob, Idle, WalletJob, DepositJob, CurrencyJob
  <2>4. \A d \in Deposits : Approving(t, d) <=> Approving(job[s], d)
    BY <1>1, <2>1, <2>3 DEF Approving
  <2> HIDE DEF t
  <2> QED BY <1>1, <2>1, <2>3, <2>4, StepKeeps
<1> QED BY <1>2, <1>3

\* An approval that comes to nothing is a mishap.
LEMMA LossKeeps ==
  ASSUME FInv, NEW s \in Staff, Finish(s), Mishap("gap") \/ Mishap("dust"),
         UNCHANGED <<user, ledger, ticket, local, cached, begun>>
  PROVE  FInv'
<1> USE DEF FInv
<1>1. Jobs' /\ job'[s] = Idle /\ \A q \in Staff : q # s => job'[q] = job[q]
  BY FinishMove, BecomeMove
<1>2. \A q \in Staff, d \in Deposits : Approving(job'[q], d) => Approving(job[q], d)
  BY <1>1, IdleIsJob
<1>3. \A d \in Deposits : Credits(d)' = Credits(d)
  BY DEF Credits
<1>4. /\ mishaps' \cap {"crash", "gap", "dust"} # {}
      /\ mishaps' \subseteq Mishaps /\ mishaps \subseteq mishaps'
  BY DEF Mishap, TypeOK, Mishaps
<1>5. Paid'
  BY <1>2, <1>3, <1>4 DEF Paid
<1> QED BY <1>1, <1>2, <1>3, <1>4, <1>5 DEF TypeOK, Jobs

LEMMA LookUpKeeps ==
  ASSUME FInv, NEW s \in Staff, LookUpRate(s)
  PROVE  FInv'
<1> USE DEF FInv, TypeOK, Stands
<1> DEFINE copy == cached[ProcessOf[s]]
<1>1. /\ IsJob(job[s]) /\ job[s].op = "approve" /\ job[s].pc = "rate"
      /\ job[s].amount \in Nat
      /\ UNCHANGED <<user, ledger, ticket, local, cached, begun>>
  BY DEF LookUpRate, At, Jobs, IsJob, DepositJob
<1>0. copy \in Currencies \cup {None}
  BY StaffAssumption
<1>2. CASE copy # None
  <2> DEFINE m == Converted(job[s], copy.rate)
             t == [job[s] EXCEPT !.amount = m, !.pc = "credit"]
  <2>1. job' = [job EXCEPT ![s] = t] /\ UNCHANGED mishaps
    BY <1>2 DEF LookUpRate
  <2>2. m \in Nat
    <3>1. copy.rate \in Nat \ {0}
      BY <1>0, <1>2, NumbersAssumption DEF Currencies
    <3>2. job[s].amount \in Int /\ job[s].amount >= 0
      BY <1>1
    <3>3. Rounded(job[s].amount, copy.rate) \in Nat
      BY ONLY <3>1, <3>2, RoundedType
    <3> QED BY <1>1, <3>1, <3>3 DEF Converted
  <2> HIDE DEF m
  <2>3. IsJob(t) /\ \A d : Approving(t, d) <=> Approving(job[s], d)
    BY <1>1, <2>2 DEF IsJob, Idle, WalletJob, DepositJob, CurrencyJob, Approving
  <2> HIDE DEF t
  <2> QED BY <1>1, <2>1, <2>3, StepKeeps
<1>3. CASE copy = None /\ Usable
  <2> DEFINE t == [job[s] EXCEPT !.doc = local, !.pc = "fill"]
  <2>1. job' = [job EXCEPT ![s] = t] /\ UNCHANGED mishaps
    BY <1>3 DEF LookUpRate
  <2>2. local \in Currencies
    BY <1>3 DEF Usable
  <2>3. IsJob(t) /\ \A d : Approving(t, d) <=> Approving(job[s], d)
    BY <1>1, <2>2 DEF IsJob, Idle, WalletJob, DepositJob, CurrencyJob, Approving
  <2> HIDE DEF t
  <2> QED BY <1>1, <2>1, <2>3, StepKeeps
<1>4. CASE copy = None /\ ~Usable
  BY <1>1, <1>4, LossKeeps DEF LookUpRate
<1> QED BY <1>2, <1>3, <1>4

LEMMA CreditKeeps ==
  ASSUME FInv, NEW s \in Staff, CreditDeposit(s)
  PROVE  FInv'
<1> USE DEF FInv, TypeOK, Stands
<1>1. /\ IsJob(job[s]) /\ job[s].op = "approve" /\ job[s].pc = "credit"
      /\ job[s].amount \in Nat
      /\ UNCHANGED <<ledger, ticket, local, cached, begun>>
  BY DEF CreditDeposit, At, Jobs, IsJob, DepositJob
<1>2. CASE job[s].amount <= 0
  BY <1>1, <1>2, LossKeeps DEF CreditDeposit
<1>3. CASE ~(job[s].amount <= 0)
  <2> DEFINE t == [job[s] EXCEPT !.pc = "row"]
  <2>1. /\ user' = [user EXCEPT !.balance = @ + job[s].amount]
        /\ job' = [job EXCEPT ![s] = t] /\ UNCHANGED mishaps
    BY <1>3 DEF CreditDeposit, Goto
  <2>2. user' \in Wallets
    <3>1. user \in Wallets /\ user.balance + job[s].amount \in Int
      BY <1>1 DEF Wallets
    <3> QED BY <2>1, <3>1 DEF Wallets
  <2>3. IsJob(t) /\ \A d : Approving(t, d) <=> Approving(job[s], d)
    BY <1>1, <1>3, GotoFields DEF IsJob, WalletJob, DepositJob, CurrencyJob, Approving
  <2> HIDE DEF t
  <2> QED BY <1>1, <2>1, <2>2, <2>3, StepKeeps
<1> QED BY <1>2, <1>3

LEMMA ReviewKeeps ==
  ASSUME FInv, NEW s \in Staff, SaveDeposit(s) \/ SwapReviewed(s)
  PROVE  FInv'
<1> USE DEF FInv, TypeOK
<1>1. /\ IsJob(job[s]) /\ Finish(s)
      /\ \A d : ~Approving(job[s], d)
      /\ UNCHANGED <<user, ledger, local, cached, begun, mishaps>>
  BY DEF SaveDeposit, SwapReviewed, At, Approving, Jobs
<1>2. ticket' \in [Tickets -> Requests] /\ \A d \in Deposits : Stands(d)
  <2>1. CASE SaveDeposit(s)
    <3>1. /\ job[s].ref \in Tickets /\ job[s].amount \in Nat
          /\ ticket' \in {[ticket EXCEPT ![job[s].ref].status = "REJECTED"],
                         [ticket EXCEPT ![job[s].ref].amount = job[s].amount]}
      BY <1>1, <2>1 DEF SaveDeposit, IsJob, DepositJob, Tickets
    <3>2. /\ ticket \in [Tickets -> Requests]
          /\ \A d \in Deposits : d \in Tickets /\ ticket[d] \in Requests
      BY DEF Tickets
    <3>3. \A e \in Tickets : /\ [ticket[e] EXCEPT !.status = "REJECTED"] \in Requests
                             /\ [ticket[e] EXCEPT !.amount = job[s].amount] \in Requests
      <4> SUFFICES ASSUME NEW e \in Tickets
                   PROVE  /\ [ticket[e] EXCEPT !.status = "REJECTED"] \in Requests
                          /\ [ticket[e] EXCEPT !.amount = job[s].amount] \in Requests
        OBVIOUS
      <4>1. ticket[e] \in Requests
        BY <3>2
      <4> QED BY <3>1, <4>1 DEF Requests
    <3>4. ticket' \in [Tickets -> Requests]
      BY <3>1, <3>2, <3>3
    <3>5. ASSUME NEW d \in Deposits
          PROVE  Stands(d)
      <4>1. ticket[d].status \in {"ABSENT", "PENDING", "APPROVED", "REJECTED"}
            /\ DOMAIN ticket[d] = {"status", "amount", "code"}
        BY <3>2 DEF Requests
      <4>2. ticket'[d] \in {ticket[d], [ticket[d] EXCEPT !.status = "REJECTED"],
                           [ticket[d] EXCEPT !.amount = job[s].amount]}
        BY <3>1, <3>2
      <4>3. ticket'[d].status \in {ticket[d].status, "REJECTED"}
        BY <4>1, <4>2
      <4> QED BY <4>1, <4>3 DEF Stands
    <3> QED BY <3>4, <3>5
  <2>2. CASE SwapReviewed(s)
    <3>1. /\ job[s].ref \in Targets /\ job[s].saw \in {"APPROVED", "REJECTED"}
          /\ ticket' \in {ticket, [ticket EXCEPT ![job[s].ref].status = job[s].saw]}
      BY <1>1, <2>2 DEF SwapReviewed, At, IsJob, DepositJob
    <3>2. \A d \in Deposits : ticket'[d] = ticket[d]
      BY <3>1, TicketsAssumption DEF Tickets
    <3>3. [ticket[job[s].ref] EXCEPT !.status = job[s].saw] \in Requests
      <4>1. ticket[job[s].ref] \in Requests
        BY <3>1 DEF Tickets
      <4> QED BY <3>1, <4>1 DEF Requests
    <3>4. ticket' \in [Tickets -> Requests]
      BY <3>1, <3>3
    <3> QED BY <3>2, <3>4 DEF Stands
  <2> QED BY <2>1, <2>2
<1> QED BY <1>1, <1>2, FinishMove, StepKeeps

LEMMA DepositStepKeeps ==
  ASSUME FInv, NEW s \in Staff, DepositStep(s)
  PROVE  FInv'
BY DepositStartKeeps, SwapKeeps, ApprovalKeeps, LookUpKeeps, CreditKeeps, ReviewKeeps
   DEF DepositStep

LEMMA CurrencyStepKeeps ==
  ASSUME FInv, NEW s \in Staff, CurrencyStep(s)
  PROVE  FInv'
BY CurrencyStartKeeps, CurrencyWritesKeep, CurrencyMovesKeep DEF CurrencyStep

-----------------------------------------------------------------------------
(* Rows, customers, and accidents *)

LEMMA WriteRowKeeps ==
  ASSUME FInv, NEW s \in Staff, WriteRow(s)
  PROVE  FInv'
<1> USE DEF FInv, TypeOK
<1> DEFINE row == [ref |-> job[s].ref, delta |-> job[s].amount]
<1>1. /\ IsJob(job[s]) /\ job[s].pc = "row" /\ Conclude(s)
      /\ ledger' = IF job[s].amount = 0 THEN ledger ELSE Append(ledger, row)
      /\ UNCHANGED <<user, ticket, local, cached, begun, mishaps>>
  BY DEF WriteRow, Booked, Jobs
<1>2. /\ Jobs' /\ \A q \in Staff : q # s => job'[q] = job[q]
      /\ \A e : ~Approving(job'[s], e)
  BY <1>1, ConcludeMove, BecomeMove
<1>3. job[s].ref \in Tickets \cup {None} /\ row \in [ref: Tickets \cup {None}, delta: Int]
  BY <1>1 DEF IsJob, WalletJob, DepositJob, CurrencyJob, Tickets
<1>4. ledger' \in Seq([ref: Tickets \cup {None}, delta: Int])
  <2>1. ledger \in Seq([ref: Tickets \cup {None}, delta: Int])
    OBVIOUS
  <2> HIDE DEF row
  <2>2. Append(ledger, row) \in Seq([ref: Tickets \cup {None}, delta: Int])
    BY <1>3, <2>1
  <2> QED BY <1>1, <2>1, <2>2 DEF row
<1>6. \A q \in Staff : q # s => \A e : Approving(job'[q], e) <=> Approving(job[q], e)
  BY <1>2
<1>7. \A e : ~Approving(job'[s], e)
  BY <1>2
<1>8. CASE job[s].op = "approve"
  <2>0. PICK d \in Deposits : d = job[s].ref
    BY <1>1, <1>8 DEF IsJob, DepositJob
  <2>1. job[s].amount > 0 /\ Approving(job[s], d) /\ row.ref = d
    BY <1>1, <1>8, <2>0 DEF IsJob, DepositJob, Approving
  <2>2. /\ ledger' = Append(ledger, row) /\ Len(ledger') = Len(ledger) + 1
        /\ Len(ledger) \in Nat /\ ledger'[Len(ledger) + 1] = row
        /\ \A i \in 1..Len(ledger) : ledger'[i] = ledger[i]
    BY <1>1, <1>3, <2>1
  <2>3. Credits(d) = {} /\ \A q \in Staff : Approving(job[q], d) => q = s
    BY <2>1 DEF Paid
  <2>4. ticket[d].status \in {"APPROVED", "REJECTED"}
    BY <2>1 DEF Paid
  <2>5. Credits(d)' = {Len(ledger) + 1}
    <3>1. \A i \in 1..Len(ledger) : ledger[i].ref # d
      BY <2>3 DEF Credits
    <3>2. Credits(d)' = {i \in 1..(Len(ledger) + 1) : ledger'[i].ref = d}
      BY <2>2 DEF Credits
    <3> QED BY <2>1, <2>2, <3>1, <3>2
  <2>6. ASSUME NEW e \in Deposits, e # d
        PROVE  Credits(e)' = Credits(e)
    <3>1. Credits(e)' = {i \in 1..(Len(ledger) + 1) : ledger'[i].ref = e}
      BY <2>2 DEF Credits
    <3>2. ledger'[Len(ledger) + 1].ref # e
      BY <2>1, <2>2, <2>6
    <3> QED BY <2>2, <3>1, <3>2 DEF Credits
  <2>7. \A e \in Deposits : \A i \in Credits(e) : ledger'[i] = ledger[i]
    BY <2>2 DEF Credits
  <2>8. \A q \in Staff : ~Approving(job'[q], d)
    BY <1>2, <1>6, <1>7, <2>3
  <2>9. \A e \in Deposits : e # d => \A q \in Staff : Approving(job'[q], e) <=> Approving(job[q], e)
    <3>1. \A e \in Deposits : e # d => ~Approving(job[s], e)
      BY <2>0 DEF Approving
    <3> QED BY <1>6, <1>7, <3>1
  <2>10. ledger'[Len(ledger) + 1].delta > 0
    BY <2>1, <2>2
  <2>11. Paid'
    <3>1. ASSUME NEW e \in Deposits
          PROVE  /\ \A q, r \in Staff : Approving(job'[q], e) /\ Approving(job'[r], e) => q = r
                 /\ \A i, k \in Credits(e)' : i = k
                 /\ \A q \in Staff : Approving(job'[q], e) => Credits(e)' = {}
                 /\ (Credits(e)' # {} \/ \E q \in Staff : Approving(job'[q], e))
                      => ticket[e].status \in {"APPROVED", "REJECTED"}
                 /\ \A i \in Credits(e)' : ledger'[i].delta > 0
                 /\ ticket[e].status = "APPROVED" /\ mishaps \cap {"crash", "gap", "dust"} = {}
                      => Credits(e)' # {} \/ \E q \in Staff : Approving(job'[q], e)
      <4>1. CASE e = d
        BY <2>1, <2>4, <2>5, <2>8, <2>10, <4>1
      <4>2. CASE e # d
        BY <2>6, <2>7, <2>9, <4>2 DEF Paid
      <4> QED BY <4>1, <4>2
    <3> QED BY <1>1, <3>1 DEF Paid
  <2> QED BY <1>1, <1>2, <1>4, <2>11 DEF Jobs
<1>9. CASE job[s].op # "approve"
  <2>1. job[s].ref \notin Deposits /\ \A e : ~Approving(job[s], e)
    BY <1>1, <1>9, TicketsAssumption DEF IsJob, WalletJob, DepositJob, CurrencyJob, Approving
  <2>2. /\ Len(ledger') \in {Len(ledger), Len(ledger) + 1} /\ Len(ledger) \in Nat
        /\ \A i \in 1..Len(ledger) : ledger'[i] = ledger[i]
        /\ Len(ledger') = Len(ledger) + 1 => ledger'[Len(ledger) + 1] = row
    BY <1>1, <1>3
  <2>3. \A e \in Deposits : Credits(e)' = Credits(e)
    <3>1. ASSUME NEW e \in Deposits PROVE Credits(e)' = Credits(e)
      <4>1. Credits(e)' = {i \in 1..Len(ledger') : ledger'[i].ref = e}
        BY DEF Credits
      <4> QED BY <2>1, <2>2, <4>1 DEF Credits
    <3> QED BY <3>1
  <2>4. \A e \in Deposits : \A i \in Credits(e) : ledger'[i] = ledger[i]
    BY <2>2 DEF Credits
  <2>5. \A q \in Staff : \A e \in Deposits : Approving(job'[q], e) <=> Approving(job[q], e)
    BY <1>6, <1>7, <2>1
  <2>6. ticket' = ticket /\ mishaps' = mishaps
    BY <1>1
  <2>7. Paid'
    BY <2>3, <2>4, <2>5, <2>6 DEF Paid
  <2> QED BY <1>1, <1>2, <1>4, <2>7 DEF Jobs
<1> QED BY <1>8, <1>9

LEMMA CustomerStepKeeps ==
  ASSUME FInv, CustomerStep \/ \E p \in Processes : CacheExpires(p)
  PROVE  FInv'
<1> USE DEF FInv, TypeOK, KeepMoney
<1>1. /\ UNCHANGED <<user, ledger, local, job, begun, mishaps>>
      /\ cached' \in [Processes -> Currencies \cup {None}]
  BY DEF CustomerStep, SubmitDeposit, SubmitTarget, CacheExpires
<1>2. ticket' \in [Tickets -> Requests] /\ \A d \in Deposits : Stands(d)
  <2>1. ASSUME NEW t \in Tickets, ticket[t].status = "ABSENT",
               NEW a \in Amounts, NEW c \in Codes,
               ticket' = [ticket EXCEPT ![t] = [status |-> "PENDING", amount |-> a, code |-> c]]
        PROVE  ticket' \in [Tickets -> Requests] /\ \A d \in Tickets : Stands(d)
    <3>1. [status |-> "PENDING", amount |-> a, code |-> c] \in Requests
      BY NumbersAssumption DEF Requests
    <3> QED BY <2>1, <3>1 DEF Stands
  <2>2. \A t \in Deposits \cup Targets : t \in Tickets
    BY DEF Tickets
  <2>3. ticket' = ticket \/ CustomerStep
    BY DEF CacheExpires
  <2>4. CASE ticket' = ticket
    BY <2>4 DEF Stands
  <2>5. CASE CustomerStep
    BY <2>1, <2>2, <2>5 DEF CustomerStep, SubmitDeposit, SubmitTarget, Codes
  <2> QED BY <2>3, <2>4, <2>5
<1>3. \A d \in Deposits : Credits(d)' = Credits(d)
  BY <1>1 DEF Credits
<1>4. Paid'
  BY <1>1, <1>2, <1>3 DEF Paid, Stands
<1> QED BY <1>1, <1>2, <1>4 DEF Jobs

LEMMA CrashKeeps ==
  ASSUME FInv, NEW p \in Processes, Crash(p)
  PROVE  FInv'
<1> USE DEF FInv, TypeOK
<1>1. /\ job' = [s \in Staff |-> IF ProcessOf[s] = p THEN Idle ELSE job[s]]
      /\ cached' \in [Processes -> Currencies \cup {None}]
      /\ mishaps' = mishaps \cup {"crash"}
      /\ UNCHANGED <<user, ledger, ticket, local, begun>>
  BY DEF Crash, Mishap
<1>2. Jobs' /\ \A s \in Staff : job'[s] \in {Idle, job[s]}
  BY <1>1, IdleIsJob DEF Jobs
<1>3. \A s \in Staff, d \in Deposits : Approving(job'[s], d) => Approving(job[s], d)
  BY <1>2, IdleIsJob
<1>4. \A d \in Deposits : Credits(d)' = Credits(d)
  BY <1>1 DEF Credits
<1>5. Paid'
  <2>1. mishaps' \cap {"crash", "gap", "dust"} # {}
    BY <1>1
  <2>2. ASSUME NEW d \in Deposits
        PROVE  /\ \A s, t \in Staff : Approving(job'[s], d) /\ Approving(job'[t], d) => s = t
               /\ \A i, k \in Credits(d)' : i = k
               /\ \A s \in Staff : Approving(job'[s], d) => Credits(d)' = {}
               /\ (Credits(d)' # {} \/ \E s \in Staff : Approving(job'[s], d))
                    => ticket[d].status \in {"APPROVED", "REJECTED"}
               /\ \A i \in Credits(d)' : ledger[i].delta > 0
    BY <1>3, <1>4 DEF Paid
  <2> QED BY <1>1, <2>1, <2>2 DEF Paid
<1> QED BY <1>1, <1>2, <1>5 DEF Mishaps

LEMMA FInit ==
  ASSUME Init
  PROVE  FInv
<1> USE DEF Init
<1>1. TypeOK
  <2>1. user \in Wallets /\ user.balance \in Int
    <3>1. 0 \in 0..Limit /\ \A b \in Openings : b \in Int
      BY NumbersAssumption
    <3> QED BY <3>1 DEF Wallets
  <2>2. ledger \in Seq([ref: Tickets \cup {None}, delta: Int])
    BY <2>1
  <2>3. ticket \in [Tickets -> Requests]
    BY DEF Requests, Codes
  <2> QED BY <2>1, <2>2, <2>3, JobsBound DEF TypeOK, Mishaps, Currencies
<1>2. Jobs /\ \A s \in Staff, d \in Deposits : ~Approving(job[s], d)
  BY IdleIsJob DEF Jobs
<1>3. \A d \in Deposits : Credits(d) = {} /\ ticket[d].status = "ABSENT"
  BY TicketsAssumption DEF Credits, Tickets
<1>4. Paid
  BY <1>2, <1>3 DEF Paid
<1> QED BY <1>1, <1>2, <1>4 DEF FInv

LEMMA FNext ==
  ASSUME FInv, [Next]_vars
  PROVE  FInv'
<1>1. CASE UNCHANGED vars
  BY <1>1 DEF vars, FInv, TypeOK, Jobs, Paid, Credits
<1> QED
  BY <1>1, CustomerStepKeeps, DepositStepKeeps, WalletStepKeeps, CurrencyStepKeeps,
     WriteRowKeeps, CrashKeeps DEF Next

-----------------------------------------------------------------------------
(* The theorems *)

THEOREM FundsInvariant == Spec => []FInv
<1>1. Init => FInv
  BY FInit
<1>2. FInv /\ [Next]_vars => FInv'
  BY FNext
<1> QED BY <1>1, <1>2, PTL DEF Spec

\* Every variable of the back office keeps to its values.
THEOREM FundsTypesHold == Spec => []TypeOK
<1>1. FInv => TypeOK
  BY DEF FInv
<1> QED BY <1>1, FundsInvariant, PTL

\* Whatever handlers overlap, the process dies or not, a deposit is credited at
\* most once, after an approval, and with more than nothing (approveDeposit).
THEOREM DepositsAreCreditedOnce == Spec => []CreditedOnce
<1>1. ASSUME FInv
      PROVE  CreditedOnce
  <2>1. ASSUME NEW d \in Deposits
        PROVE  /\ Cardinality(Credits(d)) + Cardinality(Crediting(d)) <= 1
               /\ Credits(d) \cup Crediting(d) # {} => ticket[d].status \in {"APPROVED", "REJECTED"}
               /\ \A i \in Credits(d) : ledger[i].delta > 0
    <3>1. \A s \in Crediting(d) : s \in Staff /\ Approving(job[s], d)
      BY <1>1 DEF Crediting, At, Approving
    <3>2. \A S : (\A x, y \in S : x = y) => Cardinality(S) \in {0, 1} /\ (S = {} => Cardinality(S) = 0)
      <4>1. ASSUME NEW S, \A x, y \in S : x = y
            PROVE  S = {} \/ \E x : S = {x}
        BY <4>1
      <4> QED BY <4>1, FS_EmptySet, FS_Singleton
    <3>3. Cardinality(Credits(d)) \in {0, 1} /\ Cardinality(Crediting(d)) \in {0, 1}
      BY <1>1, <3>1, <3>2 DEF FInv, Paid
    <3>4. Credits(d) = {} \/ Crediting(d) = {}
      BY <1>1, <3>1 DEF FInv, Paid
    <3>5. Cardinality(Credits(d)) + Cardinality(Crediting(d)) <= 1
      BY <3>2, <3>3, <3>4
    <3> QED BY <1>1, <3>1, <3>5 DEF FInv, Paid
  <2> QED BY <2>1 DEF CreditedOnce
<1> QED BY <1>1, FundsInvariant, PTL

\* An approved deposit that no handler holds has reached the wallet, unless the
\* process died, no currency was active, or the amount came to nothing.
THEOREM ApprovedDepositsArePaid == Spec => []ApprovedIsPaid
<1>1. FInv => ApprovedIsPaid
  BY DEF FInv, Paid, ApprovedIsPaid, Approving
<1> QED BY <1>1, FundsInvariant, PTL

-----------------------------------------------------------------------------
(* Steps that may never happen *)

LEMMA WhoDecides ==
  ASSUME [Next]_vars, ticket' # ticket
  PROVE  \/ CustomerStep
         \/ \E s \in Staff : SwapToApproved(s) \/ SaveDeposit(s) \/ SwapReviewed(s)
<1> USE DEF OnlyJobs, KeepMoney
<1>1. ASSUME NEW s \in Staff, DepositStep(s)
      PROVE  SwapToApproved(s) \/ SaveDeposit(s) \/ SwapReviewed(s)
  BY <1>1
  DEF DepositStep, StartApproval, ReadOwner, LookUpRate, FillCache, CreditDeposit,
      StartRejection, StartEdit, StartReview
<1>2. ASSUME NEW s \in Staff, WalletStep(s) \/ WriteRow(s)
      PROVE  FALSE
  BY <1>2
  DEF WalletStep, StartAdjustment, WriteAdjustment, Charge, Refund, StartForcedDebit,
      WriteForcedDebit, WriteRow
<1>3. ASSUME NEW s \in Staff, CurrencyStep(s)
      PROVE  FALSE
  BY <1>3
  DEF CurrencyStep, StartRateChange, StartCreation, StartStatusChange, SaveCurrency,
      StartDeletion, RemoveCurrency, InsertCurrency, Invalidate, ReadDebtors,
      SaveStatus, StartSwitch, ReadRates, WriteSwitch
<1> QED BY <1>1, <1>2, <1>3 DEF Next, vars, CacheExpires, Crash

\* What was reviewed is never open again, what was rejected never approved, and a
\* target order keeps its verdict (deposit.service.js, target.service.js).
THEOREM ReviewsStand == Spec => DecisionsStand
<1> DEFINE Kept(t) ==
      /\ ticket[t].status \in {"APPROVED", "REJECTED"} => ticket'[t].status # "PENDING"
      /\ ticket[t].status = "REJECTED" => ticket'[t].status = "REJECTED"
      /\ t \in Targets /\ ticket[t].status = "APPROVED" => ticket'[t].status = "APPROVED"
<1>1. ASSUME FInv, [Next]_vars, NEW t \in Tickets
      PROVE  Kept(t)
  <2> USE <1>1 DEF FInv, TypeOK
  <2>1. ticket[t] \in Requests /\ ticket \in [Tickets -> Requests]
    OBVIOUS
  <2>2. CASE CustomerStep
    BY <2>1, <2>2 DEF CustomerStep, SubmitDeposit, SubmitTarget, Tickets
  <2>3. ASSUME NEW s \in Staff, SwapToApproved(s) \/ SaveDeposit(s) \/ SwapReviewed(s)
        PROVE  Kept(t)
    <3>1. IsJob(job[s])
      BY DEF Jobs
    <3>2. CASE SwapToApproved(s)
      BY <2>1, <3>1, <3>2 DEF SwapToApproved, Swappable, Pending
    <3>3. CASE SaveDeposit(s)
      <4>1. job[s].ref \in Deposits
        BY <3>1, <3>3 DEF SaveDeposit, IsJob, DepositJob
      <4> QED BY <2>1, <3>3, <4>1, TicketsAssumption DEF SaveDeposit, Tickets
    <3>4. CASE SwapReviewed(s)
      BY <2>1, <3>1, <3>4 DEF SwapReviewed, Swappable, Pending
    <3> QED BY <2>3, <3>2, <3>3, <3>4
  <2>4. CASE ticket' = ticket
    BY <2>1, <2>4 DEF Requests
  <2> QED BY <2>2, <2>3, <2>4, WhoDecides
<1>2. FInv /\ [Next]_vars => [\A t \in Tickets : Kept(t)]_vars
  BY <1>1
<1> HIDE DEF Kept
<1>3. [\A t \in Tickets : Kept(t)]_vars <=>
        [\A t \in Tickets :
           /\ ticket[t].status \in {"APPROVED", "REJECTED"} => ~Pending(t)'
           /\ ticket[t].status = "REJECTED" => ticket'[t].status = "REJECTED"
           /\ t \in Targets /\ ticket[t].status = "APPROVED" => ticket'[t].status = "APPROVED"]_vars
  BY DEF Kept, Pending
<1> QED BY <1>2, <1>3, FundsInvariant, PTL DEF Spec, DecisionsStand

LEMMA OthersRest ==
  ASSUME FInv, NEW q \in Staff, NEW s \in Staff, s # q,
         DepositStep(q) \/ WalletStep(q) \/ CurrencyStep(q) \/ WriteRow(q)
  PROVE  job'[s] = job[s]
<1> USE DEF Begin, Goto, Finish, Conclude, OnlyJobs, KeepMoney
<1>1. job = [p \in Staff |-> job[p]]
  BY DEF FInv, Jobs
<1>2. CASE DepositStep(q)
  BY <1>1, <1>2
  DEF DepositStep, StartApproval, ReadOwner, LookUpRate, FillCache, CreditDeposit,
      StartRejection, StartEdit, StartReview, SwapToApproved, SaveDeposit, SwapReviewed
<1>3. CASE WalletStep(q) \/ WriteRow(q)
  BY <1>1, <1>3
  DEF WalletStep, StartAdjustment, WriteAdjustment, Charge, Refund, StartForcedDebit,
      WriteForcedDebit, WriteRow
<1>4. CASE CurrencyStep(q)
  BY <1>1, <1>4
  DEF CurrencyStep, StartRateChange, StartCreation, StartStatusChange, SaveCurrency,
      StartDeletion, RemoveCurrency, InsertCurrency, Invalidate, ReadDebtors,
      SaveStatus, StartSwitch, ReadRates, WriteSwitch
<1> QED BY <1>2, <1>3, <1>4

-----------------------------------------------------------------------------
(* Sums, which the books are about *)

\* Induction, for a set instead of a formula.
LEMMA CountUp ==
  ASSUME NEW T, 0 \in T, \A n \in Nat : n \in T => n + 1 \in T
  PROVE  \A n \in Nat : n \in T
<1> DEFINE Missing == {n \in Nat : n \notin T}
           Less == {p \in Nat \X Nat : p[1] < p[2]}
<1>1. IsWellFoundedOn(Less, Nat)
  BY NatLessThanWellFounded DEF OpToRel
<1> HIDE DEF Less
<1>2. SUFFICES ASSUME Missing # {}
               PROVE  FALSE
  OBVIOUS
<1>3. PICK n \in Missing : \A m \in Missing : <<m, n>> \notin Less
  BY <1>1, <1>2, WFMin
<1>4. n \in Nat /\ n # 0 /\ n - 1 \in Nat /\ n - 1 + 1 = n
  OBVIOUS
<1>5. <<n - 1, n>> \in Less
  BY <1>4 DEF Less
<1> QED BY <1>3, <1>4, <1>5

\* total adds f up over the subsets of S, one element at a time.
AddsUp(total, f, S) ==
  total = [s \in SUBSET S |->
            IF s = {} THEN 0
            ELSE LET x == CHOOSE x \in s : TRUE IN f[x] + total[s \ {x}]]

\* A set with one element less.
LEMMA Smaller ==
  ASSUME NEW s, IsFiniteSet(s), NEW x \in s
  PROVE  /\ IsFiniteSet(s \ {x})
         /\ Cardinality(s) \in Nat /\ Cardinality(s) # 0
         /\ Cardinality(s \ {x}) = Cardinality(s) - 1
BY FS_RemoveElement, FS_CardinalityType, FS_EmptySet

\* Every finite set can be added up.
LEMMA TotalExists ==
  ASSUME NEW S, IsFiniteSet(S), NEW f
  PROVE  \E total : AddsUp(total, f, S)
<1> DEFINE Body(total, s) == IF s = {} THEN 0
                             ELSE LET x == CHOOSE x \in s : TRUE IN f[x] + total[s \ {x}]
           Upto(total, n) == \A s \in SUBSET S : Cardinality(s) <= n => total[s] = Body(total, s)
           T == {n \in Nat : \E total : Upto(total, n)}
<1>1. \A s \in SUBSET S : IsFiniteSet(s) /\ Cardinality(s) \in Nat /\ (Cardinality(s) = 0 <=> s = {})
  BY FS_Subset, FS_CardinalityType, FS_EmptySet
<1>2. \A s \in SUBSET S : s # {} => /\ (CHOOSE x \in s : TRUE) \in s
                                    /\ s \ {CHOOSE x \in s : TRUE} \in SUBSET S
                                    /\ Cardinality(s \ {CHOOSE x \in s : TRUE}) = Cardinality(s) - 1
  BY <1>1, Smaller
<1>3. 0 \in T
  <2>1. Upto([s \in SUBSET S |-> 0], 0)
    BY <1>1
  <2> QED BY <2>1
<1>4. ASSUME NEW n \in T
      PROVE  n + 1 \in T
  <2>1. PICK old : Upto(old, n)
    OBVIOUS
  <2> DEFINE new == [s \in SUBSET S |-> IF Cardinality(s) <= n THEN old[s] ELSE Body(old, s)]
  <2>2. \A s \in SUBSET S : new[s] = Body(old, s)
    BY <2>1
  <2>3. ASSUME NEW s \in SUBSET S, Cardinality(s) <= n + 1
        PROVE  new[s] = Body(new, s)
    <3>1. CASE s = {}
      BY <2>2, <3>1
    <3>2. CASE s # {}
      <4> DEFINE x == CHOOSE x \in s : TRUE
      <4>1. s \ {x} \in SUBSET S /\ Cardinality(s \ {x}) <= n
        BY <1>1, <1>2, <2>3, <3>2
      <4>2. new[s \ {x}] = old[s \ {x}]
        BY <4>1
      <4>3. new[s] = f[x] + old[s \ {x}]
        BY <2>2, <3>2
      <4> HIDE DEF x, new
      <4>4. new[s] = f[x] + new[s \ {x}]
        BY <4>2, <4>3
      <4> QED BY <3>2, <4>4 DEF x
    <3> QED BY <3>1, <3>2
  <2>4. Upto(new, n + 1)
    BY <2>3
  <2> HIDE DEF new, Upto
  <2> QED BY <2>4
<1> HIDE DEF T
<1>5. Cardinality(S) \in T
  BY <1>1, <1>3, <1>4, CountUp
<1> USE DEF T
<1>6. PICK total : Upto(total, Cardinality(S))
  BY <1>5
<1>7. \A s \in SUBSET S : total[s] = Body(total, s)
  BY <1>6, FS_Subset
<1> DEFINE all == [s \in SUBSET S |-> total[s]]
<1>8. \A s \in SUBSET S : all[s] = Body(all, s)
  <2>1. ASSUME NEW s \in SUBSET S
        PROVE  all[s] = Body(all, s)
    <3>1. s # {} => all[s \ {CHOOSE x \in s : TRUE}] = total[s \ {CHOOSE x \in s : TRUE}]
      BY <1>2
    <3>2. all[s] = Body(total, s)
      BY <1>7
    <3> HIDE DEF all
    <3> QED BY <3>1, <3>2
  <2> QED BY <2>1
<1>9. all = [s \in SUBSET S |-> Body(all, s)]
  <2>1. all = [s \in SUBSET S |-> all[s]]
    OBVIOUS
  <2> HIDE DEF all, Body
  <2> QED BY <1>8, <2>1
<1> HIDE DEF all
<1> QED BY <1>9 DEF AddsUp

\* The total of any element and the rest, in whatever order it was formed.
LEMMA TotalOfAny ==
  ASSUME NEW S, IsFiniteSet(S), NEW f, \A x \in S : f[x] \in Int, NEW total, AddsUp(total, f, S)
  PROVE  \A s \in SUBSET S : /\ total[s] \in Int
                            /\ \A y \in s : total[s] = f[y] + total[s \ {y}]
<1> DEFINE Fine(s) == total[s] \in Int /\ \A y \in s : total[s] = f[y] + total[s \ {y}]
           T == {n \in Nat : \A s \in SUBSET S : Cardinality(s) <= n => Fine(s)}
<1>1. \A s \in SUBSET S : IsFiniteSet(s) /\ Cardinality(s) \in Nat /\ (Cardinality(s) = 0 <=> s = {})
  BY FS_Subset, FS_CardinalityType, FS_EmptySet
<1>2. ASSUME NEW s \in SUBSET S, s # {}
      PROVE  \E x \in s : total[s] = f[x] + total[s \ {x}]
  <2> DEFINE x == CHOOSE x \in s : TRUE
  <2>1. total[s] = f[x] + total[s \ {x}]
    BY <1>2 DEF AddsUp
  <2>2. x \in s
    BY <1>2
  <2> HIDE DEF x
  <2> QED BY <2>1, <2>2
<1>3. 0 \in T
  <2>1. total[{}] = 0
    BY DEF AddsUp
  <2> QED BY <1>1, <2>1
<1>4. ASSUME NEW n \in T
      PROVE  n + 1 \in T
  <2>1. ASSUME NEW s \in SUBSET S, Cardinality(s) <= n
        PROVE  Fine(s)
    BY <2>1
  <2> HIDE DEF Fine
  <2>2. ASSUME NEW s \in SUBSET S, Cardinality(s) <= n + 1, s # {}
        PROVE  Fine(s)
    <3>1. PICK x \in s : total[s] = f[x] + total[s \ {x}]
      BY <1>2, <2>2
    <3>2. \A y \in s : s \ {y} \in SUBSET S /\ Cardinality(s \ {y}) <= n
      BY <1>1, <2>2, Smaller
    <3>3. \A y \in s : Fine(s \ {y})
      BY <2>1, <3>2
    <3>4. total[s \ {x}] \in Int /\ f[x] \in Int
      BY <3>3 DEF Fine
    <3>5. ASSUME NEW y \in s, y # x
          PROVE  total[s] = f[y] + total[s \ {y}]
      <4> DEFINE rest == (s \ {x}) \ {y}
      <4>1. total[s \ {x}] = f[y] + total[rest]
        BY <3>3, <3>5 DEF Fine
      <4>2. rest = (s \ {y}) \ {x}
        OBVIOUS
      <4>3. total[s \ {y}] = f[x] + total[rest]
        BY <3>3, <3>5, <4>2 DEF Fine
      <4>4. rest \in SUBSET S /\ Cardinality(rest) <= n
        <5>1. y \in s \ {x} /\ s \ {x} \in SUBSET S
          BY <3>5
        <5>2. Cardinality(rest) = Cardinality(s \ {x}) - 1 /\ Cardinality(s \ {x}) \in Nat
          BY <1>1, <5>1, Smaller
        <5> QED BY <3>2, <5>2
      <4>5. total[rest] \in Int
        BY <2>1, <4>4 DEF Fine
      <4>6. f[y] \in Int
        OBVIOUS
      <4> HIDE DEF rest
      <4> QED BY <3>1, <3>4, <4>1, <4>3, <4>5, <4>6
    <3>6. total[s] \in Int
      BY <3>1, <3>4
    <3> QED BY <3>1, <3>5, <3>6 DEF Fine
  <2>3. \A s \in SUBSET S : Cardinality(s) <= n + 1 => Fine(s)
    <3>1. Fine({})
      BY <1>1, <2>1
    <3> QED BY <2>2, <3>1
  <2> QED BY <2>3
<1> HIDE DEF T
<1>5. \A n \in Nat : n \in T
  BY <1>3, <1>4, CountUp
<1> USE DEF T
<1>6. ASSUME NEW s \in SUBSET S
      PROVE  Fine(s)
  <2>1. Cardinality(s) \in T
    BY <1>1, <1>5
  <2> HIDE DEF Fine
  <2> QED BY <1>1, <2>1
<1> QED BY <1>6

\* Only the values at the elements count.
LEMMA TotalsAgree ==
  ASSUME NEW S, IsFiniteSet(S), NEW f, \A x \in S : f[x] \in Int, NEW total, AddsUp(total, f, S),
         NEW R, IsFiniteSet(R), NEW g, \A x \in R : g[x] \in Int, NEW sum, AddsUp(sum, g, R),
         NEW s, s \subseteq S, s \subseteq R, \A x \in s : f[x] = g[x]
  PROVE  total[s] = sum[s]
<1> DEFINE T == {n \in Nat : \A q \in SUBSET s : Cardinality(q) = n => total[q] = sum[q]}
<1>1. \A q \in SUBSET s : /\ IsFiniteSet(q) /\ Cardinality(q) \in Nat /\ (Cardinality(q) = 0 <=> q = {})
                          /\ q \in SUBSET S /\ q \in SUBSET R
  BY FS_Subset, FS_CardinalityType, FS_EmptySet
<1>2. total[{}] = 0 /\ sum[{}] = 0
  BY DEF AddsUp
<1>3. 0 \in T
  BY <1>1, <1>2
<1>4. ASSUME NEW n \in T
      PROVE  n + 1 \in T
  <2>1. ASSUME NEW q \in SUBSET s, Cardinality(q) = n + 1
        PROVE  total[q] = sum[q]
    <3>1. PICK x : x \in q
      BY <1>1, <2>1
    <3>2. Cardinality(q \ {x}) = n
      BY <1>1, <2>1, <3>1, Smaller
    <3>3. total[q \ {x}] = sum[q \ {x}]
      BY <3>2
    <3>4. total[q] = f[x] + total[q \ {x}] /\ sum[q] = g[x] + sum[q \ {x}]
      BY <1>1, <3>1, TotalOfAny
    <3> QED BY <3>1, <3>3, <3>4
  <2> QED BY <2>1
<1> HIDE DEF T
<1>5. Cardinality(s) \in T
  BY <1>1, <1>3, <1>4, CountUp
<1> QED BY <1>5 DEF T

\* v is the sum of f over S.
IsTotal(v, f, S) == \E total : AddsUp(total, f, S) /\ v = total[S]

\* One value changes.
LEMMA TotalMoves ==
  ASSUME NEW S, IsFiniteSet(S), NEW y \in S,
         NEW f, \A x \in S : f[x] \in Int, NEW v, IsTotal(v, f, S),
         NEW g, \A x \in S : g[x] \in Int, NEW w, IsTotal(w, g, S),
         \A x \in S \ {y} : f[x] = g[x]
  PROVE  v \in Int /\ w = v + g[y] - f[y]
<1>1. PICK total : AddsUp(total, f, S) /\ v = total[S]
  BY DEF IsTotal
<1>2. PICK sum : AddsUp(sum, g, S) /\ w = sum[S]
  BY DEF IsTotal
<1>3. /\ S \in SUBSET S /\ S \ {y} \in SUBSET S
      /\ f[y] \in Int /\ g[y] \in Int
  OBVIOUS
<1>4. /\ v \in Int /\ total[S \ {y}] \in Int /\ v = f[y] + total[S \ {y}]
      /\ w = g[y] + sum[S \ {y}]
  BY <1>1, <1>2, <1>3, TotalOfAny
<1>5. total[S \ {y}] = sum[S \ {y}]
  BY <1>1, <1>2, TotalsAgree
<1> QED BY <1>3, <1>4, <1>5

\* One more value.
LEMMA TotalGrows ==
  ASSUME NEW S, IsFiniteSet(S), NEW y, y \notin S, NEW R, R = S \cup {y},
         NEW f, \A x \in S : f[x] \in Int, NEW v, IsTotal(v, f, S),
         NEW g, \A x \in R : g[x] \in Int, NEW w, IsTotal(w, g, R),
         \A x \in S : f[x] = g[x]
  PROVE  v \in Int /\ w = v + g[y]
<1>1. PICK total : AddsUp(total, f, S) /\ v = total[S]
  BY DEF IsTotal
<1>2. PICK sum : AddsUp(sum, g, R) /\ w = sum[R]
  BY DEF IsTotal
<1>3. IsFiniteSet(R) /\ \A x \in R : g[x] \in Int
  BY FS_AddElement
<1>4. sum[R] = g[y] + sum[S]
  <2>1. \A s \in SUBSET R : /\ sum[s] \in Int
                            /\ \A x \in s : sum[s] = g[x] + sum[s \ {x}]
    <3>1. AddsUp(sum, g, R) /\ IsFiniteSet(R)
      BY <1>2, <1>3
    <3>2. \A x \in R : g[x] \in Int
      BY <1>3
    <3>3. ASSUME NEW s \in SUBSET R
          PROVE  sum[s] \in Int
      BY <3>1, <3>2, <3>3, TotalOfAny
    <3>4. ASSUME NEW s \in SUBSET R, NEW z \in s
          PROVE  sum[s] = g[z] + sum[s \ {z}]
      BY <3>1, <3>2, <3>3, TotalOfAny
    <3> QED BY <3>3, <3>4
  <2>2. R \ {y} = S /\ R \in SUBSET R /\ y \in R
    OBVIOUS
  <2> QED BY <2>1, <2>2
<1>5. total[S] = sum[S]
  BY <1>1, <1>2, <1>3, TotalsAgree
<1>6. v \in Int /\ g[y] \in Int
  BY <1>1, TotalOfAny
<1>7. w = g[y] + v
  BY <1>1, <1>2, <1>4, <1>5
<1> QED BY <1>6, <1>7

\* Of one.
LEMMA TotalOfOne ==
  ASSUME NEW y, NEW S, S = {y}, NEW f, f[y] \in Int, NEW v, IsTotal(v, f, S)
  PROVE  v = f[y]
<1>1. PICK total : AddsUp(total, f, S) /\ v = total[S]
  BY DEF IsTotal
<1>2. total[{}] = 0
  BY <1>1 DEF AddsUp
<1>3. (CHOOSE x \in S : TRUE) = y /\ S # {} /\ S \ {y} = {}
  OBVIOUS
<1>4. total[S] = f[y] + total[S \ {y}]
  BY <1>1, <1>3 DEF AddsUp
<1> QED BY <1>1, <1>2, <1>3, <1>4

\* Of nothing.
LEMMA TotalOfNothing ==
  ASSUME NEW S, IsFiniteSet(S), NEW f, \A x \in S : f[x] = 0, NEW v, IsTotal(v, f, S)
  PROVE  v = 0
<1> DEFINE none == [s \in SUBSET S |-> 0]
<1>1. PICK total : AddsUp(total, f, S) /\ v = total[S]
  BY DEF IsTotal
<1>2. AddsUp(none, f, S)
  <2>1. ASSUME NEW s \in SUBSET S, s # {}
        PROVE  0 = f[CHOOSE x \in s : TRUE] + none[s \ {CHOOSE x \in s : TRUE}]
    <3>1. (CHOOSE x \in s : TRUE) \in S /\ s \ {CHOOSE x \in s : TRUE} \in SUBSET S
      BY <2>1
    <3> QED BY <3>1
  <2> QED BY <2>1 DEF AddsUp
<1>3. total[S] = none[S]
  BY <1>1, <1>2, TotalsAgree
<1> QED BY <1>1, <1>3

-----------------------------------------------------------------------------
(* The books *)

\* What the balance has got and no row tells yet.
Due(j) == IF j.pc = "row" THEN j.amount ELSE 0
Dues == [s \in Staff |-> Due(job[s])]
Deltas == [i \in DOMAIN ledger |-> ledger[i].delta]

\* Underway and Told are what adding these up one at a time gives.
LEMMA UnderwayIsTotal == IsTotal(Underway, Dues, Staff)
<1> DEFINE Sum(g) == [S \in SUBSET Staff |->
                       IF S = {} THEN 0
                       ELSE LET s == CHOOSE s \in S : TRUE IN
                            (IF job[s].pc = "row" THEN job[s].amount ELSE 0) + g[S \ {s}]]
           total == CHOOSE g : g = Sum(g)
<1>1. \A g : AddsUp(g, Dues, Staff) <=> g = Sum(g)
  <2>1. ASSUME NEW S \in SUBSET Staff, S # {}
        PROVE  LET s == CHOOSE s \in S : TRUE IN
               Dues[s] = IF job[s].pc = "row" THEN job[s].amount ELSE 0
    BY <2>1 DEF Dues, Due
  <2> QED BY <2>1 DEF AddsUp
<1>2. \E g : g = Sum(g)
  <2>1. PICK g : AddsUp(g, Dues, Staff)
    BY TotalExists, StaffAssumption
  <2> HIDE DEF Sum
  <2> QED BY <1>1, <2>1
<1>3. Underway = total[Staff]
  BY DEF Underway, MapThenFoldSet
<1>4. total = Sum(total)
  BY <1>2
<1> HIDE DEF total, Sum
<1> QED BY <1>1, <1>3, <1>4 DEF IsTotal

LEMMA ToldIsTotal ==
  IsFiniteSet(DOMAIN ledger) => IsTotal(Told, Deltas, DOMAIN ledger)
<1> DEFINE Sum(g) == [S \in SUBSET (DOMAIN ledger) |->
                       IF S = {} THEN 0
                       ELSE LET i == CHOOSE i \in S : TRUE IN ledger[i].delta + g[S \ {i}]]
           total == CHOOSE g : g = Sum(g)
<1> SUFFICES ASSUME IsFiniteSet(DOMAIN ledger)
             PROVE  IsTotal(Told, Deltas, DOMAIN ledger)
  OBVIOUS
<1>1. \A g : AddsUp(g, Deltas, DOMAIN ledger) <=> g = Sum(g)
  <2>1. ASSUME NEW S \in SUBSET (DOMAIN ledger), S # {}
        PROVE  LET i == CHOOSE i \in S : TRUE IN Deltas[i] = ledger[i].delta
    BY <2>1 DEF Deltas
  <2> QED BY <2>1 DEF AddsUp
<1>2. \E g : g = Sum(g)
  <2>1. PICK g : AddsUp(g, Deltas, DOMAIN ledger)
    BY TotalExists
  <2> HIDE DEF Sum
  <2> QED BY <1>1, <2>1
<1>3. Told = total[DOMAIN ledger]
  BY DEF Told, FoldSeq, FoldFunction, FoldFunctionOnSet, MapThenFoldSet
<1>4. total = Sum(total)
  BY <1>2
<1> HIDE DEF total, Sum
<1> QED BY <1>1, <1>3, <1>4 DEF IsTotal

LEMMA DueType == \A j : IsJob(j) => Due(j) \in Int
BY DEF Due, IsJob

LEMMA ToldOfTypes ==
  TypeOK => /\ DOMAIN ledger = 1..Len(ledger) /\ IsFiniteSet(DOMAIN ledger) /\ Len(ledger) \in Nat
            /\ \A i \in DOMAIN ledger : Deltas[i] \in Int
            /\ IsTotal(Told, Deltas, DOMAIN ledger)
<1> SUFFICES ASSUME TypeOK
             PROVE  /\ DOMAIN ledger = 1..Len(ledger) /\ IsFiniteSet(DOMAIN ledger)
                    /\ Len(ledger) \in Nat
                    /\ \A i \in DOMAIN ledger : Deltas[i] \in Int
                    /\ IsTotal(Told, Deltas, DOMAIN ledger)
  OBVIOUS
<1>1. ledger \in Seq([ref: Tickets \cup {None}, delta: Int])
  BY DEF TypeOK
<1>2. DOMAIN ledger = 1..Len(ledger) /\ Len(ledger) \in Nat
  BY <1>1
<1>3. \A i \in 1..Len(ledger) : ledger[i].delta \in Int
  <2> DEFINE Row == [ref: Tickets \cup {None}, delta: Int]
  <2>1. \A r \in Row : r.delta \in Int
    OBVIOUS
  <2> HIDE DEF Row
  <2>2. ledger \in Seq(Row)
    BY <1>1 DEF Row
  <2>3. \A i \in 1..Len(ledger) : ledger[i] \in Row
    BY <2>2
  <2> QED BY <2>1, <2>3
<1>4. \A i \in DOMAIN ledger : Deltas[i] \in Int
  BY <1>2, <1>3 DEF Deltas
<1>5. IsFiniteSet(DOMAIN ledger)
  BY <1>2, FS_Interval
<1> QED BY <1>2, <1>4, <1>5, ToldIsTotal

\* What the step of one handler makes of the two sums.
LEMMA UnderwayMoves ==
  ASSUME FInv, FInv', NEW s \in Staff, \A q \in Staff \ {s} : job'[q] = job[q]
  PROVE  Underway \in Int /\ Underway' = Underway + Due(job'[s]) - Due(job[s])
<1>1. IsTotal(Underway, Dues, Staff) /\ IsTotal(Underway', Dues', Staff)
  <2>1. IsTotal(Underway, Dues, Staff)'
    BY UnderwayIsTotal, PTL
  <2> QED BY <2>1, UnderwayIsTotal
<1>2. \A q \in Staff : /\ Dues[q] = Due(job[q]) /\ Dues[q] \in Int
                       /\ Dues'[q] = Due(job'[q]) /\ Dues'[q] \in Int
  BY DueType DEF FInv, Jobs, Dues
<1>3. \A q \in Staff \ {s} : Dues[q] = Dues'[q]
  BY <1>2
<1> HIDE DEF Dues
<1>4. Underway \in Int /\ Underway' = Underway + Dues'[s] - Dues[s]
  BY <1>1, <1>2, <1>3, StaffAssumption, TotalMoves
<1> QED BY <1>2, <1>4

LEMMA ToldGrows ==
  ASSUME FInv, FInv', NEW ref, NEW delta \in Int, Booked(ref, delta)
  PROVE  Told \in Int /\ Told' = Told + delta
<1>1. TypeOK /\ TypeOK'
  BY DEF FInv
<1>2. /\ DOMAIN ledger = 1..Len(ledger) /\ IsFiniteSet(DOMAIN ledger) /\ Len(ledger) \in Nat
      /\ \A i \in DOMAIN ledger : Deltas[i] \in Int
      /\ IsTotal(Told, Deltas, DOMAIN ledger)
  BY <1>1, ToldOfTypes
<1>3. /\ \A i \in DOMAIN ledger' : Deltas'[i] \in Int
      /\ IsTotal(Told', Deltas', DOMAIN ledger')
  <2>1. (TypeOK => /\ DOMAIN ledger = 1..Len(ledger) /\ IsFiniteSet(DOMAIN ledger)
                   /\ Len(ledger) \in Nat
                   /\ \A i \in DOMAIN ledger : Deltas[i] \in Int
                   /\ IsTotal(Told, Deltas, DOMAIN ledger))'
    BY ToldOfTypes, PTL
  <2> QED BY <1>1, <2>1
<1>4. CASE delta # 0
  <2> DEFINE n == Len(ledger) + 1
  <2>1. ledger' = Append(ledger, [ref |-> ref, delta |-> delta])
    BY <1>4 DEF Booked
  <2>2. /\ DOMAIN ledger' = DOMAIN ledger \cup {n} /\ n \notin DOMAIN ledger
        /\ Deltas'[n] = delta /\ \A i \in DOMAIN ledger : Deltas[i] = Deltas'[i]
    BY <1>2, <2>1 DEF FInv, TypeOK, Deltas
  <2> HIDE DEF n, Deltas, Told
  <2>3. Told \in Int /\ Told' = Told + Deltas'[n]
    <3>1. IsFiniteSet(DOMAIN ledger) /\ IsTotal(Told, Deltas, DOMAIN ledger)
      BY <1>2
    <3>2. IsTotal(Told', Deltas', DOMAIN ledger')
      BY <1>3
    <3>3. \A i \in DOMAIN ledger : Deltas[i] \in Int
      BY <1>2
    <3>4. \A i \in DOMAIN ledger' : Deltas'[i] \in Int
      BY <1>3
    <3> QED BY ONLY <2>2, <3>1, <3>2, <3>3, <3>4, TotalGrows
  <2> QED BY <2>2, <2>3
<1>5. CASE delta = 0
  <2>1. ledger' = ledger
    BY <1>5 DEF Booked
  <2>2. Told' = Told
    BY <2>1 DEF Told, FoldSeq, FoldFunction, FoldFunctionOnSet, MapThenFoldSet
  <2>3. Told \in Int
    <3>1. PICK total : AddsUp(total, Deltas, DOMAIN ledger) /\ Told = total[DOMAIN ledger]
      BY <1>2 DEF IsTotal
    <3> HIDE DEF Deltas, Told
    <3> QED BY <1>2, <3>1, TotalOfAny
  <2> QED BY <1>5, <2>2, <2>3
<1> QED BY <1>4, <1>5

\* What excuses a difference between the balance and the books.
Unbooked == {"stale", "switch", "crash"}

\* A step of one handler moves the balance by what it owes the ledger afterwards
\* less what it owed before, or says that it did not.
Kept(s) ==
  /\ mishaps \subseteq mishaps' /\ ledger' = ledger
  /\ \/ mishaps' \cap Unbooked # {}
     \/ user'.balance = user.balance + Due(job'[s]) - Due(job[s])

LEMMA BeginsClear ==
  ASSUME FInv, NEW s \in Staff, NEW read, Begin(s, read)
  PROVE  job'[s] = Filled(read) /\ Due(job[s]) = 0
BY DEF Begin, FInv, Jobs, Idle, Due

LEMMA WalletKeepsBooks ==
  ASSUME FInv, FInv', NEW s \in Staff, WalletStep(s)
  PROVE  Kept(s)
<1>1. /\ user.balance \in Int /\ IsJob(job[s]) /\ job = [q \in Staff |-> job[q]]
      /\ \A a \in Amounts : a \in Int /\ -a \in Int
  BY NumbersAssumption DEF FInv, TypeOK, Jobs, Wallets
<1>2. ASSUME NEW a, NEW op, StartAdjustment(s, op, a)
      PROVE  Kept(s)
  <2> DEFINE read == [op |-> op, pc |-> "write", arg |-> a, saw |-> user]
  <2>1. Begin(s, read) /\ UNCHANGED <<user, ledger, mishaps>>
    BY <1>2 DEF StartAdjustment
  <2>2. Filled(read).pc = "write"
    BY DEF Filled, Idle
  <2> HIDE DEF read
  <2> QED BY <1>1, <2>1, <2>2, BeginsClear DEF Kept, Due
<1>3. ASSUME NEW a \in Amounts, Charge(s, a)
      PROVE  Kept(s)
  <2> DEFINE read == [op |-> "charge", pc |-> "row", amount |-> -a]
  <2>1. Begin(s, read) /\ UNCHANGED <<ledger, mishaps>> /\ user'.balance = user.balance - a
    BY <1>3 DEF Charge, FInv, TypeOK, Wallets
  <2>2. Due(Filled(read)) = -a
    BY DEF Filled, Idle, Due
  <2> HIDE DEF read
  <2> QED BY <1>1, <2>1, <2>2, BeginsClear DEF Kept
<1>4. ASSUME NEW a \in Amounts, NEW credit, Refund(s, a, credit)
      PROVE  Kept(s)
  <2> DEFINE read == [op |-> "refund", pc |-> "row", amount |-> a]
  <2>1. Begin(s, read) /\ UNCHANGED <<ledger, mishaps>> /\ user'.balance = user.balance + a
    BY <1>4 DEF Refund, FInv, TypeOK, Wallets
  <2>2. Due(Filled(read)) = a
    BY DEF Filled, Idle, Due
  <2> HIDE DEF read
  <2> QED BY <1>1, <2>1, <2>2, BeginsClear DEF Kept
<1>5. ASSUME NEW a \in Amounts, StartForcedDebit(s, a)
      PROVE  Kept(s)
  <2> DEFINE read == [op |-> "force", pc |-> "write", amount |-> -a, saw |-> user]
  <2>1. Begin(s, read) /\ UNCHANGED <<user, ledger, mishaps>>
    BY <1>5 DEF StartForcedDebit
  <2>2. Due(Filled(read)) = 0
    BY DEF Filled, Idle, Due
  <2> HIDE DEF read
  <2> QED BY <1>1, <2>1, <2>2, BeginsClear DEF Kept
<1>6. CASE WriteAdjustment(s)
  <2> DEFINE new == Adjusted(job[s])
  <2>1. /\ job[s].op \in {"add", "deduct", "set", "debt"} /\ job[s].pc = "write"
        /\ new.balance \in Int /\ job[s].saw.balance \in Int
    BY <1>1, <1>6, AdjustedType DEF WriteAdjustment, IsJob, WalletJob, Wallets
  <2>2. /\ user'.balance = new.balance /\ ledger' = ledger
        /\ job' = [job EXCEPT ![s].pc = "row", ![s].amount = new.balance - job[s].saw.balance]
        /\ mishaps' = IF user.balance = job[s].saw.balance THEN mishaps ELSE mishaps \cup {"stale"}
    BY <1>6 DEF WriteAdjustment, FInv, TypeOK, Wallets
  <2> HIDE DEF new
  <2>3. Due(job[s]) = 0 /\ Due(job'[s]) = new.balance - job[s].saw.balance
    BY <1>1, <2>1, <2>2 DEF Due, IsJob, Idle
  <2>4. CASE user.balance = job[s].saw.balance
    BY <1>1, <2>1, <2>2, <2>3, <2>4 DEF Kept
  <2>5. CASE user.balance # job[s].saw.balance
    BY <2>2, <2>5 DEF Kept, Unbooked
  <2> QED BY <2>4, <2>5
<1>7. CASE WriteForcedDebit(s)
  <2>1. /\ job[s].pc = "write" /\ job' = [job EXCEPT ![s].pc = "row"]
        /\ user'.balance = user.balance + job[s].amount /\ UNCHANGED <<ledger, mishaps>>
    BY <1>7 DEF WriteForcedDebit, At, Goto, Forced, FInv, TypeOK, Wallets
  <2>2. Due(job[s]) = 0 /\ Due(job'[s]) = job[s].amount /\ job[s].amount \in Int
    BY <1>1, <2>1 DEF Due, IsJob, Idle
  <2> QED BY <1>1, <2>1, <2>2 DEF Kept
<1> QED
  BY <1>2, <1>3, <1>4, <1>5, <1>6, <1>7 DEF WalletStep

LEMMA DepositKeepsBooks ==
  ASSUME FInv, FInv', NEW s \in Staff, DepositStep(s)
  PROVE  Kept(s)
<1>1. /\ user.balance \in Int /\ IsJob(job[s]) /\ job = [q \in Staff |-> job[q]]
  BY DEF FInv, TypeOK, Jobs, Wallets
<1>2. ASSUME NEW read, Begin(s, read), Filled(read).pc # "row", UNCHANGED <<user, ledger, mishaps>>
      PROVE  Kept(s)
  BY <1>1, <1>2, BeginsClear DEF Kept, Due
<1>3. ASSUME NEW d \in Deposits, NEW a, NEW c, StartApproval(s, d, a, c)
      PROVE  Kept(s)
  <2> DEFINE read == [op |-> "approve", pc |-> "swap", ref |-> d, arg |-> a, saw |-> c,
                      amount |-> IF a = 0 THEN ticket[d].amount ELSE a,
                      code |-> IF c = None THEN ticket[d].code ELSE c]
  <2>1. Begin(s, read) /\ UNCHANGED <<user, ledger, mishaps>>
    BY <1>3 DEF StartApproval, OnlyJobs
  <2>2. Filled(read).pc # "row"
    BY DEF Filled, Idle
  <2> HIDE DEF read
  <2> QED BY <1>2, <2>1, <2>2
<1>4. ASSUME NEW d, NEW a, StartRejection(s, d) \/ StartEdit(s, d, a)
      PROVE  Kept(s)
  BY <1>2, <1>4 DEF StartRejection, StartEdit, OnlyJobs, Filled, Idle
<1>5. ASSUME NEW d, NEW v, StartReview(s, d, v)
      PROVE  Kept(s)
  <2> DEFINE read == [op |-> "review", pc |-> "swap", ref |-> d, saw |-> v]
  <2>1. Begin(s, read) /\ UNCHANGED <<user, ledger, mishaps>>
    BY <1>5 DEF StartReview, OnlyJobs
  <2>2. Filled(read).pc # "row"
    BY DEF Filled, Idle
  <2> HIDE DEF read
  <2> QED BY <1>2, <2>1, <2>2
<1>6. ASSUME job[s].pc # "row", job'[s].pc # "row",
             UNCHANGED <<user, ledger>>, mishaps \subseteq mishaps'
      PROVE  Kept(s)
  BY <1>1, <1>6 DEF Kept, Due
<1>7. SwapToApproved(s) \/ ReadOwner(s) \/ SaveDeposit(s) \/ SwapReviewed(s) => Kept(s)
  BY <1>1, <1>6
  DEF SwapToApproved, ReadOwner, SaveDeposit, SwapReviewed, At, Goto, Finish, OnlyJobs, IsJob, Idle
<1>8. LookUpRate(s) \/ FillCache(s) => Kept(s)
  BY <1>1, <1>6 DEF LookUpRate, FillCache, At, Finish, Mishap, IsJob, Idle
<1>9. CASE CreditDeposit(s)
  <2>1. CASE job[s].amount <= 0
    BY <1>1, <1>6, <1>9, <2>1 DEF CreditDeposit, At, Finish, Mishap, Idle
  <2>2. CASE ~(job[s].amount <= 0)
    <3>1. /\ job[s].pc = "credit" /\ job' = [job EXCEPT ![s].pc = "row"]
          /\ user'.balance = user.balance + job[s].amount /\ UNCHANGED <<ledger, mishaps>>
      BY <1>9, <2>2 DEF CreditDeposit, At, Goto, FInv, TypeOK, Wallets
    <3>2. Due(job[s]) = 0 /\ Due(job'[s]) = job[s].amount /\ job[s].amount \in Int
      BY <1>1, <3>1 DEF Due, IsJob, Idle
    <3> QED BY <1>1, <3>1, <3>2 DEF Kept
  <2> QED BY <2>1, <2>2
<1> QED
  BY <1>3, <1>4, <1>5, <1>7, <1>8, <1>9 DEF DepositStep

LEMMA CurrencyKeepsBooks ==
  ASSUME FInv, FInv', NEW s \in Staff, CurrencyStep(s)
  PROVE  Kept(s)
<1> USE DEF KeepMoney
<1>1. /\ user.balance \in Int /\ IsJob(job[s]) /\ job = [q \in Staff |-> job[q]]
  BY DEF FInv, TypeOK, Jobs, Wallets
<1>2. ASSUME NEW read, Begin(s, read), Filled(read).pc # "row", UNCHANGED <<user, ledger, mishaps>>
      PROVE  Kept(s)
  BY <1>1, <1>2, BeginsClear DEF Kept, Due
<1>3. ASSUME NEW r, NEW a, NEW t, StartRateChange(s, r, a, t)
      PROVE  Kept(s)
  BY <1>2, <1>3 DEF StartRateChange, Filled, Idle
<1>4. ASSUME NEW r, NEW b, StartCreation(s, r, b)
      PROVE  Kept(s)
  BY <1>2, <1>4 DEF StartCreation, Filled, Idle
<1>5. ASSUME NEW b, StartStatusChange(s, b) \/ StartSwitch(s, b)
      PROVE  Kept(s)
  BY <1>2, <1>5 DEF StartStatusChange, StartSwitch, Filled, Idle
<1>6. StartDeletion(s) => Kept(s)
  BY <1>2 DEF StartDeletion, Filled, Idle
<1>7. ASSUME job[s].pc # "row", job'[s].pc # "row",
             UNCHANGED <<user, ledger>>, mishaps \subseteq mishaps'
      PROVE  Kept(s)
  BY <1>1, <1>7 DEF Kept, Due
<1>8. SaveCurrency(s) \/ RemoveCurrency(s) \/ InsertCurrency(s) \/ SaveStatus(s) => Kept(s)
  BY <1>1, <1>7
  DEF SaveCurrency, RemoveCurrency, InsertCurrency, SaveStatus, At, Goto, Finish, IsJob, Idle
<1>9. ReadRates(s) => Kept(s)
  BY <1>1, <1>7 DEF ReadRates, At, Finish, IsJob, Idle
<1>10. CASE Invalidate(s) \/ ReadDebtors(s)
  <2>1. job[s].pc \in {"invalidate", "debtors"} /\ UNCHANGED <<user, ledger, mishaps>>
    BY <1>10 DEF Invalidate, ReadDebtors, At
  <2>2. "pc" \in DOMAIN job[s]
    BY <1>1 DEF IsJob, Idle
  <2>3. job'[s].pc # "row"
    <3>1. Conclude(s) => job'[s].pc \in {"idle", "toggle"}
      BY <1>1, <2>2 DEF Conclude, Finish, Goto, Idle
    <3>2. CASE Invalidate(s)
      BY <1>1, <2>2, <3>1, <3>2 DEF Invalidate, Goto
    <3>3. CASE ReadDebtors(s)
      <4> DEFINE becomes(saw, arg) == [job[s] EXCEPT !.op = "debt", !.pc = "write",
                                                     !.saw = saw, !.arg = arg]
      <4>1. Conclude(s) \/ \E saw, arg : job'[s] = becomes(saw, arg)
        <5> DEFINE change == Rounded(-user.balance * (job[s].arg - job[s].doc.rate), job[s].doc.rate)
                   left == job' = [job EXCEPT ![s].op = "debt", ![s].pc = "write",
                                              ![s].saw = user, ![s].arg = user.balance - change]
        <5>1. Conclude(s) \/ left
          BY <3>3 DEF ReadDebtors
        <5>2. left => job'[s] = becomes(user, user.balance - change)
          BY <1>1
        <5> HIDE DEF left, change, becomes
        <5> QED BY <5>1, <5>2
      <4>2. \A saw, arg : becomes(saw, arg).pc = "write"
        BY <1>1, <2>2 DEF IsJob, Idle
      <4> HIDE DEF becomes
      <4> QED BY <3>1, <4>1, <4>2
    <3> QED BY <1>10, <3>2, <3>3
  <2> QED BY <1>7, <2>1, <2>3
<1>11. CASE WriteSwitch(s)
  BY <1>11 DEF WriteSwitch, Kept, Unbooked
<1> QED
  BY <1>3, <1>4, <1>5, <1>6, <1>8, <1>9, <1>10, <1>11 DEF CurrencyStep

\* The balance is what the ledger tells and what is under way.
Books == FInv /\ LedgerTellsBalance

LEMMA BooksInit ==
  ASSUME Init
  PROVE  Books
<1>1. FInv
  BY FInit
<1>2. Underway = 0
  <2>1. \A s \in Staff : Dues[s] = 0
    BY DEF Init, Dues, Due, Idle
  <2> QED BY <2>1, UnderwayIsTotal, StaffAssumption, TotalOfNothing
<1>3. Told = user.balance
  <2>1. DOMAIN ledger = {1} /\ Deltas[1] = user.balance /\ user.balance \in Int
    <3>1. ledger = <<[ref |-> None, delta |-> user.balance]>> /\ user.balance \in Int
      BY <1>1 DEF Init, FInv, TypeOK, Wallets
    <3>2. DOMAIN ledger = {1} /\ ledger[1].delta = user.balance
      BY <3>1
    <3> QED BY <3>1, <3>2 DEF Deltas
  <2>2. IsTotal(Told, Deltas, {1})
    BY <1>1, <2>1, ToldOfTypes DEF FInv
  <2> HIDE DEF Deltas, Told
  <2> QED BY <2>1, <2>2, TotalOfOne
<1>4. user.balance \in Int
  BY <1>1 DEF FInv, TypeOK, Wallets
<1> QED BY <1>1, <1>2, <1>3, <1>4 DEF Books, LedgerTellsBalance

LEMMA BooksNext ==
  ASSUME Books, [Next]_vars
  PROVE  Books'
<1>1. FInv /\ FInv' /\ LedgerTellsBalance
  BY FNext DEF Books
<1>2. user.balance \in Int /\ user'.balance \in Int
  BY <1>1 DEF FInv, TypeOK, Wallets
<1>3. ASSUME UNCHANGED <<user, ledger, job, mishaps>>
      PROVE  LedgerTellsBalance'
  <2>1. Told' = Told /\ Underway' = Underway
    BY <1>3 DEF Told, Underway, FoldSeq, FoldFunction, FoldFunctionOnSet, MapThenFoldSet
  <2> HIDE DEF Told, Underway
  <2> QED BY <1>1, <1>3, <2>1 DEF LedgerTellsBalance
<1>4. ASSUME NEW p \in Processes, Crash(p)
      PROVE  LedgerTellsBalance'
  BY <1>4 DEF Crash, Mishap, LedgerTellsBalance
<1>5. ASSUME NEW s \in Staff, DepositStep(s) \/ WalletStep(s) \/ CurrencyStep(s) \/ WriteRow(s)
      PROVE  /\ Underway \in Int
             /\ Underway' = Underway + Due(job'[s]) - Due(job[s])
  BY <1>1, <1>5, OthersRest, UnderwayMoves
<1>6. \A s \in Staff : Due(job[s]) \in Int /\ Due(job'[s]) \in Int
  BY <1>1, DueType DEF FInv, Jobs
<1>7. ASSUME NEW s \in Staff, DepositStep(s) \/ WalletStep(s) \/ CurrencyStep(s)
      PROVE  LedgerTellsBalance'
  <2>1. Kept(s)
    BY <1>1, <1>7, DepositKeepsBooks, WalletKeepsBooks, CurrencyKeepsBooks
  <2>2. Told' = Told /\ Told \in Int
    <3>1. Told' = Told
      BY <2>1 DEF Kept, Told, FoldSeq, FoldFunction, FoldFunctionOnSet, MapThenFoldSet
    <3>2. Booked(None, 0)
      BY <2>1 DEF Kept, Booked
    <3> QED BY <1>1, <3>1, <3>2, ToldGrows
  <2> HIDE DEF Told, Underway, Due
  <2> QED
    BY <1>1, <1>2, <1>5, <1>6, <1>7, <2>1, <2>2 DEF Kept, LedgerTellsBalance, Unbooked
<1>8. ASSUME NEW s \in Staff, WriteRow(s)
      PROVE  LedgerTellsBalance'
  <2>1. /\ job[s].pc = "row" /\ Booked(job[s].ref, job[s].amount)
        /\ Conclude(s) /\ UNCHANGED <<user, mishaps>>
    BY <1>8 DEF WriteRow
  <2>2. job[s].amount \in Int /\ Due(job[s]) = job[s].amount /\ Due(job'[s]) = 0
    <3>1. job'[s].pc \in {"idle", "toggle"}
      BY <1>1, <2>1 DEF FInv, Jobs, IsJob, Conclude, Finish, Goto, Idle
    <3> QED BY <1>1, <2>1, <3>1 DEF FInv, Jobs, IsJob, Due
  <2>3. Told \in Int /\ Told' = Told + job[s].amount
    BY <1>1, <2>1, <2>2, ToldGrows
  <2> HIDE DEF Told, Underway, Due
  <2> QED BY <1>1, <1>2, <1>5, <1>8, <2>1, <2>2, <2>3 DEF LedgerTellsBalance
<1>9. \/ UNCHANGED <<user, ledger, job, mishaps>> \/ \E p \in Processes : Crash(p)
      \/ \E s \in Staff : DepositStep(s) \/ WalletStep(s) \/ CurrencyStep(s) \/ WriteRow(s)
  BY DEF Next, vars, CustomerStep, SubmitDeposit, SubmitTarget, CacheExpires, KeepMoney
<1> QED BY <1>1, <1>3, <1>4, <1>7, <1>8, <1>9 DEF Books

\* Whatever handlers overlap, the ledger and the rows under way explain the
\* balance, unless an adjustment replaced a balance it had not read, the wallet
\* was converted, or a process died before a row (wallet.service.js).
THEOREM LedgerExplainsBalance == Spec => []LedgerTellsBalance
<1>1. Init => Books
  BY BooksInit
<1>2. Books /\ [Next]_vars => Books'
  BY BooksNext
<1>3. Books => LedgerTellsBalance
  BY DEF Books
<1> QED BY <1>1, <1>2, <1>3, PTL DEF Spec
=============================================================================
