------------------------------ MODULE Purchase ------------------------------
(***************************************************************************)
(* Buying: createOrder, from the request to the start of the executor, on  *)
(* the wallet of one customer.  A request assembles its order in several   *)
(* steps, in a MongoDB transaction where the server has them and in single *)
(* operations with compensation where it has not.  Requests of the same    *)
(* customer, with or without a common idempotency key, run at once.        *)
(*                                                                         *)
(* One step is one database operation.  In a transaction nothing is        *)
(* visible before the commit; the debit locks the customer's document, and *)
(* a transaction that writes it after it has changed since its snapshot    *)
(* fails with a write conflict.                                            *)
(***************************************************************************)
EXTENDS Integers, FiniteSets

CONSTANTS
  Requests,     \* requests of one customer, retries of a client included
  Keys,         \* idempotency keys
  NoKey,        \* no Idempotency-Key header
  Goods,        \* product, quantity and fields of a request, as compared
  Automatic,    \* the goods whose product is executed automatically
  Suppliers,    \* providers the product may be linked to
  Amounts,      \* what pricing may yield: chargedAmount
  Opening,      \* the balance at the start
  Limit,        \* user.creditLimit
  Modes,        \* MongoDB deployments: see Deployments
  MaxCredits,   \* bound on other credits to the wallet
  MaxCrashes,   \* bound on crashes of the server process
  MaxFaults     \* bound on failing database operations

\* txn: transactions.  single: shouldUseOrderTransactions is false.  refused: it
\* is true, but the server turns out not to support them.
Deployments == {"txn", "single", "refused"}

ASSUME RequestsAssumption == IsFiniteSet(Requests)
ASSUME KeysAssumption == NoKey \notin Keys
ASSUME GoodsAssumption == Automatic \subseteq Goods
ASSUME SuppliersAssumption == Suppliers # {}
ASSUME AmountsAssumption == Amounts \subseteq Nat \ {0}
ASSUME WalletAssumption == Opening \in Int /\ Limit \in Nat /\ Opening + Limit >= 0
ASSUME ModesAssumption == Modes \subseteq Deployments
ASSUME PurchaseBounds == MaxCredits \in Nat /\ MaxCrashes \in Nat /\ MaxFaults \in Nat

VARIABLES
  mode,         \* the deployment
  ask,          \* each request: its key and its goods
  supplier,     \* the provider the product is linked to now
  code,         \* providerCode, read before the order is attempted
  balance,      \* user.walletBalance
  ledger,       \* sum of the wallet transactions, as a change of the balance
  credited,     \* the sum of the other credits
  charge,       \* chargedAmount of the attempt, then of the order
  taken,        \* what the balance has lost to each request
  made,         \* the requests whose order document exists
  started,      \* the requests whose order the executor was started for
  answer,       \* what the client was told
  task,         \* the handler of each request
  crashes, faults

vars == <<mode, ask, supplier, code, balance, ledger, credited, charge, taken,
          made, started, answer, task, crashes, faults>>

-----------------------------------------------------------------------------
(* Values *)

Answers == {"none", "created", "existing", "reused", "refused", "error", "lost"}

PCs == {"idle", "attempt", "price", "debit", "commit",       \* both, in a session
        "row", "create", "undo", "undoRow", "lookup",        \* without a session
        "respond", "done"}

\* retry: this is the second attempt.  forced: without a session in any case.
\* stale: the user document has changed since the snapshot.  saw: the balance in
\* the snapshot.  dup: the order was refused by the unique index.
Tasks == [pc: PCs, retry: BOOLEAN, forced: BOOLEAN, stale: BOOLEAN, saw: Int,
          dup: BOOLEAN]

NewTask(pc) == [pc |-> pc, retry |-> FALSE, forced |-> FALSE, stale |-> FALSE,
                saw |-> 0, dup |-> FALSE]

PC(r) == task[r].pc
InSession == mode = "txn"
Goto(r, pc) == task' = [task EXCEPT ![r].pc = pc]
Answer(r, a) ==
  /\ answer' = [answer EXCEPT ![r] = a]
  /\ task' = [task EXCEPT ![r] = NewTask("done")]

Fault == faults < MaxFaults /\ faults' = faults + 1
NoFault == UNCHANGED faults

Fixed == UNCHANGED <<mode, ask>>
Calm == Fixed /\ UNCHANGED <<supplier, credited, crashes>>
WalletSame == UNCHANGED <<balance, ledger, taken>>

\* A transaction has written the user document and not ended: it holds its lock.
Locked == \E r \in Requests : PC(r) = "commit"

\* Once the user document is written, the snapshots of the others are old.
Outdated(q) == [task[q] EXCEPT !.stale = InSession /\ PC(q) \in {"price", "debit"}]

-----------------------------------------------------------------------------
(* Idempotency *)

\* Mutant: the comparison forgets the goods.
MatchesAnything(o, r) == code[o] = code[r]

\* idempotentRequestMatchesOrder: same product, quantity, fields, provider.
Matches(o, r) == ask[o].goods = ask[r].goods /\ code[o] = code[r]

\* The orders of the customer with the key of r.
WithKey(r) == {o \in made : ask[r].key # NoKey /\ ask[o].key = ask[r].key}

\* The answer to a request whose key already has an order.
Resolve(r) == IF \E o \in WithKey(r) : Matches(o, r) THEN "existing" ELSE "reused"

-----------------------------------------------------------------------------
(* The request *)

\* createOrder: the provider code is read before, and apart from, the attempt.
Submit(r) ==
  /\ PC(r) = "idle"
  /\ code' = [code EXCEPT ![r] = supplier]
  /\ Goto(r, "attempt")
  /\ WalletSame /\ NoFault /\ Calm
  /\ UNCHANGED <<charge, made, started, answer>>

\* _attemptCreateOrder up to the lookup: a transaction takes its snapshot here.
\* A server that has no transactions rejects the first operation of a session.
Attempt(r) ==
  /\ PC(r) = "attempt"
  /\ IF mode = "refused" /\ ~task[r].forced
     THEN /\ task' = [task EXCEPT ![r].forced = TRUE, ![r].retry = TRUE]
          /\ UNCHANGED answer
     ELSE IF WithKey(r) # {}
     THEN Answer(r, Resolve(r))
     ELSE /\ task' = [task EXCEPT ![r].pc = "price", ![r].stale = FALSE,
                                  ![r].saw = IF InSession THEN balance ELSE 0]
          /\ UNCHANGED answer
  /\ WalletSame /\ NoFault /\ Calm
  /\ UNCHANGED <<code, charge, made, started>>

\* Everything that turns a request down before money is touched: an inactive
\* product, quantity, fields, the target at the provider, a risen price, an
\* amount that is not positive.
Refuse(r) ==
  /\ PC(r) \in {"attempt", "price"}
  /\ Answer(r, "refused")
  /\ WalletSame /\ NoFault /\ Calm
  /\ UNCHANGED <<code, charge, made, started>>

\* Pricing and conversion.
Price(r) ==
  /\ PC(r) = "price"
  /\ \E c \in Amounts : charge' = [charge EXCEPT ![r] = c]
  /\ Goto(r, "debit")
  /\ WalletSame /\ NoFault /\ Calm
  /\ UNCHANGED <<code, made, started, answer>>

-----------------------------------------------------------------------------
(* With a transaction *)

\* The end of an attempt that failed with a write conflict: one more attempt.
Conflict(r) ==
  IF task[r].retry
  THEN Answer(r, "error")
  ELSE /\ task' = [task EXCEPT ![r] = [NewTask("attempt") EXCEPT !.retry = TRUE]]
       /\ UNCHANGED answer

Covered(r, funds) == funds + Limit >= charge[r]

\* debitWalletAtomic in the session: the filter is evaluated in the snapshot.
DebitInSession(r) ==
  /\ InSession /\ PC(r) = "debit"
  /\ IF ~Covered(r, task[r].saw) THEN Answer(r, "refused")
     ELSE IF task[r].stale \/ Locked THEN Conflict(r)
     ELSE task' = [task EXCEPT ![r] = NewTask("commit")] /\ UNCHANGED answer
  /\ WalletSame /\ NoFault /\ Calm
  /\ UNCHANGED <<code, charge, made, started>>

\* The commit makes debit, ledger row and order visible at once.
Commits(r) ==
  /\ balance' = balance - charge[r]
  /\ ledger' = ledger - charge[r]
  /\ taken' = [taken EXCEPT ![r] = charge[r]]
  /\ made' = made \cup {r}

\* The order is inserted and the transaction commits.
Commit(r) ==
  /\ PC(r) = "commit"
  /\ Commits(r)
  /\ task' = [q \in Requests |-> IF q = r THEN NewTask("respond")
                                 ELSE Outdated(q)]
  /\ UNCHANGED answer
  /\ NoFault /\ Calm
  /\ UNCHANGED <<code, charge, started>>

\* The transaction fails: nothing has happened, and the client gets the error.
CommitFails(r) ==
  /\ PC(r) = "commit"
  /\ Fault
  /\ Answer(r, "error")
  /\ WalletSame /\ Calm
  /\ UNCHANGED <<code, charge, made, started>>

\* The commit succeeds and is reported as failed: the order exists, the client
\* gets an error and nobody starts the executor.
CommitUnacknowledged(r) ==
  /\ PC(r) = "commit"
  /\ Fault
  /\ Commits(r)
  /\ answer' = [answer EXCEPT ![r] = "error"]
  /\ task' = [q \in Requests |-> IF q = r THEN NewTask("done")
                                 ELSE Outdated(q)]
  /\ Calm
  /\ UNCHANGED <<code, charge, started>>

-----------------------------------------------------------------------------
(* Without a transaction *)

\* Mutant: the ledger of the request has the wrong sign.
TakeSigned(r) ==
  /\ balance' = balance - charge[r]
  /\ taken' = [taken EXCEPT ![r] = 0 - charge[r]]

Take(r) ==
  /\ balance' = balance - charge[r]
  /\ taken' = [taken EXCEPT ![r] = charge[r]]

\* Mutant: the filter asks for some funds, not for enough.
DebitIfAnything(r) ==
  /\ ~InSession /\ PC(r) = "debit"
  /\ IF balance + Limit > 0
     THEN Take(r) /\ Goto(r, "row") /\ UNCHANGED answer
     ELSE Answer(r, "refused") /\ UNCHANGED <<balance, taken>>
  /\ NoFault /\ Calm
  /\ UNCHANGED <<code, charge, made, started, ledger>>

\* debitWalletAtomic, first write: one compare-and-swap on the balance.
Debit(r) ==
  /\ ~InSession /\ PC(r) = "debit"
  /\ IF Covered(r, balance)
     THEN Take(r) /\ Goto(r, "row") /\ UNCHANGED answer
     ELSE Answer(r, "refused") /\ UNCHANGED <<balance, taken>>
  /\ NoFault /\ Calm
  /\ UNCHANGED <<code, charge, made, started, ledger>>

\* debitWalletAtomic, second write: the ledger row.  If it fails the error leaves
\* createOrder, and nothing gives the money back.
DebitRow(r) ==
  /\ PC(r) = "row"
  /\ \/ /\ NoFault
        /\ ledger' = ledger - charge[r]
        /\ Goto(r, "create") /\ UNCHANGED answer
     \/ Fault /\ Answer(r, "error") /\ UNCHANGED ledger
  /\ Calm
  /\ UNCHANGED <<code, charge, made, started, balance, taken>>

\* Mutant: no unique index on customer and key.
CreateUnindexed(r) ==
  /\ PC(r) = "create"
  /\ made' = made \cup {r}
  /\ Goto(r, "respond") /\ NoFault
  /\ WalletSame /\ Calm
  /\ UNCHANGED <<code, charge, started, answer>>

\* Mutant: the executor is started before the order has been created.
CreateEagerly(r) ==
  /\ PC(r) = "create"
  /\ started' = started \cup {r}
  /\ IF WithKey(r) = {}
     THEN made' = made \cup {r} /\ Goto(r, "respond")
     ELSE /\ task' = [task EXCEPT ![r].pc = "undo", ![r].dup = TRUE]
          /\ UNCHANGED made
  /\ WalletSame /\ NoFault /\ Calm
  /\ UNCHANGED <<code, charge, answer>>

\* Order.create: the unique index refuses a second order with the key.
Create(r) ==
  /\ PC(r) = "create"
  /\ \/ /\ NoFault /\ WithKey(r) = {}
        /\ made' = made \cup {r}
        /\ Goto(r, "respond")
     \/ /\ NoFault /\ WithKey(r) # {}
        /\ task' = [task EXCEPT ![r].pc = "undo", ![r].dup = TRUE]
        /\ UNCHANGED made
     \/ Fault /\ Goto(r, "undo") /\ UNCHANGED made
  /\ WalletSame /\ Calm
  /\ UNCHANGED <<code, charge, started, answer>>

\* Where a compensated attempt goes: a duplicate looks the other order up.
AfterUndo(r) ==
  IF task[r].dup THEN Goto(r, "lookup") /\ UNCHANGED answer ELSE Answer(r, "error")

\* refundWalletAtomic, first write.  Its failure is only logged.
Undo(r) ==
  /\ PC(r) = "undo"
  /\ \/ /\ NoFault
        /\ balance' = balance + charge[r]
        /\ taken' = [taken EXCEPT ![r] = 0]
        /\ Goto(r, "undoRow") /\ UNCHANGED answer
     \/ Fault /\ AfterUndo(r) /\ UNCHANGED <<balance, taken>>
  /\ Calm
  /\ UNCHANGED <<code, charge, made, started, ledger>>

\* Mutant: the compensation writes no ledger row.
UndoRowForgotten(r) ==
  /\ PC(r) = "undoRow"
  /\ AfterUndo(r)
  /\ WalletSame /\ NoFault /\ Calm
  /\ UNCHANGED <<code, charge, made, started>>

\* refundWalletAtomic, second write.  Its failure is only logged.
UndoRow(r) ==
  /\ PC(r) = "undoRow"
  /\ \/ NoFault /\ ledger' = ledger + charge[r]
     \/ Fault /\ UNCHANGED ledger
  /\ AfterUndo(r)
  /\ Calm
  /\ UNCHANGED <<code, charge, made, started, balance, taken>>

\* resolveIdempotentExistingOrder after the duplicate.
Lookup(r) ==
  /\ PC(r) = "lookup"
  /\ Answer(r, Resolve(r))
  /\ WalletSame /\ NoFault /\ Calm
  /\ UNCHANGED <<code, charge, made, started>>

-----------------------------------------------------------------------------
(* The end of the request, the environment, the specification *)

\* Mutant: only requests without a key start the executor.
StartUnkeyed(r) ==
  started' = IF ask[r].goods \in Automatic /\ ask[r].key = NoKey THEN started \cup {r}
             ELSE started

\* The executor is started for automatic goods only.
Start(r) ==
  started' = IF ask[r].goods \in Automatic THEN started \cup {r} ELSE started

\* The created order is read again, the executor started, the client answered.
Respond(r) ==
  /\ PC(r) = "respond"
  /\ \/ NoFault /\ Answer(r, "created") /\ Start(r)
     \/ Fault /\ Answer(r, "error") /\ UNCHANGED started
  /\ WalletSame /\ Calm
  /\ UNCHANGED <<code, charge, made>>

\* Something else credits the wallet; it waits for a transaction's lock.
Credit ==
  /\ ~Locked /\ credited < MaxCredits
  /\ credited' = credited + 1
  /\ balance' = balance + 1
  /\ ledger' = ledger + 1
  /\ task' = [q \in Requests |-> Outdated(q)]
  /\ Fixed /\ NoFault
  /\ UNCHANGED <<supplier, code, charge, taken, made, started, answer, crashes>>

\* An operator links the product to another provider.
SwapSupplier ==
  /\ \E s \in Suppliers \ {supplier} : supplier' = s
  /\ Fixed /\ WalletSame /\ NoFault
  /\ UNCHANGED <<code, credited, charge, made, started, answer, task, crashes>>

\* The process dies: open transactions are rolled back, clients hear nothing.
Crash ==
  /\ crashes < MaxCrashes
  /\ crashes' = crashes + 1
  /\ task' = [r \in Requests |-> IF PC(r) = "idle" THEN task[r]
                                 ELSE NewTask("done")]
  /\ answer' = [r \in Requests |-> IF PC(r) \in {"idle", "done"} THEN answer[r] ELSE "lost"]
  /\ Fixed /\ WalletSame /\ NoFault
  /\ UNCHANGED <<supplier, code, credited, charge, made, started>>

Init ==
  /\ mode \in Modes
  /\ ask \in [Requests -> [key: Keys \cup {NoKey}, goods: Goods]]
  /\ supplier = CHOOSE s \in Suppliers : TRUE
  /\ code = [r \in Requests |-> supplier]
  /\ balance = Opening /\ ledger = 0 /\ credited = 0
  /\ charge = [r \in Requests |-> 0]
  /\ taken = [r \in Requests |-> 0]
  /\ made = {} /\ started = {}
  /\ answer = [r \in Requests |-> "none"]
  /\ task = [r \in Requests |-> NewTask("idle")]
  /\ crashes = 0 /\ faults = 0

\* What the server does about a request once it has arrived.
Handle(r) ==
  \/ Attempt(r) \/ Refuse(r) \/ Price(r)
  \/ DebitInSession(r) \/ Commit(r) \/ CommitFails(r) \/ CommitUnacknowledged(r)
  \/ Debit(r) \/ DebitRow(r) \/ Create(r)
  \/ Undo(r) \/ UndoRow(r) \/ Lookup(r) \/ Respond(r)

Next ==
  \/ \E r \in Requests : Submit(r) \/ Handle(r)
  \/ Credit \/ SwapSupplier \/ Crash

Spec == Init /\ [][Next]_vars

\* The event loop runs what is ready.
FairSpec == Spec /\ \A r \in Requests : WF_vars(Handle(r))

-----------------------------------------------------------------------------
(* Properties *)

\* The variables have their types.
TypeOK ==
  /\ mode \in Deployments
  /\ ask \in [Requests -> [key: Keys \cup {NoKey}, goods: Goods]]
  /\ supplier \in Suppliers /\ code \in [Requests -> Suppliers]
  /\ balance \in Int /\ ledger \in Int /\ credited \in Nat
  /\ charge \in [Requests -> Nat] /\ taken \in [Requests -> Nat]
  /\ made \subseteq Requests /\ started \subseteq Requests
  /\ answer \in [Requests -> Answers]
  /\ task \in [Requests -> Tasks]
  /\ crashes \in Nat /\ faults \in Nat

Accident == crashes + faults > 0
Answered(r) == PC(r) \in {"idle", "done"}

\* However many purchases run at once, in transactions or not, the balance is
\* never overdrawn beyond the credit limit (debitWalletAtomic).
CreditLimitHolds == balance + Limit >= 0

\* Buying implements Checkout: money and order appear together, a key buys
\* once, and only an accident without transactions loses money (createOrder).
Spent == [r \in Requests |-> IF r \in made \/ Answered(r) THEN taken[r] ELSE 0]
Shop == INSTANCE Checkout WITH
  key <- [r \in Requests |-> ask[r].key], safe <- InSession, accident <- Accident,
  spent <- Spent, bought <- made
ImplementsCheckout == Shop!Spec

\* When no request is under way, and always with transactions, the balance is
\* what the ledger says, unless an accident has left a row unwritten.
LedgerTellsBalance ==
  InSession \/ (~Accident /\ \A r \in Requests : Answered(r) \/ PC(r) \in {"price", "attempt"})
    => balance = Opening + ledger

\* What the client is told is true: an order that is reported exists with what
\* was asked, a refused request has neither order nor charge, and a key counts as
\* reused only if its order is for something else or the provider has changed.
AnswersAreTrue ==
  \A r \in Requests :
    /\ answer[r] = "created" => r \in made /\ taken[r] = charge[r]
    /\ answer[r] = "existing" => \E o \in WithKey(r) :
                                   ask[o].goods = ask[r].goods /\ code[o] = code[r]
    /\ answer[r] = "reused" => \E o \in WithKey(r) :
                                 ask[o].goods # ask[r].goods \/ code[o] # code[r]
    /\ answer[r] \in {"refused", "existing", "reused", "error"} /\ ~Accident
         => r \notin made /\ taken[r] = 0

\* Whatever happens, the executor is started only for an order that exists and
\* is paid in full.
StartedIsPaid == \A r \in started : r \in made /\ taken[r] = charge[r]

\* Without an accident every automatic order is handed to the executor.
OrdersStart ==
  \A r \in Requests :
    (r \in made /\ ask[r].goods \in Automatic) ~> (r \in started \/ Accident)
=============================================================================
