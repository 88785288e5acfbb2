-------------------------------- MODULE Desk --------------------------------
(***************************************************************************)
(* What the back office and the background jobs share when they handle     *)
(* money: the document of one customer, the wallet ledger, the requests    *)
(* waiting for a review, the document of the one currency besides USD and  *)
(* the copies of it that the converters of the server processes keep.  A   *)
(* handler is a job of a member of Staff, in one process: one step is one  *)
(* database operation, and other jobs run between two steps.               *)
(***************************************************************************)
EXTENDS Integers, Sequences, FiniteSets, SequencesExt

CONSTANTS
  Staff,      \* handlers at work at once
  Processes,  \* the processes of the server
  ProcessOf,  \* the process in which a handler runs
  Deposits, Targets,   \* requests a customer may submit
  Amounts,    \* amounts of requests, adjustments and purchases
  Rates,      \* platformRate: what one USD is in the local currency
  Openings,   \* user.walletBalance at the start: positive, or a debt of orders
  Limit,      \* user.creditLimit
  MaxJobs,    \* bound on the jobs of a behaviour
  None        \* no document, no value

ASSUME TicketsAssumption == Deposits \cap Targets = {} /\ None \notin Deposits \cup Targets
ASSUME NumbersAssumption == /\ Amounts \subseteq Nat \ {0}
                            /\ Rates \subseteq Nat \ {0}
                            /\ Openings \subseteq Int /\ Limit \in Nat
ASSUME JobsBound == MaxJobs \in Nat
ASSUME StaffAssumption == IsFiniteSet(Staff) /\ ProcessOf \in [Staff -> Processes]

VARIABLES
  user,       \* walletBalance, creditUsed and currency
  ledger,     \* the wallet transactions: what each is for and its signed amount;
              \* the first stands for those before
  ticket,     \* deposit requests and target orders
  local,      \* the currency document, None when there is none
  cached,     \* the currency document in the converter's cache of each process
  job,        \* the handlers
  begun,      \* how many have begun
  mishaps     \* history: what happened that may cost the customer or the books

vars == <<user, ledger, ticket, local, cached, job, begun, mishaps>>

-----------------------------------------------------------------------------
Tickets == Deposits \cup Targets
Codes == {"USD", "LOCAL"}
Currencies == [active: BOOLEAN, rate: Rates, id: 0..MaxJobs]
Wallets == [balance: Int, used: 0..Limit, currency: Codes]
Requests == [status: {"ABSENT", "PENDING", "APPROVED", "REJECTED"}, amount: Nat, code: Codes]

\* crash: a process died at work.  gap: a conversion found no active currency.
\* dust: an amount came to nothing.  stale: a balance was replaced that was not
\* the one read.  switch: the wallet was converted, which the ledger does not
\* tell.
Mishaps == {"crash", "gap", "dust", "stale", "switch"}

\* status is what a change of the rate has yet to make of the currency's status.
Idle == [op |-> "idle", pc |-> "idle", ref |-> None, arg |-> 0, amount |-> 0,
         code |-> "USD", saw |-> None, doc |-> None, status |-> None]

\* read holds the fields of the job that a request and its first read fill.
Filled(read) == [f \in DOMAIN Idle |-> IF f \in DOMAIN read THEN read[f] ELSE Idle[f]]

\* A handler begins when its first read has been answered.
Begin(s, read) ==
  /\ job[s] = Idle /\ begun < MaxJobs
  /\ job' = [job EXCEPT ![s] = Filled(read)]
  /\ begun' = begun + 1

At(s, op, pc) == job[s].op = op /\ job[s].pc = pc
Goto(s, pc) == job' = [job EXCEPT ![s].pc = pc]
Finish(s) == job' = [job EXCEPT ![s] = Idle]
Conclude(s) == IF job[s].status = None THEN Finish(s) ELSE Goto(s, "toggle")
Mishap(m) == mishaps' = mishaps \cup {m}

\* toFixed(2) and Math.round, in units: to the nearest, halves away from zero.
Rounded(n, d) == IF n >= 0 THEN (2 * n + d) \div (2 * d) ELSE -((d - 2 * n) \div (2 * d))

\* _createTransactionRecord, or WalletTransaction.create: at least one cent.
Booked(ref, delta) ==
  ledger' = IF delta = 0 THEN ledger ELSE Append(ledger, [ref |-> ref, delta |-> delta])

\* The ledger row is the last operation on money of every handler.
WriteRow(s) ==
  /\ job[s].pc = "row"
  /\ Booked(job[s].ref, job[s].amount)
  /\ Conclude(s)
  /\ UNCHANGED <<user, ticket, local, cached, begun, mishaps>>

\* A process dies, with its handlers and its cache.
Crash(p) ==
  /\ \E s \in Staff : ProcessOf[s] = p /\ job[s] # Idle
  /\ "crash" \notin mishaps
  /\ job' = [s \in Staff |-> IF ProcessOf[s] = p THEN Idle ELSE job[s]]
  /\ cached' = [cached EXCEPT ![p] = None]
  /\ Mishap("crash")
  /\ UNCHANGED <<user, ledger, ticket, local, begun>>

Init ==
  /\ user \in [balance: Openings, used: {0}, currency: Codes]
  /\ ledger = <<[ref |-> None, delta |-> user.balance]>>
  /\ ticket = [t \in Tickets |-> [status |-> "ABSENT", amount |-> 0, code |-> "USD"]]
  /\ local \in {c \in Currencies : c.active /\ c.id = 0}
  /\ cached = [p \in Processes |-> None]
  /\ job = [s \in Staff |-> Idle] /\ begun = 0
  /\ mishaps = {}
=============================================================================
