-------------------------- MODULE OrderFulfillment --------------------------
(***************************************************************************)
(* The life of orders from the moment the wallet has been charged: the     *)
(* fire-and-forget executor that places the order with its provider        *)
(* (executeOrder), the cron poller that asks the provider how it went      *)
(* (pollProcessingOrders), and the operators of the back office.  The      *)
(* server runs as several processes, each with a cron of its own.          *)
(*                                                                         *)
(* One step is one database operation or one provider call: what a task    *)
(* read earlier is its own stale copy ("saw"), and every other task may    *)
(* run before it writes.  A MongoDB transaction is one step.               *)
(***************************************************************************)
EXTENDS Integers, FiniteSets

CONSTANTS
  Orders,       \* the orders under study
  Kinds,        \* the ways of fulfilment in use
  Admins,       \* concurrent back-office requests on one order
  Pollers,      \* the server processes: each runs the cron of the poller
  BatchLimit,   \* how many orders the query of a cycle takes at most
  Charge,       \* order.chargedAmount, equal to order.walletDeducted
  Quantity,     \* order.quantity
  MaxRetry,     \* MAX_RETRY_COUNT
  LostAcks,     \* TRUE: a commit may succeed and yet be reported as failed
  MaxRequests,  \* bound on back-office requests
  MaxCrashes,   \* bound on crashes of a server process
  MaxFaults     \* bound on failing database operations

ASSUME OrdersAssumption == IsFiniteSet(Orders)
ASSUME KindsAssumption ==
  Kinds \subseteq {"manual", "plain", "reference", "xena", "coin"}
ASSUME AdminsAssumption == IsFiniteSet(Admins) /\ "exec" \notin Admins
ASSUME PollersAssumption ==
  IsFiniteSet(Pollers) /\ Pollers # {} /\ Pollers \cap (Admins \cup {"exec"}) = {}
ASSUME BatchLimitAssumption == BatchLimit \in Nat \ {0}
ASSUME ChargeAssumption == Charge \in Nat \ {0}
ASSUME QuantityAssumption == Quantity \in Nat \ {0}
ASSUME MaxRetryAssumption == MaxRetry \in Nat \ {0}
ASSUME LostAcksAssumption == LostAcks \in BOOLEAN
ASSUME BoundsAssumption ==
  MaxRequests \in Nat /\ MaxCrashes \in Nat /\ MaxFaults \in Nat

VARIABLES
  kind,         \* who fulfils the order: immutable snapshot taken at creation
  order,        \* the documents of the orders collection
  held,         \* debits minus credits of the wallet ledger for the order
  sale,         \* what really happened at the provider
  task,         \* the tasks running in the server processes
  ahead,        \* the orders with a lastCheckedAt before that of an order
  shared,       \* history: the orders whose polling cycles have overlapped
  requests, crashes, faults   \* how much of each bound is used

vars == <<kind, order, held, sale, task, ahead, shared, requests, crashes, faults>>

-----------------------------------------------------------------------------
(* Values *)

\* Kinds.  manual: an operator delivers.  plain: status by provider order id
\* only.  reference: the adapter has checkOrderByReference.  xena, coin: the
\* two providers the code treats by name.

Statuses == {"PENDING", "PROCESSING", "COMPLETED", "CANCELED", "PARTIAL",
             "FAILED", "MANUAL_REVIEW"}

\* hasId: providerOrderId # null.  lookup: providerStatus = PLACEMENT_UNCERTAIN.
\* refunded stands for refunded and refundedAt, which every write sets together.
Docs == [status: Statuses, refunded: BOOLEAN, retry: Nat, hasId: BOOLEAN,
         lookup: BOOLEAN]

\* The states of a sale at the provider, which only the provider knows.
Ended == {"delivered", "cancelled", "partial"}
Sales == {"none", "working"} \cup Ended

\* A provider's answer.  Besides the states of a sale: rejected (success is
\* false), unmapped (a word statusMapper does not know), unknown (outcome
\* declared uncertain), missing (Xena answered without an id), unplaced
\* (PLACEMENT_UNCERTAIN) and lost (transient error, reported as Pending).
Answers == (Sales \ {"none"}) \cup
           {"rejected", "unmapped", "unknown", "missing", "unplaced", "lost"}
Replies == [st: Answers, id: BOOLEAN, remains: 0 .. Quantity - 1]

Reply(st, id) == [st |-> st, id |-> id, remains |-> 0]
NoReply == Reply("unknown", FALSE)

PCs == {"start", "place", "placed", "return", "done",     \* executor
        "idle", "check", "apply",                         \* poller
        "syncCheck", "syncSave", "redebit", "complete",   \* back office
        "deliver", "unconfirmed", "rollback",
        "refund", "credit", "reset", "partial"}           \* refunds
Tasks == [pc: PCs, saw: Docs, reply: Replies]

\* What a server process does for its clients: the executor of an order,
\* started by the request that created it, and the back-office requests.
Serving == {"exec"} \cup Admins
Workers == Serving \cup Pollers

NewDoc(k) == [status |-> IF k = "manual" THEN "PENDING" ELSE "PROCESSING",
              refunded |-> FALSE, retry |-> 0, hasId |-> FALSE, lookup |-> FALSE]
NoDoc == NewDoc("manual")

At(pc) == [pc |-> pc, saw |-> NoDoc, reply |-> NoReply]
Rest(w) == At(IF w = "exec" THEN "done" ELSE "idle")

-----------------------------------------------------------------------------
(* Moving a task and writing a document *)

PC(o, w) == task[o][w].pc
Become(o, w, t) == task' = [task EXCEPT ![o][w] = t]
Goto(o, w, pc) == Become(o, w, [task[o][w] EXCEPT !.pc = pc])
Finish(o, w) == Become(o, w, Rest(w))
Write(o, doc) == order' = [order EXCEPT ![o] = doc]

\* lastCheckedAt of the order is set to the current time, which puts the order
\* behind all others in the poller's query, or left as it is.
Touch(o) == ahead' = [q \in Orders |-> IF q = o THEN Orders \ {o} ELSE ahead[q] \ {o}]
NoTouch == UNCHANGED ahead

\* A database operation of the step fails.
Fault == faults < MaxFaults /\ faults' = faults + 1
NoFault == UNCHANGED faults
Calm == UNCHANGED <<kind, shared, requests, crashes>>

-----------------------------------------------------------------------------
(* What providers answer, and what the code makes of it *)

\* What a placement may leave at the provider.
SaleAfterPlacement(k) == IF k = "coin" THEN {"none", "delivered"} ELSE Sales

\* The error outcomes of placeOrder after which the sale may or may not exist.
Ambiguous(k) ==
  CASE k = "plain"     -> {"lost", "rejected"}
    [] k = "reference" -> {"unplaced"}
    [] k = "xena"      -> {"lost", "missing"}
    [] OTHER           -> {"unknown"}

\* The answers to placeOrder that are consistent with the sale being s after it.
PlaceReplies(k, s) ==
  (IF s = "none" THEN {Reply("rejected", FALSE)}
   ELSE IF k = "coin" THEN {Reply(s, FALSE)}
   ELSE {Reply(s, TRUE), Reply("unmapped", TRUE)})
  \cup (IF k = "coin" \/ s \in {"none", "working"}
        THEN {Reply(st, FALSE) : st \in Ambiguous(k)} ELSE {})
  \cup (IF k = "xena" /\ s # "none" THEN {Reply("unknown", TRUE)} ELSE {})

\* The answers of checkOrder(s).  A partial delivery reports the units that
\* remain; 0 stands for an answer without that field.
CheckReplies(s) ==
  {Reply("unknown", TRUE)} \cup
  (IF s = "partial"
   THEN {[Reply(s, TRUE) EXCEPT !.remains = n] : n \in 0 .. Quantity - 1}
   ELSE {Reply(s, TRUE)} \cap Replies)

Uncertain(r) == r.st \in {"unknown", "unplaced", "missing"}

\* Mutant: an uncertain outcome is taken for a success.
PlacementStatusHopeful(k, r) ==
  IF r.st \in {"delivered", "partial", "unknown"} THEN "COMPLETED"
  ELSE IF r.st \in {"unplaced", "working", "lost"} THEN "PROCESSING"
  ELSE IF r.st = "missing" THEN "MANUAL_REVIEW" ELSE "FAILED"

\* The status executeOrder derives from an answer of the provider.
PlacementStatus(k, r) ==
  CASE k = "coin" /\ r.st = "unknown"               -> "MANUAL_REVIEW"
    [] r.st = "missing"                             -> "MANUAL_REVIEW"
    [] r.st \in {"unknown", "unplaced", "working", "lost"} -> "PROCESSING"
    [] r.st \in {"delivered", "partial"}            -> "COMPLETED"
    [] OTHER                                        -> "FAILED"

\* The order document after executeOrder has written the outcome.
Placed(k, doc, saw, r) ==
  LET st    == PlacementStatus(k, r)
      retry == IF r.id THEN saw.retry ELSE saw.retry + 1
      known == [doc EXCEPT !.hasId = r.id, !.lookup = r.st = "unplaced"]
  IN  IF st # "PROCESSING" THEN [known EXCEPT !.status = st]
      ELSE IF ~r.id /\ retry >= MaxRetry
           THEN [doc EXCEPT !.status = "MANUAL_REVIEW", !.retry = retry,
                            !.lookup = r.st = "unplaced"]
           ELSE [known EXCEPT !.retry = retry]

\* Mutant: the retry limit fails uncertain orders too.
PolledToFailed(doc, saw, r) ==
  [doc EXCEPT !.lookup = FALSE,
     !.retry = IF r.st \in Ended THEN @ ELSE saw.retry + 1,
     !.status = CASE r.st = "delivered" -> "COMPLETED"
                  [] r.st = "partial"   -> "PARTIAL"
                  [] r.st = "cancelled" \/ saw.retry + 1 >= MaxRetry -> "FAILED"
                  [] OTHER              -> @]

\* Mutant: the limit is decided one check too late.
PolledLate(doc, saw, r) ==
  [doc EXCEPT !.lookup = FALSE,
     !.retry = IF r.st \in Ended THEN @ ELSE saw.retry + 1,
     !.status = CASE r.st = "delivered" -> "COMPLETED"
                  [] r.st = "partial"   -> "PARTIAL"
                  [] r.st = "cancelled" -> "FAILED"
                  [] saw.retry < MaxRetry -> @
                  [] OTHER -> IF Uncertain(r) THEN "MANUAL_REVIEW" ELSE "FAILED"]

\* Mutant: the checks are not counted.
PolledUncounted(doc, saw, r) ==
  [doc EXCEPT !.lookup = FALSE,
     !.status = CASE r.st = "delivered" -> "COMPLETED"
                  [] r.st = "partial"   -> "PARTIAL"
                  [] r.st = "cancelled" -> "FAILED"
                  [] OTHER              -> @]

\* The order document after processOrderStatusResult has written the outcome.
Polled(doc, saw, r) ==
  LET retry   == saw.retry + 1
      told    == [doc EXCEPT !.lookup = FALSE]
      counted == [told EXCEPT !.retry = retry]
  IN  CASE r.st = "delivered" -> [told EXCEPT !.status = "COMPLETED"]
        [] r.st = "partial"   -> [told EXCEPT !.status = "PARTIAL"]
        [] r.st = "cancelled" -> [told EXCEPT !.status = "FAILED"]
        [] OTHER -> IF retry < MaxRetry THEN counted
                    ELSE [counted EXCEPT !.status = IF Uncertain(r) THEN "MANUAL_REVIEW"
                                                    ELSE "FAILED"]

\* Mutant: the query does not ask for an order id.
PollableEarly(k, doc) == doc.status = "PROCESSING" /\ k # "manual"

\* What pollProcessingOrders selects.
Pollable(k, doc) ==
  /\ doc.status = "PROCESSING"
  /\ k # "manual"
  /\ doc.hasId \/ k = "xena" \/ doc.lookup

\* The amount processOrderRefund pays back; nothing is paid when it is 0.
RefundAmount(remains) ==
  IF remains > 0 /\ remains < Quantity THEN (remains * Charge) \div Quantity
  ELSE Charge

-----------------------------------------------------------------------------
(* Paying back: refundFailedOrder, run by the task w *)

\* Where a task goes when refundFailedOrder has returned: executeOrder to the
\* end of its try block, unless its crash guard made the call and has cleared
\* the copy; the resolution of a coin recharge, alone, looks at the result.
Return(o, w) ==
  IF w = "exec" /\ task[o][w].saw # NoDoc THEN Goto(o, w, "return") ELSE Finish(o, w)
NotRefunded(o, w, pc) == IF w \in Admins THEN Goto(o, w, pc) ELSE Return(o, w)

\* Mutant: the update does not filter on refunded = false.
RefundClaimUnfiltered(o, w) ==
  /\ PC(o, w) = "refund"
  /\ Goto(o, w, "credit") /\ Write(o, [order[o] EXCEPT !.refunded = TRUE])
  /\ Calm /\ NoFault /\ NoTouch /\ UNCHANGED <<held, sale>>

\* The compare-and-swap of the refunded flag, a write of its own.
RefundClaim(o, w) ==
  /\ PC(o, w) = "refund"
  /\ \/ /\ order[o].refunded
        /\ NotRefunded(o, w, "unconfirmed")
        /\ NoFault /\ UNCHANGED order
     \/ /\ ~order[o].refunded
        /\ Goto(o, w, "credit") /\ Write(o, [order[o] EXCEPT !.refunded = TRUE])
        /\ NoFault
     \/ /\ Fault
        /\ NotRefunded(o, w, "rollback")
        /\ UNCHANGED order
  /\ Calm /\ NoTouch /\ UNCHANGED <<held, sale>>

\* The transaction that credits the wallet.
RefundCredit(o, w) ==
  /\ PC(o, w) = "credit"
  /\ held' = [held EXCEPT ![o] = @ - Charge]
  /\ Return(o, w)
  /\ Calm /\ NoFault /\ NoTouch /\ UNCHANGED <<order, sale>>

\* It throws: aborted, or committed without the commit being acknowledged.
RefundCreditFails(o, w) ==
  /\ PC(o, w) = "credit"
  /\ Fault
  /\ \/ UNCHANGED held
     \/ LostAcks /\ held' = [held EXCEPT ![o] = @ - Charge]
  /\ Goto(o, w, "reset")
  /\ Calm /\ NoTouch /\ UNCHANGED <<order, sale>>

\* The catch block clears the flag without looking at the document.
RefundReset(o, w) ==
  /\ PC(o, w) = "reset"
  /\ \/ Write(o, [order[o] EXCEPT !.refunded = FALSE]) /\ NoFault
     \/ Fault /\ UNCHANGED order
  /\ NotRefunded(o, w, "rollback")
  /\ Calm /\ NoTouch /\ UNCHANGED <<held, sale>>

\* processOrderRefund, one transaction; its callers only log its errors.
ProcessOrderRefund(o, w) ==
  /\ PC(o, w) = "partial"
  /\ LET amount == RefundAmount(task[o][w].reply.remains) IN
     \/ /\ ~order[o].refunded /\ amount > 0
        /\ Write(o, [order[o] EXCEPT !.refunded = TRUE])
        /\ held' = [held EXCEPT ![o] = @ - amount]
        /\ NoFault
     \/ /\ order[o].refunded \/ amount <= 0
        /\ NoFault /\ UNCHANGED <<order, held>>
     \/ Fault /\ UNCHANGED <<order, held>>
  /\ Finish(o, w)
  /\ Calm /\ NoTouch /\ UNCHANGED sale

-----------------------------------------------------------------------------
(* The executor: executeOrder, called once, by createOrder *)

\* Reading the order and claiming the fulfilment lock, if still PROCESSING.
ExecClaim(o) ==
  /\ PC(o, "exec") = "start"
  /\ IF order[o].status = "PROCESSING"
     THEN Become(o, "exec", [At("place") EXCEPT !.saw = order[o]])
     ELSE Finish(o, "exec")
  /\ Calm /\ NoFault /\ NoTouch /\ UNCHANGED <<order, held, sale>>

\* The provider cannot be resolved (unlinked, deleted, inactive).
ExecUnresolved(o) ==
  /\ PC(o, "exec") = "place"
  /\ Write(o, [order[o] EXCEPT !.status = "FAILED"])
  /\ Goto(o, "exec", "refund")
  /\ Calm /\ NoFault /\ Touch(o) /\ UNCHANGED <<held, sale>>

\* The call to the provider.
ExecPlace(o) ==
  /\ PC(o, "exec") = "place"
  /\ \E s \in SaleAfterPlacement(kind[o]) : \E r \in PlaceReplies(kind[o], s) :
       /\ sale' = [sale EXCEPT ![o] = s]
       /\ Become(o, "exec", [task[o]["exec"] EXCEPT !.pc = "placed", !.reply = r])
  /\ Calm /\ NoFault /\ NoTouch /\ UNCHANGED <<order, held>>

\* Recording the outcome: the writes name the order only by its id.
ExecRecord(o) ==
  /\ PC(o, "exec") = "placed"
  /\ LET t == task[o]["exec"] IN
     /\ Write(o, Placed(kind[o], order[o], t.saw, t.reply))
     /\ IF PlacementStatus(kind[o], t.reply) = "FAILED"
        THEN Goto(o, "exec", "refund") ELSE Goto(o, "exec", "return")
  /\ Calm /\ NoFault /\ Touch(o) /\ UNCHANGED <<held, sale>>

\* The try block ends with a read of the order.
ExecReturn(o) ==
  /\ PC(o, "exec") = "return"
  /\ Finish(o, "exec")
  /\ Calm /\ NoFault /\ NoTouch /\ UNCHANGED <<order, held, sale>>

\* Mutant: the guard knows no sale that cannot be repeated.
ExecCrashGuardRefunds(o) ==
  /\ PC(o, "exec") \in {"place", "placed", "return"}
  /\ Fault
  /\ Write(o, [order[o] EXCEPT !.status = "FAILED"])
  /\ Become(o, "exec", At("refund"))
  /\ Calm /\ Touch(o) /\ UNCHANGED <<held, sale>>

\* An exception after the claim reaches the guard around the whole function,
\* the read at the end included.
ExecCrashGuard(o) ==
  /\ PC(o, "exec") \in {"place", "placed", "return"}
  /\ Fault
  /\ IF kind[o] = "coin" /\ PC(o, "exec") # "place"
                         /\ task[o]["exec"].reply.st # "rejected"
     THEN /\ Write(o, [order[o] EXCEPT !.status = "MANUAL_REVIEW"])
          /\ Finish(o, "exec")
     ELSE /\ Write(o, [order[o] EXCEPT !.status = "FAILED"])
          /\ Become(o, "exec", At("refund"))
  /\ Calm /\ Touch(o) /\ UNCHANGED <<held, sale>>

-----------------------------------------------------------------------------
(* The poller: pollProcessingOrders, one cycle at a time in each process p    *)

\* An order is in the hands of a process from the query of a cycle on.
Holds(p, o) == PC(o, p) # "idle"

\* The orders the query finds: of those that match, the first ones by
\* lastCheckedAt.
Batch ==
  LET found == {o \in Orders : Pollable(kind[o], order[o])} IN
  {o \in found : Cardinality(ahead[o] \cap found) < BatchLimit}

\* The query that starts a cycle, unless the process is still in the last one:
\* every selected order becomes a job.  Orders at the retry limit would go to
\* manual review instead: there are none (KillSwitchIdle).
PollStart(p) ==
  /\ \A o \in Orders : ~Holds(p, o)
  /\ Batch # {}
  /\ task' = [o \in Orders |->
       IF o \notin Batch THEN task[o]
       ELSE [task[o] EXCEPT ![p] = [At("check") EXCEPT !.saw = order[o]]]]
  /\ shared' = (shared \ Batch) \cup {o \in Batch : \E r \in Pollers : Holds(r, o)}
  /\ NoFault /\ NoTouch /\ UNCHANGED <<kind, order, held, sale, requests, crashes>>

\* A Xena order without an id goes to manual review, without a look
\* at the document.
PollXenaMissing(o, p) ==
  /\ PC(o, p) = "check"
  /\ kind[o] = "xena" /\ ~task[o][p].saw.hasId
  /\ Write(o, [order[o] EXCEPT !.status = "MANUAL_REVIEW"])
  /\ Finish(o, p)
  /\ Calm /\ NoFault /\ Touch(o) /\ UNCHANGED <<held, sale>>

\* Looking an uncertain placement up by the order number.
PollLookup(o, p) ==
  /\ PC(o, p) = "check"
  /\ kind[o] # "xena" /\ ~task[o][p].saw.hasId
  /\ IF sale[o] # "none"
     THEN /\ Write(o, [order[o] EXCEPT !.hasId = TRUE, !.lookup = FALSE])
          /\ Become(o, p, [task[o][p] EXCEPT !.saw.hasId = TRUE])
     ELSE LET retry == task[o][p].saw.retry + 1 IN
          /\ Write(o, [order[o] EXCEPT !.retry = retry,
                 !.status = IF retry >= MaxRetry THEN "MANUAL_REVIEW" ELSE @])
          /\ Finish(o, p)
  /\ Calm /\ NoFault /\ Touch(o) /\ UNCHANGED <<held, sale>>

\* Asking the provider for the status.
PollCheck(o, p) ==
  /\ PC(o, p) = "check"
  /\ task[o][p].saw.hasId
  /\ \E r \in CheckReplies(sale[o]) :
       Become(o, p, [task[o][p] EXCEPT !.pc = "apply", !.reply = r])
  /\ Calm /\ NoFault /\ NoTouch /\ UNCHANGED <<order, held, sale>>

\* No usable answer: provider inactive, call failed, order absent from the
\* batch, or a word isTerminal does not know.  Nothing is recorded, so the
\* order keeps its place in the query.
PollSkip(o, p) ==
  /\ PC(o, p) = "check"
  /\ kind[o] = "xena" => task[o][p].saw.hasId
  /\ Finish(o, p)
  /\ Calm /\ NoFault /\ NoTouch /\ UNCHANGED <<order, held, sale>>

\* Mutant: a cancellation is recorded and not refunded.
PollApplyNoRefund(o, p) ==
  /\ PC(o, p) = "apply"
  /\ LET t == task[o][p] IN
     /\ Write(o, Polled(order[o], t.saw, t.reply))
     /\ IF t.reply.st = "partial" THEN Goto(o, p, "partial") ELSE Finish(o, p)
  /\ Calm /\ NoFault /\ Touch(o) /\ UNCHANGED <<held, sale>>

\* processOrderStatusResult: the status test is on the copy read by the query.
PollApply(o, p) ==
  /\ PC(o, p) = "apply"
  /\ LET t == task[o][p]
         doc == Polled(order[o], t.saw, t.reply) IN
     /\ Write(o, doc)
     /\ CASE t.reply.st = "partial" -> Goto(o, p, "partial")
          [] t.reply.st = "cancelled" \/
             (t.reply.st = "working" /\ t.saw.retry + 1 >= MaxRetry)
                                     -> Goto(o, p, "refund")
          [] OTHER                   -> Finish(o, p)
  /\ Calm /\ NoFault /\ Touch(o) /\ UNCHANGED <<held, sale>>

-----------------------------------------------------------------------------
(* The back office.  A request occupies the task of one administrator *)

\* The generic controls refuse a coin recharge under manual review.
Blocked(o) == kind[o] = "coin" /\ order[o].status = "MANUAL_REVIEW"

Request(o, a) ==
  /\ PC(o, a) = "idle"
  /\ requests < MaxRequests /\ requests' = requests + 1
  /\ UNCHANGED <<kind, shared, crashes, faults>>

\* The later steps of a request.
Serve(o, a, pc) == PC(o, a) = pc /\ Calm

\* Mutant: only the status is tested, not the refund.
MarkOrderAsFailedAgain(o) ==
  /\ order[o].status # "FAILED"
  /\ Write(o, [order[o] EXCEPT !.status = "FAILED", !.refunded = TRUE])
  /\ held' = [held EXCEPT ![o] = @ - Charge]

\* markOrderAsFailed, one transaction.
MarkOrderAsFailed(o) ==
  /\ order[o].status # "FAILED" /\ ~order[o].refunded
  /\ Write(o, [order[o] EXCEPT !.status = "FAILED", !.refunded = TRUE])
  /\ held' = [held EXCEPT ![o] = @ - Charge]

\* PATCH /orders/:id/fail calls markOrderAsFailed at once.
FailOrder(o, a) ==
  /\ Request(o, a)
  /\ MarkOrderAsFailed(o)
  /\ NoTouch /\ UNCHANGED <<sale, task>>

\* refundOrder, with the remains of 0 its callers pass.  The checks read the
\* document before the transaction does and add only the coin exclusion.
RefundOrder(o, a) ==
  /\ Request(o, a)
  /\ ~Blocked(o)
  /\ MarkOrderAsFailed(o)
  /\ NoTouch /\ UNCHANGED <<sale, task>>

\* syncOrderProviderStatus: read the order ...
SyncRead(o, a) ==
  /\ Request(o, a)
  /\ order[o].hasId /\ ~Blocked(o)
  /\ Become(o, a, [At("syncCheck") EXCEPT !.saw = order[o]])
  /\ NoTouch /\ UNCHANGED <<order, held, sale>>

\* ... ask the provider; an error or a word other than these three changes
\* no status ...
SyncCheck(o, a) ==
  /\ Serve(o, a, "syncCheck")
  /\ \/ Finish(o, a) /\ (Touch(o) \/ NoTouch)
     \/ \E r \in CheckReplies(sale[o]) :
          /\ r.st \in Ended
          /\ Become(o, a, [task[o][a] EXCEPT !.pc = "syncSave", !.reply = r])
          /\ NoTouch
  /\ NoFault /\ UNCHANGED <<order, held, sale>>

\* Mutant: the provider's spelling reaches the document.
SyncStatusRaw(r) == CASE r.st = "delivered" -> "COMPLETED"
                      [] r.st = "cancelled" -> "CANCELLED"
                      [] OTHER              -> "PARTIAL"

SyncStatus(r) == CASE r.st = "delivered" -> "COMPLETED"
                   [] r.st = "cancelled" -> "CANCELED"
                   [] OTHER              -> "PARTIAL"

\* ... and save the status where it differs from the one that was read.
SyncSave(o, a) ==
  /\ Serve(o, a, "syncSave")
  /\ LET t == task[o][a]
         st == SyncStatus(t.reply) IN
     IF st = t.saw.status
     THEN Finish(o, a) /\ UNCHANGED order
     ELSE /\ Write(o, [order[o] EXCEPT !.status = st])
          /\ IF st = "COMPLETED" THEN Finish(o, a) ELSE Goto(o, a, "partial")
  /\ NoFault /\ Touch(o) /\ UNCHANGED <<held, sale>>

\* completeOrder: read the order and decide whether the customer was repaid ...
WasRefunded(doc) == doc.refunded \/ doc.status \in {"FAILED", "PARTIAL", "CANCELED"}

CompleteRead(o, a) ==
  /\ Request(o, a)
  /\ order[o].status # "COMPLETED" /\ ~Blocked(o)
  /\ Become(o, a, [At(IF WasRefunded(order[o]) THEN "redebit" ELSE "complete")
                     EXCEPT !.saw = order[o]])
  /\ NoTouch /\ UNCHANGED <<order, held, sale>>

\* ... take the full amount again, even into debt ...
CompleteDebit(o, a) ==
  /\ Serve(o, a, "redebit")
  /\ \/ /\ held' = [held EXCEPT ![o] = @ + Charge]
        /\ Goto(o, a, "complete") /\ NoFault
     \/ Fault /\ Finish(o, a) /\ UNCHANGED held
  /\ NoTouch /\ UNCHANGED <<order, sale>>

\* Mutant: the whole document is saved, flags included.
CompleteSaveWhole(o, a) ==
  /\ Serve(o, a, "complete")
  /\ Write(o, [task[o][a].saw EXCEPT !.status = "COMPLETED", !.refunded = FALSE])
  /\ Finish(o, a)
  /\ NoFault /\ NoTouch /\ UNCHANGED <<held, sale>>

\* ... and save the fields that differ from the copy that was read.
CompleteSave(o, a) ==
  /\ Serve(o, a, "complete")
  /\ \/ /\ Write(o, [order[o] EXCEPT !.status = "COMPLETED",
                         !.refunded = @ /\ ~task[o][a].saw.refunded])
        /\ NoFault
     \/ Fault /\ UNCHANGED order
  /\ Finish(o, a)
  /\ NoTouch /\ UNCHANGED <<held, sale>>

\* markOrderAsCompleted, PATCH /orders/:id/complete: read, then save.
MarkCompletedRead(o, a) ==
  /\ Request(o, a)
  /\ order[o].status = "PENDING"
  /\ Goto(o, a, "deliver")
  /\ NoTouch /\ UNCHANGED <<order, held, sale>>

MarkCompletedSave(o, a) ==
  /\ Serve(o, a, "deliver")
  /\ Write(o, [order[o] EXCEPT !.status = "COMPLETED"])
  /\ Finish(o, a)
  /\ NoFault /\ NoTouch /\ UNCHANGED <<held, sale>>

\* resolveCoinRechargeManualReview claims the order in one write ...
Resolvable(o) ==
  kind[o] = "coin" /\ order[o].status = "MANUAL_REVIEW" /\ ~order[o].refunded

ResolveDelivered(o, a) ==
  /\ Request(o, a) /\ Resolvable(o)
  /\ Write(o, [order[o] EXCEPT !.status = "COMPLETED"])
  /\ NoTouch /\ UNCHANGED <<held, sale, task>>

ResolveRefund(o, a) ==
  /\ Request(o, a) /\ Resolvable(o)
  /\ Write(o, [order[o] EXCEPT !.status = "FAILED"])
  /\ Goto(o, a, "refund")
  /\ NoTouch /\ UNCHANGED <<held, sale>>

\* ... and gives it back if the refund was not confirmed: twice, since the
\* error it throws is caught by its own handler, once after an exception.
Rollback(o, a) ==
  /\ PC(o, a) \in {"unconfirmed", "rollback"}
  /\ IF order[o].status = "FAILED" /\ ~order[o].refunded
     THEN Write(o, [order[o] EXCEPT !.status = "MANUAL_REVIEW"])
     ELSE UNCHANGED order
  /\ IF PC(o, a) = "unconfirmed" THEN Goto(o, a, "rollback") ELSE Finish(o, a)
  /\ Calm /\ NoFault /\ NoTouch /\ UNCHANGED <<held, sale>>

-----------------------------------------------------------------------------
(* The provider, and the end of a server process *)

\* A sale that is being worked on comes to its end, unseen by the program.
SaleProgress(o) ==
  /\ sale[o] = "working"
  /\ \E s \in Ended : sale' = [sale EXCEPT ![o] = s]
  /\ Calm /\ NoFault /\ NoTouch /\ UNCHANGED <<order, held, task>>

\* The process p dies, with its polling cycle and with what it was doing for
\* its clients; a lone process does all of it.  Nothing is resumed: an executor
\* is only started by createOrder.
Crash(p) ==
  /\ crashes < MaxCrashes /\ crashes' = crashes + 1
  /\ LET busy == {ow \in Orders \X Serving : task[ow[1]][ow[2]] # Rest(ow[2])} IN
     \E lost \in SUBSET busy :
       /\ Pollers = {p} => lost = busy
       /\ task' = [o \in Orders |-> [w \in Workers |->
            IF w = p \/ <<o, w>> \in lost THEN Rest(w) ELSE task[o][w]]]
  /\ UNCHANGED <<kind, order, held, sale, ahead, shared, requests, faults>>

-----------------------------------------------------------------------------
(* The specification *)

\* The orders in which orders may have been checked, each given by the sets of
\* those before.  Orders that were never checked come first, in some order.
Rankings ==
  {r \in [Orders -> SUBSET Orders] : \A o, q \in Orders :
     (o \in r[q] => r[o] \subseteq r[q] \ {q}) /\ (o \in r[q] \/ q \in r[o] \/ o = q)}

Init ==
  /\ kind \in [Orders -> Kinds]
  /\ order = [o \in Orders |-> NewDoc(kind[o])]
  /\ held = [o \in Orders |-> Charge]
  /\ sale = [o \in Orders |-> "none"]
  /\ task = [o \in Orders |-> [w \in Workers |->
               IF w = "exec" /\ kind[o] # "manual" THEN At("start") ELSE Rest(w)]]
  /\ ahead \in Rankings /\ shared = {}
  /\ requests = 0 /\ crashes = 0 /\ faults = 0

Refund(o, w) ==
  \/ RefundClaim(o, w) \/ RefundCredit(o, w) \/ RefundCreditFails(o, w)
  \/ RefundReset(o, w) \/ ProcessOrderRefund(o, w)

Execute(o) ==
  \/ ExecClaim(o) \/ ExecUnresolved(o) \/ ExecPlace(o) \/ ExecRecord(o)
  \/ ExecReturn(o) \/ ExecCrashGuard(o)

PollAsk(o, p) == PollLookup(o, p) \/ PollCheck(o, p)

Poll(o, p) ==
  \/ PollXenaMissing(o, p) \/ PollAsk(o, p) \/ PollSkip(o, p) \/ PollApply(o, p)

Administer(o, a) ==
  \/ FailOrder(o, a) \/ RefundOrder(o, a)
  \/ SyncRead(o, a) \/ SyncCheck(o, a) \/ SyncSave(o, a)
  \/ CompleteRead(o, a) \/ CompleteDebit(o, a) \/ CompleteSave(o, a)
  \/ MarkCompletedRead(o, a) \/ MarkCompletedSave(o, a)
  \/ ResolveDelivered(o, a) \/ ResolveRefund(o, a) \/ Rollback(o, a)

Next ==
  \/ \E o \in Orders :
       \/ Execute(o)
       \/ \E p \in Pollers : Poll(o, p)
       \/ \E w \in Workers : Refund(o, w)
       \/ \E a \in Admins : Administer(o, a)
       \/ SaleProgress(o)
  \/ \E p \in Pollers : PollStart(p) \/ Crash(p)

Spec == Init /\ [][Next]_vars

\* A task that was started goes on, and the cron of each process starts cycles
\* forever.
Scheduling ==
  /\ \A p \in Pollers : WF_vars(PollStart(p))
  /\ \A o \in Orders :
       /\ WF_vars(Execute(o))
       /\ \A p \in Pollers : WF_vars(Poll(o, p))
       /\ \A w \in Workers : WF_vars(Refund(o, w))

\* The provider of an order, asked about it again and again, answers at last.
ProviderAnswers(o) == SF_vars(\E p \in Pollers : PollAsk(o, p))

FairSpec == Spec /\ Scheduling /\ \A o \in Orders : ProviderAnswers(o)

-----------------------------------------------------------------------------
(* Types *)

\* Every variable keeps to its values.
TypeOK ==
  /\ kind \in [Orders -> Kinds]
  /\ order \in [Orders -> Docs]
  /\ held \in [Orders -> Int]
  /\ sale \in [Orders -> Sales]
  /\ task \in [Orders -> [Workers -> Tasks]]
  /\ ahead \in [Orders -> SUBSET Orders]
  /\ shared \subseteq Orders
  /\ requests \in 0 .. MaxRequests
  /\ crashes \in 0 .. MaxCrashes
  /\ faults \in 0 .. MaxFaults

-----------------------------------------------------------------------------
(* Money: what holds whoever acts, in any order, through crashes and faults, *)
(* as long as a commit that is reported as failed has failed (LostAcks)      *)

\* A task that holds a claim on one charge: a refund that took the flag and
\* has not paid, or a forced completion that took the money again and has yet
\* to clear the flag.
IsClaim(t) == t.pc \in {"credit", "reset"} \/ (t.pc = "complete" /\ t.saw.refunded)

Claimants(o) == {w \in Workers : IsClaim(task[o][w])}

\* An order that does not count as refunded has one claim more.
Open(doc) == IF doc.refunded THEN 0 ELSE 1

Claims == [o \in Orders |-> Cardinality(Claimants(o)) + Open(order[o])]

\* The handling of orders implements their accounts: no step pays without a
\* claim, and no claim arises without a charge.
Account == INSTANCE OrderAccount WITH claims <- Claims
ImplementsAccount == Account!Spec

\* The order's account covers one charge for each claim.
RefundsBacked == \A o \in Orders : held[o] >= Charge * Claims[o]

\* No interleaving of the automation's refunds, the operators' refunds and
\* forced completions gives a customer more than was taken.
NeverOverRefunded == \A o \in Orders : held[o] >= 0

\* An order that may still be refunded is an order that has been paid for.
UnrefundedIsPaid == \A o \in Orders : ~order[o].refunded => held[o] >= Charge

-----------------------------------------------------------------------------
(* The automation on its own (no back-office requests) *)

Quiet(o) == \A w \in Workers : task[o][w] = Rest(w)
Untroubled == crashes = 0 /\ faults = 0

\* When executor and pollers have finished with an order and nothing failed,
\* its flag says whether money went back, and failed orders are refunded,
\* however many processes polled it at once.  Unless polling cycles overlapped
\* on the order, its status says so too: only failed and partial orders are
\* refunded, others are paid for in full; but for Xena orders, which the
\* poller may take to manual review while the executor still waits for the
\* provider's answer.
AutomationSettles ==
  \A o \in Orders : Quiet(o) /\ Untroubled /\ requests = 0 =>
    /\ order[o].refunded <=> held[o] < Charge
    /\ order[o].status = "FAILED" => order[o].refunded
    /\ o \notin shared =>
         /\ order[o].refunded => \/ order[o].status \in {"FAILED", "PARTIAL"}
                                \/ (kind[o] = "xena" /\ order[o].status = "MANUAL_REVIEW")
         /\ order[o].status # "PARTIAL" => held[o] \in {0, Charge}

\* The automation declares an order completed only on goods delivered, at
\* least in part, whatever fails in between.
CompletedWasSold ==
  \A o \in Orders : order[o].status = "COMPLETED" /\ requests = 0 =>
    kind[o] # "manual" /\ sale[o] \in {"delivered", "partial"}

\* A coin recharge that was delivered is never refunded by the automation:
\* the provider has neither an order id nor a status to ask for.
DeliveredCoinIsPaid ==
  \A o \in Orders : kind[o] = "coin" /\ sale[o] = "delivered" /\ requests = 0 =>
    held[o] = Charge

\* The check that brings an order to the retry limit also decides it, whether
\* executor, status check or lookup counted it, through crashes and faults: the
\* kill switch of the poller, which only looks at PROCESSING orders, never
\* finds one at the limit.
KillSwitchIdle ==
  \A o \in Orders : Pollable(kind[o], order[o]) => order[o].retry < MaxRetry

\* Executor and pollers never overwrite an outcome of each other, nor their
\* own, through crashes, as long as no polling cycles overlap on the order and
\* no database operation fails: the crash guard fails the order even when its
\* outcome has been recorded.  Xena orders are the exception (PollXenaMissing).
OutcomeIsFinal ==
  [][\A o \in Orders :
       /\ kind[o] # "xena" /\ o \notin shared /\ requests' = 0 /\ faults' = 0
       /\ order[o].status \in {"COMPLETED", "FAILED", "PARTIAL", "MANUAL_REVIEW"}
       => order'[o].status = order[o].status]_vars

\* Every order the poller can find leaves PROCESSING, if only at the retry
\* limit, though a cycle takes only some of them, provided each provider
\* answers when asked often enough: an order that was checked goes to the end.
PollableSettles ==
  \A o \in Orders :
    Pollable(kind[o], order[o]) ~> order[o].status # "PROCESSING"

\* A failed order is refunded in the end unless the process died or the
\* database failed: nothing else looks at it again.
FailedIsRefunded ==
  \A o \in Orders :
    order[o].status = "FAILED" ~> (order[o].refunded \/ ~Untroubled \/ requests > 0)

-----------------------------------------------------------------------------
(* What comments and documents of the program say, and its code does not do *)

\* The retry limit hands an order to manual review and never fails it.
LimitIsNotFailure ==
  [][\A o \in Orders :
       (order'[o].status = "FAILED" /\ order[o].status # "FAILED" /\ requests' = 0)
         => order'[o].retry < MaxRetry]_vars

\* An order that timed out at its provider is taken up by the cron: no order
\* stays PROCESSING for ever.
ProcessingSettles ==
  \A o \in Orders : order[o].status = "PROCESSING" ~> order[o].status # "PROCESSING"

\* Polling cycles are serialised: no cycle completes what another one has
\* failed and refunded.
CompletedIsNotRefunded ==
  \A o \in Orders :
    Quiet(o) /\ Untroubled /\ requests = 0 /\ order[o].status = "COMPLETED" =>
      ~order[o].refunded

\* A coin recharge leaves manual review by the resolution workflow alone.
CoinReviewIsResolved ==
  [][\A o \in Orders :
       (Blocked(o) /\ order'[o].status # "MANUAL_REVIEW") =>
         \E a \in Admins : ResolveDelivered(o, a) \/ ResolveRefund(o, a)]_vars

\* A completed order is paid for once nobody works on it any more.
CompletedIsPaid ==
  \A o \in Orders : Quiet(o) /\ order[o].status = "COMPLETED" => held[o] >= Charge
=============================================================================
