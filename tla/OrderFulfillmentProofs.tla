----------------------- MODULE OrderFulfillmentProofs -----------------------
(***************************************************************************)
(* Proofs about OrderFulfillment for every set of orders and               *)
(* administrators, every charge, and every bound.                          *)
(***************************************************************************)
EXTENDS OrderFulfillment, FiniteSetTheorems, TLAPS

-----------------------------------------------------------------------------
(* Types *)

USE DEF Statuses

LEMMA DocTypes ==
  /\ NoDoc \in Docs
  /\ \A k \in Kinds : NewDoc(k) \in Docs
BY DEF NoDoc, NewDoc, Docs

LEMMA ReplyTypes == NoReply \in Replies
BY QuantityAssumption DEF NoReply, Reply, Replies, Answers, Sales, Ended

LEMMA AtType == \A pc \in PCs : At(pc) \in Tasks
BY DocTypes, ReplyTypes DEF At, Tasks

LEMMA RestType == \A w \in Workers : Rest(w) \in Tasks /\ ~IsClaim(Rest(w))
BY AtType DEF Rest, PCs, IsClaim, At

\* A worker's task is replaced and no other.
LEMMA BecomeType ==
  ASSUME TypeOK, NEW o \in Orders, NEW w \in Workers, NEW t \in Tasks,
         Become(o, w, t)
  PROVE  /\ task' \in [Orders -> [Workers -> Tasks]]
         /\ task'[o][w] = t
         /\ \A p \in Orders, v \in Workers :
              ~(p = o /\ v = w) => task'[p][v] = task[p][v]
BY DEF TypeOK, Become

LEMMA TaskType ==
  ASSUME TypeOK, NEW o \in Orders, NEW w \in Workers
  PROVE  /\ task[o][w] \in Tasks
         /\ task[o][w].pc \in PCs /\ task[o][w].saw \in Docs
         /\ task[o][w].reply \in Replies
         /\ order[o] \in Docs
BY DEF TypeOK, Tasks

LEMMA GotoType ==
  ASSUME TypeOK, NEW o \in Orders, NEW w \in Workers, NEW pc \in PCs,
         Goto(o, w, pc)
  PROVE  /\ task' \in [Orders -> [Workers -> Tasks]]
         /\ task'[o][w] = [task[o][w] EXCEPT !.pc = pc]
         /\ \A p \in Orders, v \in Workers :
              ~(p = o /\ v = w) => task'[p][v] = task[p][v]
<1>1. [task[o][w] EXCEPT !.pc = pc] \in Tasks
  BY TaskType DEF Tasks
<1> QED BY <1>1, BecomeType DEF Goto

LEMMA FinishType ==
  ASSUME TypeOK, NEW o \in Orders, NEW w \in Workers, Finish(o, w)
  PROVE  /\ task' \in [Orders -> [Workers -> Tasks]]
         /\ task'[o][w] = Rest(w)
         /\ \A p \in Orders, v \in Workers :
              ~(p = o /\ v = w) => task'[p][v] = task[p][v]
BY RestType, BecomeType DEF Finish

LEMMA WriteType ==
  ASSUME TypeOK, NEW o \in Orders, NEW doc \in Docs, Write(o, doc)
  PROVE  /\ order' \in [Orders -> Docs]
         /\ order'[o] = doc
         /\ \A p \in Orders : p # o => order'[p] = order[p]
BY DEF TypeOK, Write

LEMMA FaultType ==
  ASSUME TypeOK, Fault \/ NoFault
  PROVE  faults' \in 0 .. MaxFaults
BY BoundsAssumption DEF TypeOK, Fault, NoFault

LEMMA CalmType ==
  ASSUME TypeOK, Calm
  PROVE  /\ kind' \in [Orders -> Kinds] /\ shared' \subseteq Orders
         /\ requests' \in 0 .. MaxRequests /\ crashes' \in 0 .. MaxCrashes
BY DEF TypeOK, Calm

LEMMA TouchType ==
  ASSUME TypeOK, NEW o \in Orders, Touch(o) \/ NoTouch
  PROVE  ahead' \in [Orders -> SUBSET Orders]
BY DEF TypeOK, Touch, NoTouch

LEMMA RequestType ==
  ASSUME TypeOK, NEW o \in Orders, NEW a \in Admins, Request(o, a)
  PROVE  /\ kind' \in [Orders -> Kinds] /\ shared' \subseteq Orders
         /\ requests' \in 0 .. MaxRequests /\ crashes' \in 0 .. MaxCrashes
         /\ faults' \in 0 .. MaxFaults
BY BoundsAssumption DEF TypeOK, Request

\* A document with some of its fields replaced.
LEMMA DocUpdate ==
  ASSUME NEW doc \in Docs
  PROVE  /\ \A st \in Statuses : [doc EXCEPT !.status = st] \in Docs
         /\ \A b \in BOOLEAN : [doc EXCEPT !.refunded = b] \in Docs
         /\ \A b \in BOOLEAN : [doc EXCEPT !.lookup = b] \in Docs
         /\ \A b, c \in BOOLEAN : [doc EXCEPT !.hasId = b, !.lookup = c] \in Docs
         /\ \A n \in Nat : [doc EXCEPT !.retry = n] \in Docs
         /\ \A st \in Statuses, n \in Nat, b \in BOOLEAN :
              [doc EXCEPT !.status = st, !.retry = n, !.lookup = b] \in Docs
         /\ \A st \in Statuses, n \in Nat :
              [doc EXCEPT !.retry = n, !.status = st] \in Docs
         /\ \A st \in Statuses, b \in BOOLEAN :
              [doc EXCEPT !.status = st, !.refunded = b] \in Docs
BY DEF Docs

\* The documents that executor and poller compute.
LEMMA PlacedType ==
  ASSUME NEW k, NEW doc \in Docs, NEW saw \in Docs, NEW r \in Replies
  PROVE  Placed(k, doc, saw, r) \in Docs
<1> DEFINE st == PlacementStatus(k, r)
           retry == IF r.id THEN saw.retry ELSE saw.retry + 1
           unplaced == r.st = "unplaced"
           known == [doc EXCEPT !.hasId = r.id, !.lookup = unplaced]
<1>1. st \in Statuses
  BY DEF PlacementStatus
<1>2. r.id \in BOOLEAN /\ unplaced \in BOOLEAN /\ retry \in Nat
  BY DEF Replies, Docs
<1>3. known \in Docs
  BY <1>2, DocUpdate
<1>4. CASE st # "PROCESSING"
  <2>1. Placed(k, doc, saw, r) = [known EXCEPT !.status = st]
    BY <1>4 DEF Placed
  <2> HIDE DEF known, st
  <2> QED BY <2>1, <1>1, <1>3, DocUpdate
<1>5. CASE st = "PROCESSING" /\ ~r.id /\ retry >= MaxRetry
  <2>1. Placed(k, doc, saw, r)
          = [doc EXCEPT !.status = "MANUAL_REVIEW", !.retry = retry, !.lookup = unplaced]
    BY <1>5 DEF Placed
  <2>2. unplaced \in BOOLEAN /\ retry \in Nat /\ "MANUAL_REVIEW" \in Statuses
    BY <1>2
  <2> HIDE DEF retry, unplaced, known, st
  <2> QED BY <2>1, <2>2 DEF Docs
<1>6. CASE st = "PROCESSING" /\ ~(~r.id /\ retry >= MaxRetry)
  <2>1. Placed(k, doc, saw, r) = [known EXCEPT !.retry = retry]
    BY <1>6 DEF Placed
  <2> HIDE DEF retry, known
  <2> QED BY <2>1, <1>2, <1>3, DocUpdate
<1> QED BY <1>4, <1>5, <1>6

LEMMA PolledType ==
  ASSUME NEW doc \in Docs, NEW saw \in Docs, NEW r \in Replies
  PROVE  Polled(doc, saw, r) \in Docs
<1> DEFINE told == [doc EXCEPT !.lookup = FALSE]
           counted == [told EXCEPT !.retry = saw.retry + 1]
<1>1. told \in Docs
  BY DocUpdate
<1>2. counted \in Docs
  <2>1. saw.retry + 1 \in Nat
    BY DEF Docs
  <2> HIDE DEF told
  <2> QED BY <2>1, <1>1, DocUpdate
<1>3. \A st \in Statuses : [told EXCEPT !.status = st] \in Docs
                        /\ [counted EXCEPT !.status = st] \in Docs
  <2> HIDE DEF told, counted
  <2> QED BY <1>1, <1>2, DocUpdate
<1>4. \E st \in Statuses : Polled(doc, saw, r) \in
        {counted, [told EXCEPT !.status = st], [counted EXCEPT !.status = st]}
  BY DEF Polled
<1> HIDE DEF told, counted
<1> QED BY <1>2, <1>3, <1>4

LEMMA ReplyType == \A st \in Answers, b \in BOOLEAN : Reply(st, b) \in Replies
BY QuantityAssumption DEF Reply, Replies

LEMMA PlaceRepliesType ==
  ASSUME NEW k, NEW s \in Sales
  PROVE  PlaceReplies(k, s) \subseteq Replies
<1>1. {"rejected", "unmapped", "unknown"} \subseteq Answers /\ Ambiguous(k) \subseteq Answers
  BY DEF Answers, Ambiguous
<1>2. s # "none" => s \in Answers
  BY DEF Answers
<1> QED BY <1>1, <1>2, ReplyType DEF PlaceReplies

LEMMA CheckRepliesType ==
  ASSUME NEW s \in Sales
  PROVE  CheckReplies(s) \subseteq Replies
<1>1. Reply("unknown", TRUE) \in Replies
  BY ReplyType DEF Answers
<1>2. ASSUME s = "partial", NEW n \in 0 .. Quantity - 1
      PROVE  [Reply(s, TRUE) EXCEPT !.remains = n] \in Replies
  BY <1>2 DEF Reply, Replies, Answers, Sales, Ended
<1> QED BY <1>1, <1>2 DEF CheckReplies

LEMMA WorkerTypes == "exec" \in Workers /\ Pollers \subseteq Workers /\ Admins \subseteq Workers
BY DEF Workers, Serving

LEMMA RefundAmountType ==
  ASSUME NEW r \in 0 .. Quantity - 1
  PROVE  RefundAmount(r) \in 0 .. Charge
<1>1. CASE r > 0
  <2>1. r * Charge \in Nat /\ r * Charge <= Quantity * Charge
    BY ChargeAssumption, QuantityAssumption
  <2>2. (r * Charge) \div Quantity \in 0 .. Charge
    BY <2>1, ChargeAssumption, QuantityAssumption
  <2> QED BY <1>1, <2>2, ChargeAssumption, QuantityAssumption DEF RefundAmount
<1>2. CASE ~(r > 0)
  BY <1>2, ChargeAssumption DEF RefundAmount
<1> QED BY <1>1, <1>2

\* Returning from a refund, and from one that was not made.
LEMMA ReturnType ==
  ASSUME TypeOK, NEW o \in Orders, NEW w \in Workers,
         Return(o, w) \/ (\E pc \in {"unconfirmed", "rollback"} : NotRefunded(o, w, pc))
  PROVE  /\ task' \in [Orders -> [Workers -> Tasks]]
         /\ ~IsClaim(task'[o][w])
         /\ \A p \in Orders, v \in Workers :
              ~(p = o /\ v = w) => task'[p][v] = task[p][v]
<1>1. ASSUME NEW pc \in {"return", "unconfirmed", "rollback"}, Goto(o, w, pc)
      PROVE  /\ task' \in [Orders -> [Workers -> Tasks]]
             /\ ~IsClaim(task'[o][w])
             /\ \A p \in Orders, v \in Workers :
                  ~(p = o /\ v = w) => task'[p][v] = task[p][v]
  <2>1. pc \in PCs
    BY DEF PCs
  <2>2. ~IsClaim([task[o][w] EXCEPT !.pc = pc])
    BY TaskType DEF Tasks, IsClaim
  <2> HIDE DEF IsClaim
  <2> QED BY <1>1, <2>1, <2>2, GotoType
<1>2. CASE Finish(o, w)
  BY <1>2, FinishType, RestType
<1>3. \/ Finish(o, w)
      \/ \E pc \in {"return", "unconfirmed", "rollback"} : Goto(o, w, pc)
  BY DEF Return, NotRefunded
<1> QED BY <1>1, <1>2, <1>3

LEMMA HeldType ==
  ASSUME TypeOK, NEW o \in Orders, NEW n \in Int
  PROVE  /\ (held' = [held EXCEPT ![o] = @ - n]) => held' \in [Orders -> Int]
         /\ (held' = [held EXCEPT ![o] = @ + n]) => held' \in [Orders -> Int]
BY DEF TypeOK

LEMMA RefundKeepsTypes ==
  ASSUME TypeOK, NEW o \in Orders, NEW w \in Workers, Refund(o, w)
  PROVE  TypeOK'
<1> USE TaskType
<1>c. Charge \in Int
  BY ChargeAssumption
<1>1. CASE RefundClaim(o, w)
  <2>1. task' \in [Orders -> [Workers -> Tasks]]
    BY <1>1, GotoType, ReturnType DEF RefundClaim, PCs
  <2>2. order' \in [Orders -> Docs]
    BY <1>1, DocUpdate, WriteType DEF RefundClaim, TypeOK
  <2> QED BY <1>1, <2>1, <2>2, FaultType, CalmType, TouchType DEF RefundClaim, TypeOK
<1>2. CASE RefundCredit(o, w)
  BY <1>2, <1>c, HeldType, ReturnType, FaultType, CalmType, TouchType DEF RefundCredit, TypeOK
<1>3. CASE RefundCreditFails(o, w)
  <2>1. task' \in [Orders -> [Workers -> Tasks]]
    BY <1>3, GotoType DEF RefundCreditFails, PCs
  <2>2. held' \in [Orders -> Int]
    BY <1>3, <1>c, HeldType DEF RefundCreditFails, TypeOK
  <2> QED BY <1>3, <2>1, <2>2, FaultType, CalmType, TouchType DEF RefundCreditFails, TypeOK
<1>4. CASE RefundReset(o, w)
  <2>1. task' \in [Orders -> [Workers -> Tasks]]
    BY <1>4, ReturnType DEF RefundReset
  <2>2. order' \in [Orders -> Docs]
    BY <1>4, DocUpdate, WriteType DEF RefundReset, TypeOK
  <2> QED BY <1>4, <2>1, <2>2, FaultType, CalmType, TouchType DEF RefundReset, TypeOK
<1>5. CASE ProcessOrderRefund(o, w)
  <2>1. task' \in [Orders -> [Workers -> Tasks]]
    BY <1>5, FinishType DEF ProcessOrderRefund
  <2>2. order' \in [Orders -> Docs]
    BY <1>5, DocUpdate, WriteType DEF ProcessOrderRefund, TypeOK
  <2>3. RefundAmount(task[o][w].reply.remains) \in Int
    BY RefundAmountType DEF Replies
  <2>4. held' \in [Orders -> Int]
    BY <1>5, <2>3, HeldType DEF ProcessOrderRefund, TypeOK
  <2> QED BY <1>5, <2>1, <2>2, <2>4, FaultType, CalmType, TouchType DEF ProcessOrderRefund, TypeOK
<1> QED BY <1>1, <1>2, <1>3, <1>4, <1>5 DEF Refund

LEMMA ExecuteKeepsTypes ==
  ASSUME TypeOK, NEW o \in Orders, Execute(o)
  PROVE  TypeOK'
<1> USE TaskType, WorkerTypes
<1>1. CASE ExecClaim(o)
  <2>1. [At("place") EXCEPT !.saw = order[o]] \in Tasks
    BY AtType DEF Tasks, PCs
  <2>2. task' \in [Orders -> [Workers -> Tasks]]
    BY <1>1, <2>1, BecomeType, FinishType DEF ExecClaim
  <2> QED BY <1>1, <2>2, FaultType, CalmType, TouchType DEF ExecClaim, TypeOK
<1>2. CASE ExecUnresolved(o)
  <2>1. task' \in [Orders -> [Workers -> Tasks]]
    BY <1>2, GotoType DEF ExecUnresolved, PCs
  <2>2. order' \in [Orders -> Docs]
    BY <1>2, DocUpdate, WriteType DEF ExecUnresolved
  <2> QED BY <1>2, <2>1, <2>2, FaultType, CalmType, TouchType DEF ExecUnresolved, TypeOK
<1>3. CASE ExecPlace(o)
  <2>1. PICK s \in SaleAfterPlacement(kind[o]) : \E r \in PlaceReplies(kind[o], s) :
          /\ sale' = [sale EXCEPT ![o] = s]
          /\ Become(o, "exec", [task[o]["exec"] EXCEPT !.pc = "placed", !.reply = r])
    BY <1>3 DEF ExecPlace
  <2>2. s \in Sales
    BY DEF SaleAfterPlacement, Sales, Ended
  <2>3. PICK r \in PlaceReplies(kind[o], s) :
          Become(o, "exec", [task[o]["exec"] EXCEPT !.pc = "placed", !.reply = r])
    BY <2>1
  <2>4. r \in Replies
    BY <2>2, PlaceRepliesType
  <2>5. [task[o]["exec"] EXCEPT !.pc = "placed", !.reply = r] \in Tasks
    BY <2>4 DEF Tasks, PCs
  <2>6. task' \in [Orders -> [Workers -> Tasks]]
    BY <2>3, <2>5, BecomeType
  <2>7. sale' \in [Orders -> Sales]
    BY <2>1, <2>2 DEF TypeOK
  <2> QED BY <1>3, <2>6, <2>7, FaultType, CalmType, TouchType DEF ExecPlace, TypeOK
<1>4. CASE ExecRecord(o)
  <2>1. Placed(kind[o], order[o], task[o]["exec"].saw, task[o]["exec"].reply) \in Docs
    BY PlacedType
  <2>2. order' \in [Orders -> Docs]
    BY <1>4, <2>1, WriteType DEF ExecRecord
  <2>3. task' \in [Orders -> [Workers -> Tasks]]
    BY <1>4, GotoType DEF ExecRecord, PCs
  <2> QED BY <1>4, <2>2, <2>3, FaultType, CalmType, TouchType DEF ExecRecord, TypeOK
<1>5. CASE ExecReturn(o)
  BY <1>5, FinishType, FaultType, CalmType, TouchType DEF ExecReturn, TypeOK
<1>6. CASE ExecCrashGuard(o)
  <2>1. order' \in [Orders -> Docs]
    BY <1>6, DocUpdate, WriteType DEF ExecCrashGuard
  <2>2. At("refund") \in Tasks
    BY AtType DEF PCs
  <2>3. task' \in [Orders -> [Workers -> Tasks]]
    BY <1>6, <2>2, FinishType, BecomeType DEF ExecCrashGuard
  <2> QED BY <1>6, <2>1, <2>3, FaultType, CalmType, TouchType DEF ExecCrashGuard, TypeOK
<1> QED BY <1>1, <1>2, <1>3, <1>4, <1>5, <1>6 DEF Execute

LEMMA PollKeepsTypes ==
  ASSUME TypeOK, NEW o \in Orders, NEW p \in Pollers, Poll(o, p)
  PROVE  TypeOK'
<1> USE TaskType, WorkerTypes
<1>1. CASE PollXenaMissing(o, p)
  <2>1. order' \in [Orders -> Docs]
    BY <1>1, DocUpdate, WriteType DEF PollXenaMissing
  <2> QED BY <1>1, <2>1, FinishType, FaultType, CalmType, TouchType DEF PollXenaMissing, TypeOK
<1>2. CASE PollLookup(o, p)
  <2> DEFINE t == [task[o][p] EXCEPT !.saw.hasId = TRUE]
             retry == task[o][p].saw.retry + 1
             doc1 == [order[o] EXCEPT !.hasId = TRUE, !.lookup = FALSE]
             doc2 == [order[o] EXCEPT !.retry = retry,
                        !.status = IF retry >= MaxRetry THEN "MANUAL_REVIEW" ELSE @]
  <2>1. t \in Tasks
    <3> DEFINE saw == [task[o][p].saw EXCEPT !.hasId = TRUE]
    <3>1. saw \in Docs
      BY DEF Docs
    <3>2. t = [task[o][p] EXCEPT !.saw = saw]
      BY DEF Tasks
    <3> HIDE DEF saw, t
    <3> QED BY <3>1, <3>2 DEF Tasks
  <2>2. doc1 \in Docs
    BY DocUpdate
  <2>3. doc2 \in Docs
    <3>1. retry \in Nat
      BY DEF Docs
    <3>2. (IF retry >= MaxRetry THEN "MANUAL_REVIEW" ELSE order[o].status) \in Statuses
      BY DEF Docs
    <3>3. doc2 = [order[o] EXCEPT !.retry = retry,
                    !.status = IF retry >= MaxRetry THEN "MANUAL_REVIEW" ELSE order[o].status]
      BY DEF Docs
    <3> HIDE DEF retry, doc2
    <3> QED BY <3>1, <3>2, <3>3, DocUpdate
  <2>4. \/ Write(o, doc1) /\ Become(o, p, t)
        \/ Write(o, doc2) /\ Finish(o, p)
    BY <1>2 DEF PollLookup
  <2> HIDE DEF t, doc1, doc2
  <2>5. order' \in [Orders -> Docs] /\ task' \in [Orders -> [Workers -> Tasks]]
    BY <2>1, <2>2, <2>3, <2>4, WriteType, BecomeType, FinishType
  <2> QED BY <1>2, <2>5, FaultType, CalmType, TouchType DEF PollLookup, TypeOK
<1>3. CASE PollCheck(o, p)
  <2>1. PICK r \in CheckReplies(sale[o]) :
          Become(o, p, [task[o][p] EXCEPT !.pc = "apply", !.reply = r])
    BY <1>3 DEF PollCheck
  <2>2. r \in Replies
    BY CheckRepliesType DEF TypeOK
  <2>3. [task[o][p] EXCEPT !.pc = "apply", !.reply = r] \in Tasks
    BY <2>2 DEF Tasks, PCs
  <2> QED BY <1>3, <2>1, <2>3, BecomeType, FaultType, CalmType, TouchType DEF PollCheck, TypeOK
<1>4. CASE PollSkip(o, p)
  BY <1>4, FinishType, FaultType, CalmType, TouchType DEF PollSkip, TypeOK
<1>5. CASE PollApply(o, p)
  <2>1. Polled(order[o], task[o][p].saw, task[o][p].reply) \in Docs
    BY PolledType
  <2>2. order' \in [Orders -> Docs]
    BY <1>5, <2>1, WriteType DEF PollApply
  <2>3. Finish(o, p) \/ \E pc \in {"partial", "refund"} : Goto(o, p, pc)
    BY <1>5 DEF PollApply
  <2>4. task' \in [Orders -> [Workers -> Tasks]]
    BY <2>3, GotoType, FinishType DEF PCs
  <2> QED BY <1>5, <2>2, <2>4, FaultType, CalmType, TouchType DEF PollApply, TypeOK
<1> QED BY <1>1, <1>2, <1>3, <1>4, <1>5 DEF Poll, PollAsk

LEMMA PollStartKeepsTypes ==
  ASSUME TypeOK, NEW p \in Pollers, PollStart(p)
  PROVE  TypeOK'
<1> DEFINE job(o) == [At("check") EXCEPT !.saw = order[o]]
<1>1. \A o \in Orders : job(o) \in Tasks
  BY AtType, TaskType, WorkerTypes DEF Tasks, PCs
<1>2. \A o \in Orders : [task[o] EXCEPT ![p] = job(o)] \in [Workers -> Tasks]
  BY <1>1 DEF TypeOK
<1>3. task' \in [Orders -> [Workers -> Tasks]]
  <2>1. PICK S : task' = [o \in Orders |-> IF o \notin S THEN task[o]
                            ELSE [task[o] EXCEPT ![p] = job(o)]]
    BY DEF PollStart
  <2> HIDE DEF job
  <2> QED BY <1>2, <2>1 DEF TypeOK
<1>4. shared' \subseteq Orders /\ UNCHANGED <<kind, order, held, sale, ahead, requests, crashes>>
  BY DEF PollStart, Batch, NoTouch, TypeOK
<1> QED BY <1>3, <1>4, FaultType DEF PollStart, TypeOK

LEMMA AdministerKeepsTypes ==
  ASSUME TypeOK, NEW o \in Orders, NEW a \in Admins, Administer(o, a)
  PROVE  TypeOK'
<1>w. a \in Workers
  BY WorkerTypes
<1> USE TaskType, <1>w
<1>c. Charge \in Int
  BY ChargeAssumption
<1>r. ASSUME NEW pc \in {"syncCheck", "redebit", "complete"},
             Become(o, a, [At(pc) EXCEPT !.saw = order[o]])
      PROVE  task' \in [Orders -> [Workers -> Tasks]]
  <2>1. [At(pc) EXCEPT !.saw = order[o]] \in Tasks
    BY AtType DEF Tasks, PCs
  <2> QED BY <2>1, <1>r, BecomeType
<1>1. CASE FailOrder(o, a) \/ RefundOrder(o, a)
  <2>1. MarkOrderAsFailed(o) /\ Request(o, a) /\ sale' = sale /\ task' = task
    BY <1>1 DEF FailOrder, RefundOrder
  <2>2. order' \in [Orders -> Docs] /\ held' \in [Orders -> Int]
    BY <2>1, <1>c, DocUpdate, WriteType, HeldType DEF MarkOrderAsFailed
  <2>3. NoTouch
    BY <1>1 DEF FailOrder, RefundOrder
  <2> QED BY <2>1, <2>2, <2>3, RequestType, TouchType DEF TypeOK
<1>2. CASE SyncRead(o, a)
  BY <1>2, <1>r, RequestType, TouchType DEF SyncRead, TypeOK
<1>3. CASE SyncCheck(o, a)
  <2>1. ASSUME NEW r \in CheckReplies(sale[o]),
               Become(o, a, [task[o][a] EXCEPT !.pc = "syncSave", !.reply = r])
        PROVE  task' \in [Orders -> [Workers -> Tasks]]
    <3>1. r \in Replies
      BY CheckRepliesType DEF TypeOK
    <3>2. [task[o][a] EXCEPT !.pc = "syncSave", !.reply = r] \in Tasks
      BY <3>1 DEF Tasks, PCs
    <3> QED BY <3>2, <2>1, BecomeType
  <2>2. task' \in [Orders -> [Workers -> Tasks]]
    BY <1>3, <2>1, FinishType DEF SyncCheck
  <2> QED BY <1>3, <2>2, FaultType, CalmType, TouchType DEF SyncCheck, Serve, TypeOK
<1>4. CASE SyncSave(o, a)
  <2>1. SyncStatus(task[o][a].reply) \in Statuses
    BY DEF SyncStatus
  <2>2. order' \in [Orders -> Docs]
    BY <1>4, <2>1, DocUpdate, WriteType DEF SyncSave, TypeOK
  <2>3. task' \in [Orders -> [Workers -> Tasks]]
    BY <1>4, GotoType, FinishType DEF SyncSave, PCs
  <2> QED BY <1>4, <2>2, <2>3, FaultType, CalmType, TouchType DEF SyncSave, Serve, TypeOK
<1>5. CASE CompleteRead(o, a)
  BY <1>5, <1>r, RequestType, TouchType DEF CompleteRead, TypeOK
<1>6. CASE CompleteDebit(o, a)
  <2>1. held' \in [Orders -> Int]
    BY <1>6, <1>c, HeldType DEF CompleteDebit, TypeOK
  <2>2. task' \in [Orders -> [Workers -> Tasks]]
    BY <1>6, GotoType, FinishType DEF CompleteDebit, PCs
  <2> QED BY <1>6, <2>1, <2>2, FaultType, CalmType, TouchType DEF CompleteDebit, Serve, TypeOK
<1>7. CASE CompleteSave(o, a)
  <2>1. [order[o] EXCEPT !.status = "COMPLETED",
                         !.refunded = @ /\ ~task[o][a].saw.refunded] \in Docs
    BY DEF Docs
  <2>2. order' \in [Orders -> Docs]
    BY <1>7, <2>1, WriteType DEF CompleteSave, TypeOK
  <2> QED BY <1>7, <2>2, FinishType, FaultType, CalmType, TouchType DEF CompleteSave, Serve, TypeOK
<1>8. CASE MarkCompletedRead(o, a)
  BY <1>8, GotoType, RequestType, TouchType DEF MarkCompletedRead, PCs, TypeOK
<1>9. CASE MarkCompletedSave(o, a)
  <2>1. order' \in [Orders -> Docs]
    BY <1>9, DocUpdate, WriteType DEF MarkCompletedSave
  <2> QED BY <1>9, <2>1, FinishType, FaultType, CalmType, TouchType DEF MarkCompletedSave, Serve, TypeOK
<1>10. CASE ResolveDelivered(o, a)
  <2>1. order' \in [Orders -> Docs]
    BY <1>10, DocUpdate, WriteType DEF ResolveDelivered
  <2> QED BY <1>10, <2>1, RequestType, TouchType DEF ResolveDelivered, TypeOK
<1>11. CASE ResolveRefund(o, a)
  <2>1. order' \in [Orders -> Docs]
    BY <1>11, DocUpdate, WriteType DEF ResolveRefund
  <2> QED BY <1>11, <2>1, GotoType, RequestType, TouchType DEF ResolveRefund, PCs, TypeOK
<1>12. CASE Rollback(o, a)
  <2>1. order' \in [Orders -> Docs]
    BY <1>12, DocUpdate, WriteType DEF Rollback, TypeOK
  <2>2. task' \in [Orders -> [Workers -> Tasks]]
    BY <1>12, GotoType, FinishType DEF Rollback, PCs
  <2> QED BY <1>12, <2>1, <2>2, FaultType, CalmType, TouchType DEF Rollback, TypeOK
<1> QED BY <1>1, <1>2, <1>3, <1>4, <1>5, <1>6, <1>7, <1>8, <1>9, <1>10, <1>11, <1>12
        DEF Administer

LEMMA InitTypes == Init => TypeOK
<1> SUFFICES ASSUME Init PROVE TypeOK
  OBVIOUS
<1>1. order \in [Orders -> Docs]
  BY DocTypes DEF Init
<1>2. task \in [Orders -> [Workers -> Tasks]]
  BY RestType, AtType DEF Init, PCs
<1> QED BY <1>1, <1>2, ChargeAssumption, BoundsAssumption DEF Init, TypeOK, Sales, Rankings

LEMMA NextKeepsTypes == TypeOK /\ [Next]_vars => TypeOK'
<1> SUFFICES ASSUME TypeOK, [Next]_vars PROVE TypeOK'
  OBVIOUS
<1>1. CASE \E o \in Orders : Execute(o)
  BY <1>1, ExecuteKeepsTypes
<1>2. CASE \E o \in Orders, p \in Pollers : Poll(o, p)
  BY <1>2, PollKeepsTypes
<1>3. CASE \E o \in Orders, w \in Workers : Refund(o, w)
  BY <1>3, RefundKeepsTypes
<1>4. CASE \E o \in Orders, a \in Admins : Administer(o, a)
  BY <1>4, AdministerKeepsTypes
<1>5. CASE \E o \in Orders : SaleProgress(o)
  <2>1. PICK o \in Orders, s \in Ended : sale' = [sale EXCEPT ![o] = s]
    BY <1>5 DEF SaleProgress
  <2>2. sale' \in [Orders -> Sales]
    BY <2>1 DEF TypeOK, Sales
  <2> QED BY <1>5, <2>2, FaultType, CalmType, TouchType DEF SaleProgress, TypeOK
<1>6. CASE \E p \in Pollers : PollStart(p)
  BY <1>6, PollStartKeepsTypes
<1>7. CASE \E p \in Pollers : Crash(p)
  <2>1. task' \in [Orders -> [Workers -> Tasks]]
    BY <1>7, RestType DEF Crash, TypeOK
  <2> QED BY <1>7, <2>1, BoundsAssumption DEF Crash, TypeOK
<1>8. CASE UNCHANGED vars
  BY <1>8 DEF vars, TypeOK
<1> QED BY <1>1, <1>2, <1>3, <1>4, <1>5, <1>6, <1>7, <1>8 DEF Next

\* Every reachable state of the fulfilment keeps to its types.
THEOREM TypesHold == Spec => []TypeOK
BY InitTypes, NextKeepsTypes, PTL DEF Spec

-----------------------------------------------------------------------------
(* Claims: how one step of one task moves the claims on an order *)

Hold(t) == IF IsClaim(t) THEN 1 ELSE 0

LEMMA WorkersFinite == IsFiniteSet(Workers)
<1>1. IsFiniteSet({"exec"})
  BY FS_AddElement, FS_EmptySet, {"exec"} = {} \cup {"exec"}
<1> QED BY <1>1, AdminsAssumption, PollersAssumption, FS_Union DEF Workers, Serving

LEMMA ClaimantsFinite ==
  \A o \in Orders : IsFiniteSet(Claimants(o)) /\ Cardinality(Claimants(o)) \in Nat
BY WorkersFinite, FS_Subset, FS_CardinalityType DEF Claimants

LEMMA ClaimsType ==
  /\ Claims \in [Orders -> Nat]
  /\ \A o \in Orders : Claims[o] = Cardinality(Claimants(o)) + Open(order[o])
BY ClaimantsFinite DEF Claims, Open

LEMMA ClaimsTypeNext ==
  /\ Claims' \in [Orders -> Nat]
  /\ \A o \in Orders : Claims'[o] = Cardinality(Claimants(o)') + Open(order'[o])
<1>1. \A o \in Orders : IsFiniteSet(Claimants(o)') /\ Cardinality(Claimants(o)') \in Nat
  BY WorkersFinite, FS_Subset, FS_CardinalityType DEF Claimants
<1> QED BY <1>1 DEF Claims, Open

\* Two sets that differ at x at most.
LEMMA CardinalityMove ==
  ASSUME NEW S, NEW T, NEW x, IsFiniteSet(S), S \cup {x} = T \cup {x}
  PROVE  Cardinality(T) = Cardinality(S) + ((IF x \in T THEN 1 ELSE 0)
                                            - (IF x \in S THEN 1 ELSE 0))
<1>1. Cardinality(S) \in Nat /\ Cardinality(S \cup {x}) \in Nat
  BY FS_CardinalityType, FS_AddElement
<1>2. CASE x \in S <=> x \in T
  <2>1. S = T
    BY <1>2
  <2> QED BY <1>1, <1>2, <2>1
<1>3. CASE x \in S /\ x \notin T
  <2>1. T = S \ {x}
    BY <1>3
  <2>2. Cardinality(T) = Cardinality(S) - 1
    BY <1>3, <2>1, FS_RemoveElement
  <2> QED BY <1>1, <1>3, <2>2
<1>4. CASE x \notin S /\ x \in T
  <2>1. T = S \cup {x}
    BY <1>4
  <2>2. Cardinality(T) = Cardinality(S) + 1
    BY <1>4, <2>1, FS_AddElement
  <2> QED BY <1>1, <1>4, <2>2
<1> QED BY <1>2, <1>3, <1>4

\* One task may move and one document may change: that of order o.
LEMMA ClaimsMove ==
  ASSUME NEW o \in Orders, NEW w \in Workers,
         \A p \in Orders : p # o => order'[p] = order[p],
         \A p \in Orders, v \in Workers :
           ~(p = o /\ v = w) => task'[p][v] = task[p][v]
  PROVE  /\ \A p \in Orders : p # o => Claims'[p] = Claims[p]
         /\ Claims'[o] = Claims[o] + (Hold(task'[o][w]) - Hold(task[o][w]))
                                   + (Open(order'[o]) - Open(order[o]))
<1> DEFINE S(p) == {v \in Workers : IsClaim(task[p][v])}
           T(p) == {v \in Workers : IsClaim(task'[p][v])}
<1>1. \A p \in Orders : Claimants(p) = S(p) /\ Claimants(p)' = T(p)
  BY DEF Claimants, IsClaim
<1>2. ASSUME NEW p \in Orders, p # o PROVE T(p) = S(p)
  <2>1. \A v \in Workers : task'[p][v] = task[p][v]
    BY <1>2
  <2> QED BY <2>1
<1>3. Cardinality(T(o)) = Cardinality(S(o)) + (Hold(task'[o][w]) - Hold(task[o][w]))
  <2>1. S(o) \cup {w} = T(o) \cup {w}
    <3>1. \A v \in Workers : v # w => task'[o][v] = task[o][v]
      OBVIOUS
    <3> QED BY <3>1
  <2>2. IsFiniteSet(S(o))
    BY WorkersFinite, FS_Subset
  <2>3. (w \in S(o) <=> IsClaim(task[o][w])) /\ (w \in T(o) <=> IsClaim(task'[o][w]))
    OBVIOUS
  <2> HIDE DEF S, T
  <2>4. Cardinality(T(o)) = Cardinality(S(o)) + ((IF w \in T(o) THEN 1 ELSE 0)
                                                 - (IF w \in S(o) THEN 1 ELSE 0))
    BY <2>1, <2>2, CardinalityMove
  <2> QED BY <2>3, <2>4 DEF Hold
<1>4. \A p \in Orders : /\ Cardinality(S(p)) \in Nat
                        /\ Claims[p] = Cardinality(S(p)) + Open(order[p])
                        /\ Claims'[p] = Cardinality(T(p)) + Open(order'[p])
  <2> HIDE DEF S, T
  <2> QED BY <1>1, ClaimsType, ClaimsTypeNext, ClaimantsFinite
<1>5. \A p \in Orders : p # o => Claims'[p] = Claims[p]
  <2> HIDE DEF S, T
  <2> QED BY <1>2, <1>4
<1>6. Claims'[o] = Claims[o] + (Hold(task'[o][w]) - Hold(task[o][w]))
                             + (Open(order'[o]) - Open(order[o]))
  <2>1. /\ Hold(task'[o][w]) \in Int /\ Hold(task[o][w]) \in Int
        /\ Open(order'[o]) \in Int /\ Open(order[o]) \in Int
    BY DEF Hold, Open
  <2> HIDE DEF S, T
  <2> QED BY <1>3, <1>4, <2>1
<1> QED BY <1>5, <1>6

\* Such a step is a step of the account if money and claims move together.
LEMMA AccountMove ==
  ASSUME NEW o \in Orders, NEW w \in Workers,
         \A p \in Orders : p # o => order'[p] = order[p],
         \A p \in Orders, v \in Workers :
           ~(p = o /\ v = w) => task'[p][v] = task[p][v],
         NEW d,
         d = (Hold(task'[o][w]) - Hold(task[o][w])) + (Open(order'[o]) - Open(order[o])),
         \/ d <= 0 /\ held' = held
         \/ d = -1 /\ \E n \in 0 .. Charge : held' = [held EXCEPT ![o] = @ - n]
         \/ d \in {0, 1} /\ held' = [held EXCEPT ![o] = @ + Charge]
  PROVE  Account!Next
<1>1. /\ \A p \in Orders : p # o => Claims'[p] = Claims[p]
      /\ Claims'[o] = Claims[o] + d
      /\ d \in Int
  <2>1. /\ Hold(task'[o][w]) \in Int /\ Hold(task[o][w]) \in Int
        /\ Open(order'[o]) \in Int /\ Open(order[o]) \in Int
    BY DEF Hold, Open
  <2>2. Claims[o] \in Nat
    BY ClaimsType
  <2>3. /\ \A p \in Orders : p # o => Claims'[p] = Claims[p]
        /\ Claims'[o] = Claims[o] + (Hold(task'[o][w]) - Hold(task[o][w]))
                                  + (Open(order'[o]) - Open(order[o]))
    BY ClaimsMove
  <2> QED BY <2>1, <2>2, <2>3
<1>2. Claims' = [Claims EXCEPT ![o] = @ + d]
  <2>1. /\ Claims = [p \in Orders |-> Claims[p]]
        /\ Claims' = [p \in Orders |-> Claims'[p]]
    BY ClaimsType, ClaimsTypeNext
  <2> QED BY <1>1, <2>1
<1>3. CASE d <= 0 /\ held' = held
  <2>1. ASSUME NEW p \in Orders PROVE Claims'[p] <= Claims[p]
    <3>1. Claims[p] \in Nat
      BY ClaimsType
    <3> QED BY <1>1, <1>3, <3>1
  <2>2. Account!Forfeit
    BY <1>3, <2>1, ClaimsTypeNext DEF Account!Forfeit
  <2> QED BY <2>2 DEF Account!Next
<1>4. CASE d = -1 /\ \E n \in 0 .. Charge : held' = [held EXCEPT ![o] = @ - n]
  <2>1. Claims[o] > 0 /\ Claims' = [Claims EXCEPT ![o] = @ - 1]
    <3>1. Claims[o] \in Nat /\ Claims'[o] \in Nat
      BY ClaimsType, ClaimsTypeNext
    <3>2. Claims[o] > 0
      BY <1>1, <1>4, <3>1
    <3>3. Claims[o] + d = Claims[o] - 1
      BY <1>4, <3>1
    <3> QED BY <1>2, <3>2, <3>3
  <2>2. Account!Pay(o)
    BY <1>4, <2>1 DEF Account!Pay
  <2> QED BY <2>2 DEF Account!Next
<1>5. CASE d \in {0, 1} /\ held' = [held EXCEPT ![o] = @ + Charge]
  <2>1. Account!Recharge(o)
    BY <1>2, <1>5 DEF Account!Recharge
  <2> QED BY <2>1 DEF Account!Next
<1> QED BY <1>3, <1>4, <1>5

\* What Goto makes of a claim.
LEMMA GotoHold ==
  ASSUME TypeOK, NEW o \in Orders, NEW w \in Workers, NEW pc \in PCs, Goto(o, w, pc)
  PROVE  Hold(task'[o][w]) = IF \/ pc \in {"credit", "reset"}
                                \/ pc = "complete" /\ task[o][w].saw.refunded
                             THEN 1 ELSE 0
<1>1. LET t == [task[o][w] EXCEPT !.pc = pc]
      IN  t.pc = pc /\ t.saw = task[o][w].saw
  BY TaskType DEF Tasks
<1> QED BY <1>1, GotoType DEF Hold, IsClaim

\* A step that moves no money and gives its task no claim.
LEMMA QuietMove ==
  ASSUME NEW o \in Orders, NEW w \in Workers,
         \A p \in Orders : p # o => order'[p] = order[p],
         order'[o].refunded = order[o].refunded,
         \A p \in Orders, v \in Workers :
           ~(p = o /\ v = w) => task'[p][v] = task[p][v],
         ~IsClaim(task'[o][w]),
         held' = held
  PROVE  Account!Next
<1> DEFINE d == (Hold(task'[o][w]) - Hold(task[o][w])) + (Open(order'[o]) - Open(order[o]))
<1>1. d <= 0
  BY DEF Hold, Open
<1> HIDE DEF d
<1>2. d = (Hold(task'[o][w]) - Hold(task[o][w])) + (Open(order'[o]) - Open(order[o]))
  BY DEF d
<1> QED BY <1>1, <1>2, AccountMove

\* Writing anything but the flag.
LEMMA QuietWrite ==
  ASSUME TypeOK, NEW o \in Orders,
         \/ order' = order
         \/ \E doc \in Docs : doc.refunded = order[o].refunded /\ Write(o, doc)
  PROVE  /\ \A p \in Orders : p # o => order'[p] = order[p]
         /\ order'[o].refunded = order[o].refunded
BY WriteType

LEMMA UpdateKeepsFlag ==
  ASSUME NEW doc \in Docs
  PROVE  /\ \A st : [doc EXCEPT !.status = st].refunded = doc.refunded
         /\ \A b, c : [doc EXCEPT !.hasId = b, !.lookup = c].refunded = doc.refunded
         /\ \A n, st : [doc EXCEPT !.retry = n, !.status = st].refunded = doc.refunded
BY DEF Docs

LEMMA PlacedKeepsFlag ==
  ASSUME NEW k, NEW doc \in Docs, NEW saw \in Docs, NEW r \in Replies
  PROVE  Placed(k, doc, saw, r).refunded = doc.refunded
BY DEF Placed, Docs

LEMMA PolledKeepsFlag ==
  ASSUME NEW doc \in Docs, NEW saw \in Docs, NEW r \in Replies
  PROVE  Polled(doc, saw, r).refunded = doc.refunded
<1> DEFINE told == [doc EXCEPT !.lookup = FALSE]
           counted == [told EXCEPT !.retry = saw.retry + 1]
<1>1. told \in Docs /\ told.refunded = doc.refunded
  BY DEF Docs
<1>2. \E st : Polled(doc, saw, r) \in
        {counted, [told EXCEPT !.status = st], [counted EXCEPT !.status = st]}
  BY DEF Polled
<1> HIDE DEF told
<1> QED BY <1>1, <1>2 DEF Docs

\* Going anywhere but to a claim.
LEMMA QuietGoto ==
  ASSUME TypeOK, NEW o \in Orders, NEW w \in Workers,
         \/ Finish(o, w)
         \/ \E pc \in PCs \ {"credit", "reset", "complete"} : Goto(o, w, pc)
         \/ \E t \in Tasks : ~IsClaim(t) /\ Become(o, w, t)
  PROVE  /\ \A p \in Orders, v \in Workers :
              ~(p = o /\ v = w) => task'[p][v] = task[p][v]
         /\ ~IsClaim(task'[o][w])
<1>1. CASE Finish(o, w)
  BY <1>1, FinishType, RestType
<1>2. CASE \E pc \in PCs \ {"credit", "reset", "complete"} : Goto(o, w, pc)
  <2>1. PICK pc \in PCs \ {"credit", "reset", "complete"} : Goto(o, w, pc)
    BY <1>2
  <2>2. Hold(task'[o][w]) = 0
    BY <2>1, GotoHold
  <2>3. ~IsClaim(task'[o][w])
    BY <2>2 DEF Hold
  <2> QED BY <2>1, <2>3, GotoType
<1>3. CASE \E t \in Tasks : ~IsClaim(t) /\ Become(o, w, t)
  BY <1>3, BecomeType
<1> QED BY <1>1, <1>2, <1>3

-----------------------------------------------------------------------------
(* Every step is a step of the account *)

LEMMA ExecuteIsQuiet ==
  ASSUME TypeOK, NEW o \in Orders, Execute(o)
  PROVE  Account!Next
<1> USE TaskType, WorkerTypes
<1> DEFINE t == task[o]["exec"]
<1>1. \/ order' = order
      \/ \E doc \in Docs : doc.refunded = order[o].refunded /\ Write(o, doc)
  <2>1. \A st \in Statuses : /\ [order[o] EXCEPT !.status = st] \in Docs
                             /\ [order[o] EXCEPT !.status = st].refunded = order[o].refunded
    BY DocUpdate, UpdateKeepsFlag
  <2>2. /\ Placed(kind[o], order[o], t.saw, t.reply) \in Docs
        /\ Placed(kind[o], order[o], t.saw, t.reply).refunded = order[o].refunded
    BY PlacedType, PlacedKeepsFlag
  <2>3. \/ order' = order
        \/ \E st \in Statuses : Write(o, [order[o] EXCEPT !.status = st])
        \/ Write(o, Placed(kind[o], order[o], t.saw, t.reply))
    BY DEF Execute, ExecClaim, ExecUnresolved, ExecPlace, ExecRecord, ExecReturn,
           ExecCrashGuard
  <2> QED BY <2>1, <2>2, <2>3
<1>2. \/ Finish(o, "exec")
      \/ \E pc \in PCs \ {"credit", "reset", "complete"} : Goto(o, "exec", pc)
      \/ \E u \in Tasks : ~IsClaim(u) /\ Become(o, "exec", u)
  <2>1. CASE ExecClaim(o)
    <3>1. /\ [At("place") EXCEPT !.saw = order[o]] \in Tasks
          /\ [At("place") EXCEPT !.saw = order[o]].pc = "place"
      BY AtType DEF At, Tasks, PCs
    <3> QED BY <2>1, <3>1 DEF ExecClaim, IsClaim
  <2>2. CASE ExecPlace(o)
    <3>1. PICK s \in SaleAfterPlacement(kind[o]) : \E r \in PlaceReplies(kind[o], s) :
            Become(o, "exec", [t EXCEPT !.pc = "placed", !.reply = r])
      BY <2>2 DEF ExecPlace
    <3>r. PICK r \in PlaceReplies(kind[o], s) :
            Become(o, "exec", [t EXCEPT !.pc = "placed", !.reply = r])
      BY <3>1
    <3>2. r \in Replies
      BY PlaceRepliesType DEF SaleAfterPlacement, Sales, Ended
    <3>3. /\ [t EXCEPT !.pc = "placed", !.reply = r] \in Tasks
          /\ [t EXCEPT !.pc = "placed", !.reply = r].pc = "placed"
      BY <3>2 DEF Tasks, PCs
    <3> QED BY <3>r, <3>3 DEF IsClaim
  <2>3. CASE ExecCrashGuard(o)
    <3>1. At("refund") \in Tasks /\ ~IsClaim(At("refund"))
      BY AtType DEF At, PCs, IsClaim
    <3> QED BY <2>3, <3>1 DEF ExecCrashGuard
  <2>4. CASE ExecUnresolved(o) \/ ExecRecord(o) \/ ExecReturn(o)
    BY <2>4 DEF ExecUnresolved, ExecRecord, ExecReturn, PCs
  <2> QED BY <2>1, <2>2, <2>3, <2>4 DEF Execute
<1>3. held' = held
  BY DEF Execute, ExecClaim, ExecUnresolved, ExecPlace, ExecRecord, ExecReturn,
         ExecCrashGuard
<1> HIDE DEF t
<1> QED BY <1>1, <1>2, <1>3, QuietWrite, QuietGoto, QuietMove

LEMMA PollIsQuiet ==
  ASSUME TypeOK, NEW o \in Orders, NEW p \in Pollers, Poll(o, p)
  PROVE  Account!Next
<1> USE TaskType, WorkerTypes
<1> DEFINE t == task[o][p]
<1>1. \/ order' = order
      \/ \E doc \in Docs : doc.refunded = order[o].refunded /\ Write(o, doc)
  <2>1. CASE PollXenaMissing(o, p)
    BY <2>1, DocUpdate, UpdateKeepsFlag DEF PollXenaMissing
  <2>2. CASE PollLookup(o, p)
    <3> DEFINE found == [order[o] EXCEPT !.hasId = TRUE, !.lookup = FALSE]
               retry == t.saw.retry + 1
               st == IF retry >= MaxRetry THEN "MANUAL_REVIEW" ELSE order[o].status
               counted == [order[o] EXCEPT !.retry = retry, !.status = st]
    <3>1. Write(o, found) \/ Write(o, counted)
      BY <2>2 DEF PollLookup
    <3>2. found \in Docs /\ found.refunded = order[o].refunded
      BY DEF Docs
    <3>3. retry \in Nat /\ st \in Statuses
      BY DEF Docs
    <3> HIDE DEF retry, st
    <3>4. counted \in Docs /\ counted.refunded = order[o].refunded
      BY <3>3 DEF Docs
    <3> QED BY <3>1, <3>2, <3>4
  <2>3. CASE PollCheck(o, p) \/ PollSkip(o, p)
    BY <2>3 DEF PollCheck, PollSkip
  <2>4. CASE PollApply(o, p)
    BY <2>4, PolledType, PolledKeepsFlag DEF PollApply
  <2> QED BY <2>1, <2>2, <2>3, <2>4 DEF Poll, PollAsk
<1>2. \/ Finish(o, p)
      \/ \E pc \in PCs \ {"credit", "reset", "complete"} : Goto(o, p, pc)
      \/ \E u \in Tasks : ~IsClaim(u) /\ Become(o, p, u)
  <2>1. CASE PollLookup(o, p)
    <3> DEFINE saw == [t.saw EXCEPT !.hasId = TRUE]
               u == [t EXCEPT !.saw = saw]
    <3>u. u = [t EXCEPT !.saw.hasId = TRUE]
      BY DEF Tasks
    <3>d. saw \in Docs
      BY DEF Docs
    <3> HIDE DEF saw
    <3>1. u.pc = t.pc
      BY DEF Tasks
    <3>2. u \in Tasks
      BY <3>d DEF Tasks
    <3>3. t.pc = "check"
      BY <2>1 DEF PollLookup, PC
    <3>4. Finish(o, p) \/ Become(o, p, u)
      BY <2>1, <3>u DEF PollLookup
    <3> HIDE DEF u
    <3> QED BY <3>1, <3>2, <3>3, <3>4 DEF IsClaim
  <2>2. CASE PollCheck(o, p)
    <3>1. PICK r \in CheckReplies(sale[o]) :
            Become(o, p, [t EXCEPT !.pc = "apply", !.reply = r])
      BY <2>2 DEF PollCheck
    <3>2. r \in Replies
      BY CheckRepliesType DEF TypeOK
    <3>3. /\ [t EXCEPT !.pc = "apply", !.reply = r] \in Tasks
          /\ [t EXCEPT !.pc = "apply", !.reply = r].pc = "apply"
      BY <3>2 DEF Tasks, PCs
    <3> QED BY <3>1, <3>3 DEF IsClaim
  <2>3. CASE PollApply(o, p)
    BY <2>3 DEF PollApply, PCs
  <2>4. CASE PollXenaMissing(o, p) \/ PollSkip(o, p)
    BY <2>4 DEF PollXenaMissing, PollSkip
  <2> QED BY <2>1, <2>2, <2>3, <2>4 DEF Poll, PollAsk
<1>3. held' = held
  BY DEF Poll, PollAsk, PollXenaMissing, PollLookup, PollCheck, PollSkip,
         PollApply
<1> HIDE DEF t
<1> QED BY <1>1, <1>2, <1>3, QuietWrite, QuietGoto, QuietMove

\* Any number of tasks moves, and none to a claim.
LEMMA NoNewClaims ==
  ASSUME order' = order, held' = held,
         \A p \in Orders, v \in Workers : IsClaim(task'[p][v]) => IsClaim(task[p][v])
  PROVE  Account!Next
<1>1. ASSUME NEW p \in Orders PROVE Claims'[p] <= Claims[p]
  <2>1. Claimants(p)' \subseteq Claimants(p)
    BY DEF Claimants, IsClaim
  <2>2. /\ Cardinality(Claimants(p)') <= Cardinality(Claimants(p))
        /\ Cardinality(Claimants(p)') \in Nat
    BY <2>1, ClaimantsFinite, FS_Subset, FS_CardinalityType
  <2> QED BY <2>2, ClaimsType, ClaimsTypeNext, ClaimantsFinite DEF Open
<1> QED BY <1>1, ClaimsTypeNext DEF Account!Next, Account!Forfeit

LEMMA PollStartIsQuiet ==
  ASSUME TypeOK, NEW p \in Pollers, PollStart(p)
  PROVE  Account!Next
<1> DEFINE job(o) == [At("check") EXCEPT !.saw = order[o]]
<1>1. \A o \in Orders : ~IsClaim(job(o))
  BY DEF At, IsClaim
<1>2. PICK S : task' = [o \in Orders |-> IF o \notin S THEN task[o]
                          ELSE [task[o] EXCEPT ![p] = job(o)]]
  BY DEF PollStart
<1>3. ASSUME NEW q \in Orders, NEW v \in Workers
      PROVE  IsClaim(task'[q][v]) => IsClaim(task[q][v])
  <2>1. task[q] = [u \in Workers |-> task[q][u]]
    BY DEF TypeOK
  <2> HIDE DEF job
  <2>2. task'[q][v] \in {task[q][v], job(q)}
    BY <1>2, <2>1
  <2> QED BY <1>1, <2>2
<1>4. order' = order /\ held' = held
  BY DEF PollStart
<1> QED BY <1>3, <1>4, NoNewClaims

LEMMA RefundIsPaid ==
  ASSUME TypeOK, LostAcks = FALSE, NEW o \in Orders, NEW w \in Workers, Refund(o, w)
  PROVE  Account!Next
<1> USE TaskType
<1> DEFINE t == task[o][w]
           Raised == [order[o] EXCEPT !.refunded = TRUE]
           Cleared == [order[o] EXCEPT !.refunded = FALSE]
<1>d. /\ Raised \in Docs /\ Raised.refunded = TRUE
      /\ Cleared \in Docs /\ Cleared.refunded = FALSE
      /\ order[o].refunded \in BOOLEAN
  BY DEF Docs
<1>c. Charge \in 0 .. Charge
  BY ChargeAssumption
<1>1. CASE RefundClaim(o, w)
  <2>1. CASE /\ order' = order
             /\ \E pc \in {"unconfirmed", "rollback"} : NotRefunded(o, w, pc)
    <3>1. held' = held
      BY <1>1 DEF RefundClaim
    <3> QED BY <2>1, <3>1, ReturnType, QuietMove
  <2>2. CASE ~order[o].refunded /\ Goto(o, w, "credit") /\ Write(o, Raised)
    <3>1. held' = held /\ Goto(o, w, "credit") /\ Write(o, Raised) /\ t.pc = "refund"
      BY <1>1, <2>2 DEF RefundClaim, PC
    <3>2. Hold(task'[o][w]) = 1 /\ Hold(t) = 0
      BY <3>1, GotoHold DEF PCs, Hold, IsClaim
    <3>3. Open(order'[o]) = 0 /\ Open(order[o]) = 1
      BY <1>d, <2>2, <3>1, WriteType DEF Open
    <3>4. 0 = (Hold(task'[o][w]) - Hold(t)) + (Open(order'[o]) - Open(order[o]))
      BY <3>2, <3>3
    <3>5. "credit" \in PCs
      BY DEF PCs
    <3>6. \A p \in Orders : p # o => order'[p] = order[p]
      BY <1>d, <3>1, WriteType
    <3>7. \A p \in Orders, v \in Workers : ~(p = o /\ v = w) => task'[p][v] = task[p][v]
      BY <3>1, <3>5, GotoType
    <3> QED BY <3>1, <3>4, <3>6, <3>7, AccountMove
  <2> QED BY <1>1, <2>1, <2>2 DEF RefundClaim
<1>2. CASE RefundCredit(o, w)
  <2>1. t.pc = "credit" /\ Return(o, w) /\ order' = order
    BY <1>2 DEF RefundCredit, PC
  <2>2. Hold(t) = 1 /\ Hold(task'[o][w]) = 0
    BY <2>1, ReturnType DEF Hold, IsClaim
  <2>3. -1 = (Hold(task'[o][w]) - Hold(t)) + (Open(order'[o]) - Open(order[o]))
    BY <2>1, <2>2 DEF Open
  <2>4. \E n \in 0 .. Charge : held' = [held EXCEPT ![o] = @ - n]
    BY <1>2, <1>c DEF RefundCredit
  <2> QED BY <2>1, <2>3, <2>4, ReturnType, AccountMove
<1>3. CASE RefundCreditFails(o, w)
  <2>1. t.pc = "credit" /\ Goto(o, w, "reset") /\ order' = order /\ held' = held
    BY <1>3 DEF RefundCreditFails, PC
  <2>2. Hold(t) = 1 /\ Hold(task'[o][w]) = 1
    BY <2>1, GotoHold DEF Hold, IsClaim, PCs
  <2>3. 0 = (Hold(task'[o][w]) - Hold(t)) + (Open(order'[o]) - Open(order[o]))
    BY <2>1, <2>2 DEF Open
  <2>4. \A p \in Orders, v \in Workers : ~(p = o /\ v = w) => task'[p][v] = task[p][v]
    BY <2>1, GotoType DEF PCs
  <2> QED BY <2>1, <2>3, <2>4, AccountMove
<1>4. CASE RefundReset(o, w)
  <2>1. t.pc = "reset" /\ NotRefunded(o, w, "rollback") /\ held' = held
    BY <1>4 DEF RefundReset, PC
  <2>2. Hold(t) = 1 /\ Hold(task'[o][w]) = 0
    BY <2>1, ReturnType DEF Hold, IsClaim
  <2>3. /\ Open(order'[o]) - Open(order[o]) \in {0, 1}
        /\ \A p \in Orders : p # o => order'[p] = order[p]
    <3>1. CASE Write(o, Cleared)
      <4>1. order'[o] = Cleared /\ \A p \in Orders : p # o => order'[p] = order[p]
        BY <1>d, <3>1, WriteType
      <4> QED BY <1>d, <4>1 DEF Open
    <3>2. CASE order' = order
      BY <3>2 DEF Open
    <3> QED BY <1>4, <3>1, <3>2 DEF RefundReset
  <2> DEFINE d == (Hold(task'[o][w]) - Hold(t)) + (Open(order'[o]) - Open(order[o]))
  <2>4. d <= 0
    BY <2>2, <2>3
  <2>5. d = (Hold(task'[o][w]) - Hold(t)) + (Open(order'[o]) - Open(order[o]))
    BY DEF d
  <2> HIDE DEF d
  <2> QED BY <2>1, <2>3, <2>4, <2>5, ReturnType, AccountMove
<1>5. CASE ProcessOrderRefund(o, w)
  <2> DEFINE amount == RefundAmount(t.reply.remains)
  <2>1. t.pc = "partial" /\ Finish(o, w)
    BY <1>5 DEF ProcessOrderRefund, PC
  <2>2. Hold(t) = 0 /\ Hold(task'[o][w]) = 0 /\ ~IsClaim(task'[o][w])
    BY <2>1, FinishType, RestType DEF Hold, IsClaim
  <2>3. CASE ~order[o].refunded /\ Write(o, Raised) /\ held' = [held EXCEPT ![o] = @ - amount]
    <3>1. Open(order'[o]) = 0 /\ Open(order[o]) = 1
      BY <1>d, <2>3, WriteType DEF Open
    <3>2. -1 = (Hold(task'[o][w]) - Hold(t)) + (Open(order'[o]) - Open(order[o]))
      BY <2>2, <3>1
    <3>3. amount \in 0 .. Charge
      BY RefundAmountType DEF Replies
    <3>4. \A p \in Orders : p # o => order'[p] = order[p]
      BY <1>d, <2>3, WriteType
    <3> HIDE DEF amount
    <3>5. \E n \in 0 .. Charge : held' = [held EXCEPT ![o] = @ - n]
      BY <2>3, <3>3
    <3> QED BY <2>1, <3>2, <3>4, <3>5, FinishType, AccountMove
  <2>4. CASE order' = order /\ held' = held
    BY <2>1, <2>2, <2>4, FinishType, QuietMove
  <2> QED BY <1>5, <2>3, <2>4 DEF ProcessOrderRefund
<1> QED BY <1>1, <1>2, <1>3, <1>4, <1>5 DEF Refund

LEMMA AdministerIsPaid ==
  ASSUME TypeOK, NEW o \in Orders, NEW a \in Admins, Administer(o, a)
  PROVE  Account!Next
<1>w. a \in Workers
  BY WorkerTypes
<1> USE TaskType, <1>w
<1> DEFINE t == task[o][a]
<1>s. \A st \in Statuses : /\ [order[o] EXCEPT !.status = st] \in Docs
                           /\ [order[o] EXCEPT !.status = st].refunded = order[o].refunded
  BY DocUpdate, UpdateKeepsFlag
<1>1. CASE FailOrder(o, a) \/ RefundOrder(o, a)
  <2> DEFINE failed == [order[o] EXCEPT !.status = "FAILED", !.refunded = TRUE]
  <2>1. /\ ~order[o].refunded /\ Write(o, failed)
        /\ held' = [held EXCEPT ![o] = @ - Charge] /\ task' = task
    BY <1>1 DEF FailOrder, RefundOrder, MarkOrderAsFailed
  <2>2. failed \in Docs /\ failed.refunded = TRUE
    BY DEF Docs
  <2> HIDE DEF failed
  <2>3. Open(order'[o]) = 0 /\ Open(order[o]) = 1
    BY <2>1, <2>2, WriteType DEF Open
  <2>4. -1 = (Hold(task'[o][a]) - Hold(t)) + (Open(order'[o]) - Open(order[o]))
    BY <2>1, <2>3 DEF Hold
  <2>5. \E n \in 0 .. Charge : held' = [held EXCEPT ![o] = @ - n]
    <3>1. Charge \in 0 .. Charge
      BY ChargeAssumption
    <3> QED BY <2>1, <3>1
  <2> QED BY <2>1, <2>2, <2>4, <2>5, WriteType, AccountMove
<1>2. CASE SyncRead(o, a) \/ CompleteRead(o, a)
  <2>0. order' = order /\ held' = held
    BY <1>2 DEF SyncRead, CompleteRead
  <2>1. PICK pc \in {"syncCheck", "redebit", "complete"} :
          /\ Become(o, a, [At(pc) EXCEPT !.saw = order[o]])
          /\ pc = "complete" => ~order[o].refunded
    <3>1. CASE SyncRead(o, a)
      BY <3>1 DEF SyncRead
    <3>2. CASE CompleteRead(o, a) /\ WasRefunded(order[o])
      BY <3>2 DEF CompleteRead
    <3>3. CASE CompleteRead(o, a) /\ ~WasRefunded(order[o])
      <4>1. ~order[o].refunded
        BY <3>3 DEF WasRefunded
      <4> QED BY <3>3, <4>1 DEF CompleteRead
    <3> QED BY <1>2, <3>1, <3>2, <3>3
  <2> DEFINE u == [At(pc) EXCEPT !.saw = order[o]]
  <2>2. u \in Tasks /\ u.pc = pc /\ u.saw = order[o]
    BY AtType DEF At, Tasks, PCs
  <2>3. ~IsClaim(u)
    BY <2>1, <2>2 DEF IsClaim
  <2> HIDE DEF u
  <2>4. Become(o, a, u)
    BY <2>1 DEF u
  <2> QED BY <2>0, <2>2, <2>3, <2>4, QuietGoto, QuietMove
<1>3. CASE SyncCheck(o, a)
  <2>1. ASSUME NEW r \in CheckReplies(sale[o]),
               Become(o, a, [t EXCEPT !.pc = "syncSave", !.reply = r])
        PROVE  \E u \in Tasks : ~IsClaim(u) /\ Become(o, a, u)
    <3>1. r \in Replies
      BY CheckRepliesType DEF TypeOK
    <3>2. /\ [t EXCEPT !.pc = "syncSave", !.reply = r] \in Tasks
          /\ [t EXCEPT !.pc = "syncSave", !.reply = r].pc = "syncSave"
      BY <3>1 DEF Tasks, PCs
    <3> QED BY <2>1, <3>2 DEF IsClaim
  <2>2. Finish(o, a) \/ \E u \in Tasks : ~IsClaim(u) /\ Become(o, a, u)
    BY <1>3, <2>1 DEF SyncCheck
  <2>3. order' = order /\ held' = held
    BY <1>3 DEF SyncCheck
  <2> QED BY <2>2, <2>3, QuietGoto, QuietMove
<1>4. CASE SyncSave(o, a)
  <2>1. SyncStatus(t.reply) \in Statuses
    BY DEF SyncStatus
  <2>2. \/ order' = order
        \/ \E doc \in Docs : doc.refunded = order[o].refunded /\ Write(o, doc)
    BY <1>4, <1>s, <2>1 DEF SyncSave
  <2>3. \/ Finish(o, a)
        \/ \E pc \in PCs \ {"credit", "reset", "complete"} : Goto(o, a, pc)
    BY <1>4 DEF SyncSave, PCs
  <2>4. held' = held
    BY <1>4 DEF SyncSave
  <2> QED BY <2>2, <2>3, <2>4, QuietWrite, QuietGoto, QuietMove
<1>5. CASE CompleteDebit(o, a)
  <2>1. t.pc = "redebit" /\ order' = order /\ Hold(t) = 0
    BY <1>5 DEF CompleteDebit, Serve, PC, Hold, IsClaim
  <2>2. CASE Finish(o, a) /\ held' = held
    BY <2>1, <2>2, QuietGoto, QuietMove
  <2>3. CASE Goto(o, a, "complete") /\ held' = [held EXCEPT ![o] = @ + Charge]
    <3> DEFINE d == (Hold(task'[o][a]) - Hold(t)) + (Open(order'[o]) - Open(order[o]))
    <3>1. Hold(task'[o][a]) \in {0, 1}
      BY DEF Hold
    <3>2. d \in {0, 1}
      BY <2>1, <3>1 DEF Open
    <3>3. \A p \in Orders, v \in Workers : ~(p = o /\ v = a) => task'[p][v] = task[p][v]
      BY <2>3, GotoType DEF PCs
    <3>4. d = (Hold(task'[o][a]) - Hold(t)) + (Open(order'[o]) - Open(order[o]))
      BY DEF d
    <3> HIDE DEF d
    <3> QED BY <2>1, <2>3, <3>2, <3>3, <3>4, AccountMove
  <2> QED BY <1>5, <2>2, <2>3 DEF CompleteDebit
<1>6. CASE CompleteSave(o, a)
  <2> DEFINE done == [order[o] EXCEPT !.status = "COMPLETED",
                                      !.refunded = @ /\ ~t.saw.refunded]
             d == (Hold(task'[o][a]) - Hold(t)) + (Open(order'[o]) - Open(order[o]))
  <2>1. done \in Docs /\ done.refunded = (order[o].refunded /\ ~t.saw.refunded)
    BY DEF Docs
  <2>2. t.pc = "complete" /\ Finish(o, a) /\ held' = held /\ (Write(o, done) \/ order' = order)
    BY <1>6 DEF CompleteSave, Serve, PC
  <2> HIDE DEF done
  <2>3. /\ Hold(t) = IF t.saw.refunded THEN 1 ELSE 0
        /\ Hold(task'[o][a]) = 0
    BY <2>2, FinishType, RestType DEF Hold, IsClaim
  <2>4. /\ \A p \in Orders : p # o => order'[p] = order[p]
        /\ order'[o].refunded \in {order[o].refunded, order[o].refunded /\ ~t.saw.refunded}
    BY <2>1, <2>2, WriteType
  <2>5. Open(order'[o]) - Open(order[o]) <= IF t.saw.refunded THEN 1 ELSE 0
    <3>1. order[o].refunded \in BOOLEAN /\ t.saw.refunded \in BOOLEAN
      BY DEF Docs
    <3>2. CASE t.saw.refunded
      BY <3>2 DEF Open
    <3>3. CASE ~t.saw.refunded
      <4>1. order'[o].refunded = order[o].refunded
        BY <2>4, <3>1, <3>3
      <4> QED BY <3>3, <4>1 DEF Open
    <3> QED BY <3>2, <3>3
  <2>6. d <= 0
    <3>1. Open(order'[o]) \in Int /\ Open(order[o]) \in Int
      BY DEF Open
    <3> QED BY <2>3, <2>5, <3>1
  <2>7. d = (Hold(task'[o][a]) - Hold(t)) + (Open(order'[o]) - Open(order[o]))
    BY DEF d
  <2> HIDE DEF d
  <2> QED BY <2>2, <2>4, <2>6, <2>7, FinishType, AccountMove
<1>7. CASE MarkCompletedRead(o, a)
  <2>1. order' = order /\ held' = held /\ Goto(o, a, "deliver")
    BY <1>7 DEF MarkCompletedRead
  <2> QED BY <2>1, QuietGoto, QuietMove DEF PCs
<1>8. CASE MarkCompletedSave(o, a)
  <2>1. held' = held /\ Finish(o, a) /\ Write(o, [order[o] EXCEPT !.status = "COMPLETED"])
    BY <1>8 DEF MarkCompletedSave
  <2> QED BY <2>1, <1>s, QuietWrite, QuietGoto, QuietMove
<1>9. CASE ResolveDelivered(o, a)
  <2>1. /\ Write(o, [order[o] EXCEPT !.status = "COMPLETED"])
        /\ held' = held /\ task' = task /\ t.pc = "idle"
    BY <1>9 DEF ResolveDelivered, Request, PC
  <2>2. ~IsClaim(task'[o][a])
    BY <2>1 DEF IsClaim
  <2>3. \A p \in Orders, v \in Workers : ~(p = o /\ v = a) => task'[p][v] = task[p][v]
    BY <2>1
  <2> QED BY <2>1, <2>2, <2>3, <1>s, QuietWrite, QuietMove
<1>10. CASE ResolveRefund(o, a)
  <2>1. held' = held /\ Goto(o, a, "refund") /\ Write(o, [order[o] EXCEPT !.status = "FAILED"])
    BY <1>10 DEF ResolveRefund
  <2> QED BY <2>1, <1>s, QuietWrite, QuietGoto, QuietMove DEF PCs
<1>11. CASE Rollback(o, a)
  <2>1. \/ order' = order
        \/ \E doc \in Docs : doc.refunded = order[o].refunded /\ Write(o, doc)
    BY <1>11, <1>s DEF Rollback
  <2>2. \/ Finish(o, a)
        \/ \E pc \in PCs \ {"credit", "reset", "complete"} : Goto(o, a, pc)
    BY <1>11 DEF Rollback, PCs
  <2>3. held' = held
    BY <1>11 DEF Rollback
  <2> QED BY <2>1, <2>2, <2>3, QuietWrite, QuietGoto, QuietMove
<1> QED BY <1>1, <1>2, <1>3, <1>4, <1>5, <1>6, <1>7, <1>8, <1>9, <1>10, <1>11
        DEF Administer

-----------------------------------------------------------------------------
(* The fulfilment implements the accounts *)

LEMMA InitImplements == Init => Account!Init
<1> SUFFICES ASSUME Init PROVE Account!Init
  OBVIOUS
<1>1. ASSUME NEW o \in Orders PROVE Claims[o] = 1
  <2>1. \A w \in Workers : ~IsClaim(task[o][w])
    BY RestType DEF Init, At, IsClaim
  <2>2. Claimants(o) = {}
    BY <2>1 DEF Claimants
  <2>3. ~order[o].refunded
    BY DEF Init, NewDoc
  <2>4. Cardinality(Claimants(o)) = 0 /\ Open(order[o]) = 1
    BY <2>2, <2>3, FS_EmptySet DEF Open
  <2>5. Claims[o] = Cardinality(Claimants(o)) + Open(order[o])
    BY ClaimsType
  <2> QED BY <2>4, <2>5
<1>2. Claims = [o \in Orders |-> Claims[o]]
  BY DEF Claims
<1>3. Claims = [o \in Orders |-> 1]
  BY <1>1, <1>2
<1> QED BY <1>3 DEF Init, Account!Init

LEMMA NextImplements ==
  ASSUME TypeOK, LostAcks = FALSE, [Next]_vars
  PROVE  [Account!Next]_Account!vars
<1>1. CASE \E o \in Orders : Execute(o)
  BY <1>1, ExecuteIsQuiet
<1>2. CASE \E o \in Orders, p \in Pollers : Poll(o, p)
  BY <1>2, PollIsQuiet
<1>3. CASE \E o \in Orders, w \in Workers : Refund(o, w)
  BY <1>3, RefundIsPaid
<1>4. CASE \E o \in Orders, a \in Admins : Administer(o, a)
  BY <1>4, AdministerIsPaid
<1>5. CASE \E o \in Orders : SaleProgress(o)
  BY <1>5, NoNewClaims DEF SaleProgress
<1>6. CASE \E p \in Pollers : PollStart(p)
  BY <1>6, PollStartIsQuiet
<1>7. CASE \E p \in Pollers : Crash(p)
  <2>1. \A q \in Orders, v \in Workers : task'[q][v] \in {Rest(v), task[q][v]}
    BY <1>7 DEF Crash
  <2>2. \A q \in Orders, v \in Workers : IsClaim(task'[q][v]) => IsClaim(task[q][v])
    BY <2>1, RestType
  <2> QED BY <1>7, <2>2, NoNewClaims DEF Crash
<1>8. CASE UNCHANGED vars
  BY <1>8, NoNewClaims DEF vars
<1> QED BY <1>1, <1>2, <1>3, <1>4, <1>5, <1>6, <1>7, <1>8 DEF Next

\* Whatever executor, poller, administrators, crashes and database failures
\* do, in any interleaving, an order is never paid back without a claim and
\* never gets a claim without a charge, provided a commit reported as failed
\* has failed.
THEOREM FulfillmentImplementsAccount ==
  ASSUME LostAcks = FALSE
  PROVE  Spec => Account!Spec
<1>1. TypeOK /\ [Next]_vars => [Account!Next]_Account!vars
  BY NextImplements
<1> QED BY <1>1, InitImplements, TypesHold, PTL DEF Spec, Account!Spec

-----------------------------------------------------------------------------
(* What the accounts give *)

LEMMA AccountInit == Account!Init => Account!Backed
BY ChargeAssumption DEF Account!Init, Account!Backed

\* One claim more or less is one charge more or less.
LEMMA Times ==
  ASSUME NEW c \in Int
  PROVE  Charge * (c - 1) = Charge * c - Charge /\ Charge * (c + 1) = Charge * c + Charge
BY ChargeAssumption

LEMMA TimesMonotonic ==
  ASSUME NEW b \in Nat, NEW c \in Nat, b <= c
  PROVE  Charge * b <= Charge * c
BY ChargeAssumption

LEMMA AccountNext ==
  ASSUME Account!Backed, [Account!Next]_Account!vars
  PROVE  Account!Backed'
<1> USE DEF Account!Backed
<1>c. Charge \in Nat
  BY ChargeAssumption
<1>1. ASSUME NEW o \in Orders, Account!Pay(o) PROVE Account!Backed'
  <2>1. PICK n \in 0 .. Charge : held' = [held EXCEPT ![o] = @ - n]
    BY <1>1 DEF Account!Pay
  <2>2. Claims' = [Claims EXCEPT ![o] = @ - 1] /\ Claims[o] > 0
    BY <1>1 DEF Account!Pay
  <2>3. held' \in [Orders -> Int] /\ Claims' \in [Orders -> Nat]
    BY <1>c, <2>1, <2>2
  <2>4. held[o] - n >= Charge * (Claims[o] - 1)
    <3>1. /\ held[o] \in Int /\ Claims[o] \in Int /\ n \in Int /\ n <= Charge
          /\ Charge * Claims[o] \in Int /\ held[o] >= Charge * Claims[o]
      BY <1>c
    <3>2. Charge * (Claims[o] - 1) = Charge * Claims[o] - Charge
      BY <3>1, Times
    <3> QED BY <1>c, <3>1, <3>2
  <2>5. ASSUME NEW p \in Orders PROVE held'[p] >= Charge * Claims'[p]
    BY <2>1, <2>2, <2>4
  <2> QED BY <2>3, <2>5
<1>2. ASSUME NEW o \in Orders, Account!Recharge(o) PROVE Account!Backed'
  <2>1. PICK n \in {0, 1} : Claims' = [Claims EXCEPT ![o] = @ + n]
    BY <1>2 DEF Account!Recharge
  <2>2. held' = [held EXCEPT ![o] = @ + Charge]
    BY <1>2 DEF Account!Recharge
  <2>3. held' \in [Orders -> Int] /\ Claims' \in [Orders -> Nat]
    BY <1>c, <2>1, <2>2
  <2>4. held[o] + Charge >= Charge * (Claims[o] + n)
    <3>1. /\ held[o] \in Int /\ Claims[o] \in Int
          /\ Charge * Claims[o] \in Int /\ held[o] >= Charge * Claims[o]
      BY <1>c
    <3>2. Charge * (Claims[o] + 1) = Charge * Claims[o] + Charge
      BY <3>1, Times
    <3>3. CASE n = 0
      BY <1>c, <3>1, <3>3
    <3>4. CASE n = 1
      BY <1>c, <3>1, <3>2, <3>4
    <3> QED BY <3>3, <3>4
  <2>5. ASSUME NEW p \in Orders PROVE held'[p] >= Charge * Claims'[p]
    BY <2>1, <2>2, <2>4
  <2> QED BY <2>3, <2>5
<1>3. CASE Account!Forfeit
  <2>1. ASSUME NEW p \in Orders PROVE held[p] >= Charge * Claims'[p]
    <3>1. /\ Claims'[p] \in Nat /\ Claims[p] \in Nat /\ Claims'[p] <= Claims[p]
          /\ held[p] \in Int /\ held[p] >= Charge * Claims[p]
      BY <1>3 DEF Account!Forfeit
    <3>2. Charge * Claims'[p] <= Charge * Claims[p]
      BY <3>1, TimesMonotonic
    <3> QED BY <1>c, <3>1, <3>2
  <2> QED BY <1>3, <2>1 DEF Account!Forfeit
<1>4. CASE UNCHANGED Account!vars
  BY <1>4 DEF Account!vars
<1> QED BY <1>1, <1>2, <1>3, <1>4 DEF Account!Next

\* Every claim on an order is covered by a charge that is still held.
THEOREM RefundsAreBacked ==
  ASSUME LostAcks = FALSE
  PROVE  Spec => []RefundsBacked
<1>1. Account!Backed => RefundsBacked
  BY DEF Account!Backed, RefundsBacked
<1>2. Account!Backed /\ [Account!Next]_Account!vars => Account!Backed'
  BY AccountNext
<1>3. Account!Spec => []Account!Backed
  BY <1>2, AccountInit, PTL DEF Account!Spec
<1> QED BY <1>1, <1>3, FulfillmentImplementsAccount, PTL

\* No customer is given back more than was taken for the order.
THEOREM NothingIsOverRefunded ==
  ASSUME LostAcks = FALSE
  PROVE  Spec => []NeverOverRefunded
<1>1. TypeOK /\ RefundsBacked => NeverOverRefunded
  <2> SUFFICES ASSUME TypeOK, RefundsBacked, NEW o \in Orders PROVE held[o] >= 0
    BY DEF NeverOverRefunded
  <2>1. held[o] \in Int /\ Claims[o] \in Nat /\ held[o] >= Charge * Claims[o]
    BY ClaimsType DEF TypeOK, RefundsBacked
  <2>2. Charge * 0 <= Charge * Claims[o]
    BY <2>1, TimesMonotonic
  <2> QED BY <2>1, <2>2, ChargeAssumption
<1> QED BY <1>1, TypesHold, RefundsAreBacked, PTL

\* An order that still counts as not refunded has been paid for in full.
THEOREM UnrefundedOrdersArePaid ==
  ASSUME LostAcks = FALSE
  PROVE  Spec => []UnrefundedIsPaid
<1>1. TypeOK /\ RefundsBacked => UnrefundedIsPaid
  <2> SUFFICES ASSUME TypeOK, RefundsBacked, NEW o \in Orders, ~order[o].refunded
               PROVE  held[o] >= Charge
    BY DEF UnrefundedIsPaid
  <2>1. held[o] \in Int /\ Claims[o] \in Nat /\ held[o] >= Charge * Claims[o]
    BY ClaimsType DEF TypeOK, RefundsBacked
  <2>2. 1 <= Claims[o]
    BY ClaimsType, ClaimantsFinite DEF Open
  <2>3. Charge * 1 <= Charge * Claims[o]
    BY <2>1, <2>2, TimesMonotonic
  <2> QED BY <2>1, <2>3, ChargeAssumption
<1> QED BY <1>1, TypesHold, RefundsAreBacked, PTL
=============================================================================
