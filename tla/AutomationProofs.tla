------------------------- MODULE AutomationProofs -------------------------
(***************************************************************************)
(* Proofs about the automation of OrderFulfillment, the executor and the   *)
(* pollers, for every set of orders, administrators and server processes,  *)
(* every batch limit, charge, quantity, retry limit and bound.             *)
(***************************************************************************)
EXTENDS OrderFulfillmentProofs

-----------------------------------------------------------------------------
(* The rules of the automation.  k is the kind of an order, d its document,  *)
(* e and p the tasks of its executor and one poller, s the sale at the       *)
(* provider, and h what the ledger holds for the order.                      *)

\* The executor has not recorded the outcome of the placement yet.
Early(e) == e.pc \in {"start", "place", "placed"}

\* The poller is about to send a Xena order without an id to manual review.
XenaMissing(k, p) == p.pc = "check" /\ k = "xena" /\ ~p.saw.hasId

\* No order stays PROCESSING with all its checks used up.
Counted(d, e) ==
  /\ d.status = "PROCESSING" => d.retry < MaxRetry
  /\ e.pc \in {"place", "placed"} => e.saw.retry < MaxRetry

\* Before the executor has recorded the outcome nobody else takes the order up,
\* and what either of them heard of the end of the sale is true.
Automated(k, d, e, p, s) ==
  /\ e.pc \in {"start", "place", "placed", "refund", "credit", "reset", "return", "done"}
  /\ p.pc \in {"idle", "check", "apply", "partial", "refund", "credit", "reset"}
  /\ k = "manual" => d.status = "PENDING" /\ e.pc = "done" /\ p.pc = "idle"
  /\ Early(e) =>
       /\ ~d.hasId /\ ~d.lookup
       /\ d.status = "PROCESSING" \/ (k = "xena" /\ d.status = "MANUAL_REVIEW")
       /\ p.pc = "idle" \/ XenaMissing(k, p)
  /\ e.pc = "placed" /\ e.reply.st \in {"delivered", "partial"} => s = e.reply.st
  /\ p.pc = "apply" =>
       /\ p.reply.st \in Ended \cup {"unknown", "working"}
       /\ p.reply.st \in Ended => s = p.reply.st
  /\ d.status = "COMPLETED" => s \in {"delivered", "partial"}

\* A coin recharge is never polled, and only refunded when it was not sold.
CoinSold(d, e, p, s, h) ==
  /\ ~d.hasId /\ ~d.lookup /\ p.pc = "idle" /\ s \in {"none", "delivered"}
  /\ Early(e) => h = Charge
  /\ e.pc \in {"start", "place", "refund", "credit", "reset"} => s = "none"
  /\ e.pc = "placed" => e.reply.st \in {"rejected", "unknown", "delivered"} /\ ~e.reply.id
  /\ e.pc \in {"placed", "return"} /\ e.reply.st = "rejected" => s = "none"
  /\ s = "delivered" => h = Charge

\* The poller works on orders that are still being processed.
Undecided(k, d, p) ==
  k # "xena" /\ p.pc \in {"check", "apply"} => d.status = "PROCESSING"

\* The status a refund follows from.
ToRefund(k, d) == d.status = "FAILED" \/ (k = "xena" /\ d.status = "MANUAL_REVIEW")

\* The order is refunded by one of the two, once, and its status tells why.
Settling(k, d, e, p, h) ==
  /\ e.pc # "reset" /\ p.pc # "reset"
  /\ p.pc = "apply" \/ (p.pc = "check" /\ ~XenaMissing(k, p)) => d.status = "PROCESSING"
  /\ p.pc # "idle" /\ ~XenaMissing(k, p) => e.pc \in {"return", "done"}
  /\ Early(e) => ~d.refunded
  /\ ~d.refunded => h = Charge
  /\ \A t \in {e, p} : 
       /\ t.pc = "refund" => ~d.refunded /\ ToRefund(k, d)
       /\ t.pc = "credit" => d.refunded /\ h = Charge /\ ToRefund(k, d)
  /\ p.pc = "partial" => d.status = "PARTIAL" /\ ~d.refunded
  /\ XenaMissing(k, p) => d.status # "PARTIAL"
  /\ d.refunded => d.status = "PARTIAL" \/ ToRefund(k, d)
  /\ d.refunded /\ d.status = "PARTIAL" => h < Charge
  /\ d.refunded /\ d.status # "PARTIAL" => "credit" \in {e.pc, p.pc} \/ h = 0
  /\ d.status = "FAILED" /\ ~d.refunded => "refund" \in {e.pc, p.pc}

\* Each rule holds until what it does not foresee has happened: a back-office
\* request (r), a failing database operation (f), a crash (c).
Ruled(k, d, e, p, s, h, r, f, c) ==
  /\ Counted(d, e)
  /\ r = 0 =>
       /\ Automated(k, d, e, p, s)
       /\ k = "coin" => CoinSold(d, e, p, s, h)
       /\ f = 0 => Undecided(k, d, p)
       /\ f = 0 /\ c = 0 => Settling(k, d, e, p, h)

\* The poller p is the only one that has the order.
Alone(o, p) == \A q \in Pollers \ {p} : task[o][q].pc = "idle"

\* The workers of the automation.
Automata == {"exec"} \cup Pollers

\* Whoever polls: the flag is set once, before the only credit, and says where
\* the money is; and nobody pays back what is still being processed.
Money(o) ==
  /\ \A w \in Automata : task[o][w].pc # "reset"
  /\ ~order[o].refunded => held[o] = Charge
  /\ \A w \in Automata : task[o][w].pc = "credit" =>
       /\ order[o].refunded /\ held[o] = Charge
       /\ \A v \in Automata \ {w} : task[o][v].pc # "credit"
  /\ order[o].refunded => held[o] < Charge \/ \E w \in Automata : task[o][w].pc = "credit"
  /\ order[o].status = "FAILED" /\ ~order[o].refunded =>
       \E w \in Automata : task[o][w].pc = "refund"
  /\ order[o].status = "PROCESSING" =>
       /\ ~order[o].refunded
       /\ \A w \in Automata : task[o][w].pc \notin {"refund", "partial"}

\* The rules that survive a fault hold between the executor and each poller;
\* the others as long as one poller alone has had the order since its query.
Rules(o) ==
  /\ requests = 0 => \A a \in Admins : task[o][a] = Rest(a)
  /\ \A p \in Pollers :
       Ruled(kind[o], order[o], task[o]["exec"], task[o][p], sale[o], held[o],
             requests, 1, crashes)
  /\ o \notin shared =>
       \E p \in Pollers :
         /\ Alone(o, p)
         /\ Ruled(kind[o], order[o], task[o]["exec"], task[o][p], sale[o], held[o],
                  requests, faults, crashes)
  /\ requests = 0 /\ faults = 0 /\ crashes = 0 => Money(o)

\* The inductive invariant.
AInv == TypeOK /\ \A o \in Orders : Rules(o)

-----------------------------------------------------------------------------
(* Steps that leave an order alone *)

\* The counters of what has happened only grow.
Later == requests' >= requests /\ faults' >= faults /\ crashes' >= crashes

LEMMA CalmIsLater ==
  ASSUME TypeOK, Calm, Fault \/ NoFault
  PROVE  Later /\ kind' = kind /\ shared' = shared /\ requests' = requests /\ crashes' = crashes
BY DEF TypeOK, Calm, Fault, NoFault, Later

\* Nothing of the order q has changed.
Same(q) ==
  /\ kind'[q] = kind[q] /\ order'[q] = order[q] /\ sale'[q] = sale[q] /\ held'[q] = held[q]
  /\ \A w \in Workers : task'[q][w] = task[q][w]
  /\ q \in shared' <=> q \in shared

LEMMA CountersType ==
  ASSUME TypeOK
  PROVE  requests \in Nat /\ faults \in Nat /\ crashes \in Nat
BY BoundsAssumption DEF TypeOK

LEMMA SameKeepsRules ==
  ASSUME TypeOK, TypeOK', Later, NEW q \in Orders, Same(q), Rules(q)
  PROVE  Rules(q)'
<1>1. /\ requests \in Nat /\ faults \in Nat /\ crashes \in Nat
      /\ requests' \in Nat /\ faults' \in Nat /\ crashes' \in Nat
  BY CountersType, BoundsAssumption DEF TypeOK
<1>2. /\ requests' = 0 => requests = 0
      /\ faults' = 0 => faults = 0
      /\ crashes' = 0 => crashes = 0
  BY <1>1 DEF Later
<1>3. /\ \A w \in Automata : task'[q][w] = task[q][w]
      /\ \A a \in Admins : task'[q][a] = task[q][a]
      /\ "exec" \in Automata /\ Pollers \subseteq Automata
  BY WorkerTypes DEF Same, Automata
<1>4. /\ \A p \in Pollers : Alone(q, p) => Alone(q, p)'
      /\ Money(q) => Money(q)'
  BY ONLY <1>3, Same(q) DEF Alone, Money, Same
<1>5. ASSUME NEW p \in Pollers, NEW f, NEW f1, f1 = 0 => f = 0,
             Ruled(kind[q], order[q], task[q]["exec"], task[q][p], sale[q], held[q],
                   requests, f, crashes)
      PROVE  Ruled(kind[q], order[q], task[q]["exec"], task[q][p], sale[q], held[q],
                   requests', f1, crashes')
  <2> HIDE DEF Counted, Automated, CoinSold, Undecided, Settling
  <2> QED BY ONLY <1>2, <1>5 DEF Ruled
<1>6. /\ \A p \in Pollers :
           Ruled(kind[q], order[q], task[q]["exec"], task[q][p], sale[q], held[q],
                 requests', 1, crashes')
      /\ q \notin shared => \E p \in Pollers :
           /\ Alone(q, p)
           /\ Ruled(kind[q], order[q], task[q]["exec"], task[q][p], sale[q], held[q],
                    requests', faults', crashes')
  BY ONLY <1>2, <1>5, Rules(q) DEF Rules
<1> HIDE DEF Ruled, Alone, Money
<1> QED BY ONLY <1>2, <1>3, <1>4, <1>6, Rules(q), Same(q) DEF Rules, Same

-----------------------------------------------------------------------------
(* The executor *)

\* A step of the executor of an order leaves the other orders alone.
LEMMA ExecuteElsewhere ==
  ASSUME TypeOK, NEW o \in Orders, Execute(o)
  PROVE  Later /\ \A q \in Orders \ {o} : Same(q)
<1> USE WorkerTypes DEF Same, Become, Goto, Finish, Write, TypeOK
<1>0. Later /\ kind' = kind /\ shared' = shared
  BY CalmIsLater DEF Execute, ExecClaim, ExecUnresolved, ExecPlace, ExecRecord, ExecReturn,
                     ExecCrashGuard
<1>1. CASE ExecClaim(o)
  BY <1>0, <1>1 DEF ExecClaim
<1>2. CASE ExecUnresolved(o)
  BY <1>0, <1>2 DEF ExecUnresolved
<1>3. CASE ExecPlace(o)
  BY <1>0, <1>3 DEF ExecPlace
<1>4. CASE ExecRecord(o)
  BY <1>0, <1>4 DEF ExecRecord
<1>5. CASE ExecReturn(o)
  BY <1>0, <1>5 DEF ExecReturn
<1>6. CASE ExecCrashGuard(o)
  BY <1>0, <1>6 DEF ExecCrashGuard
<1> QED BY <1>1, <1>2, <1>3, <1>4, <1>5, <1>6 DEF Execute

\* What a step of the executor decides, on the values alone.
Lawful(k, d, e, p, s, h, r, f, c) ==
  /\ k \in Kinds /\ d \in Docs /\ e \in Tasks /\ p \in Tasks /\ s \in Sales /\ h \in Int
  /\ r \in Nat /\ f \in Nat /\ c \in Nat
  /\ Ruled(k, d, e, p, s, h, r, f, c)

LEMMA ClaimRules ==
  ASSUME NEW k, NEW d, NEW e, NEW p, NEW s, NEW h, NEW r, NEW f, NEW c,
         Lawful(k, d, e, p, s, h, r, f, c),
         e.pc = "start", d.status = "PROCESSING",
         NEW e1 \in Tasks, e1.pc = "place", e1.saw = d
  PROVE  Ruled(k, d, e1, p, s, h, r, f, c)
BY DEF Lawful, Ruled, Counted, Automated, CoinSold, Undecided, Settling, Early, XenaMissing,
       ToRefund

LEMMA DoneRules ==
  ASSUME NEW k, NEW d, NEW e, NEW p, NEW s, NEW h, NEW r, NEW f, NEW c,
         Lawful(k, d, e, p, s, h, r, f, c),
         e.pc \in {"start", "return"}
  PROVE  Ruled(k, d, Rest("exec"), p, s, h, r, f, c)
BY DEF Lawful, Ruled, Counted, Automated, CoinSold, Undecided, Settling, Early, XenaMissing,
       ToRefund, Rest, At, Docs, Tasks

LEMMA UnresolvedRules ==
  ASSUME NEW k, NEW d, NEW e, NEW p, NEW s, NEW h, NEW r, NEW f, NEW c,
         Lawful(k, d, e, p, s, h, r, f, c), e.pc = "place"
  PROVE  Ruled(k, [d EXCEPT !.status = "FAILED"], [e EXCEPT !.pc = "refund"], p, s, h, r, f, c)
BY DEF Lawful, Ruled, Counted, Automated, CoinSold, Undecided, Settling, Early, XenaMissing,
       ToRefund, Docs, Tasks

\* What an answer to a placement says of the sale.
LEMMA PlaceRepliesAreTrue ==
  ASSUME NEW k \in Kinds, NEW s \in SaleAfterPlacement(k), NEW r \in PlaceReplies(k, s)
  PROVE  /\ r \in Replies /\ s \in Sales
         /\ r.st \in {"delivered", "partial"} => s = r.st
         /\ k = "coin" => /\ r.st \in {"rejected", "unknown", "delivered"} /\ ~r.id
                          /\ s \in {"none", "delivered"}
                          /\ r.st = "rejected" => s = "none"
<1>1. s \in Sales
  BY DEF SaleAfterPlacement, Sales, Ended
<1>2. r \in Replies
  BY <1>1, PlaceRepliesType
<1>3. \A st \in Answers, b \in BOOLEAN : Reply(st, b).st = st /\ Reply(st, b).id = b
  BY DEF Reply
<1>4. \/ s = "none" /\ r.st = "rejected" /\ ~r.id
      \/ s # "none" /\ r.st = s /\ (k = "coin" => ~r.id)
      \/ k # "coin" /\ r.st \in {"unmapped", "unknown"}
      \/ r.st \in Ambiguous(k) /\ ~r.id
  BY <1>1, <1>3 DEF PlaceReplies, Reply
<1> QED BY <1>1, <1>2, <1>4, KindsAssumption DEF SaleAfterPlacement, Ambiguous, Sales, Ended

LEMMA PlaceRules ==
  ASSUME NEW k, NEW d, NEW e, NEW p, NEW s, NEW h, NEW r, NEW f, NEW c,
         Lawful(k, d, e, p, s, h, r, f, c), e.pc = "place",
         NEW s1 \in SaleAfterPlacement(k), NEW y \in PlaceReplies(k, s1)
  PROVE  Ruled(k, d, [e EXCEPT !.pc = "placed", !.reply = y], p, s1, h, r, f, c)
<1> DEFINE e1 == [e EXCEPT !.pc = "placed", !.reply = y]
<1>1. e1.pc = "placed" /\ e1.reply = y /\ e1.saw = e.saw
  BY DEF Lawful, Tasks
<1> HIDE DEF e1
<1> QED BY <1>1, PlaceRepliesAreTrue
     DEF Lawful, Ruled, Counted, Automated, CoinSold, Undecided, Settling, Early, XenaMissing,
         ToRefund

\* What the executor records of an answer.
LEMMA PlacedFields ==
  ASSUME NEW k, NEW d \in Docs, NEW saw \in Docs, NEW y \in Replies
  PROVE  LET st == PlacementStatus(k, y)
             d1 == Placed(k, d, saw, y)
         IN  /\ d1.refunded = d.refunded
             /\ d1.hasId => y.id \/ d.hasId
             /\ d1.lookup => y.st = "unplaced"
             /\ d1.status = IF st # "PROCESSING" THEN st
                            ELSE IF ~y.id /\ saw.retry + 1 >= MaxRetry THEN "MANUAL_REVIEW"
                            ELSE d.status
             /\ st = "PROCESSING" /\ saw.retry < MaxRetry
                  => d1.retry < MaxRetry \/ d1.status = "MANUAL_REVIEW"
<1> DEFINE st == PlacementStatus(k, y)
           unplaced == y.st = "unplaced"
           retry == IF y.id THEN saw.retry ELSE saw.retry + 1
           known == [d EXCEPT !.hasId = y.id, !.lookup = unplaced]
<1>1. /\ known \in Docs /\ known.refunded = d.refunded /\ known.status = d.status
      /\ known.hasId = y.id /\ known.lookup = unplaced
  BY DEF Docs, Replies
<1>2. retry \in Nat /\ MaxRetry \in Nat /\ y.id \in BOOLEAN
  BY MaxRetryAssumption DEF Docs, Replies
<1>3. Placed(k, d, saw, y) =
        IF st # "PROCESSING" THEN [known EXCEPT !.status = st]
        ELSE IF ~y.id /\ retry >= MaxRetry
             THEN [d EXCEPT !.status = "MANUAL_REVIEW", !.retry = retry, !.lookup = unplaced]
             ELSE [known EXCEPT !.retry = retry]
  BY DEF Placed
<1> HIDE DEF known
<1>4. CASE st # "PROCESSING"
  <2>1. st \in Statuses
    BY DEF PlacementStatus, Statuses
  <2> HIDE DEF st
  <2> QED BY <1>1, <1>2, <1>3, <1>4, <2>1 DEF st, Docs
<1>5. CASE st = "PROCESSING"
  <2> QED BY <1>1, <1>2, <1>3, <1>5 DEF Docs
<1> QED BY <1>4, <1>5

LEMMA RecordRules ==
  ASSUME NEW k, NEW d, NEW e, NEW p, NEW s, NEW h, NEW r, NEW f, NEW c,
         Lawful(k, d, e, p, s, h, r, f, c), e.pc = "placed",
         NEW e1 \in Tasks, e1.saw = e.saw, e1.reply = e.reply,
         e1.pc = IF PlacementStatus(k, e.reply) = "FAILED" THEN "refund" ELSE "return"
  PROVE  Ruled(k, Placed(k, d, e.saw, e.reply), e1, p, s, h, r, f, c)
<1> DEFINE st == PlacementStatus(k, e.reply)
           d1 == Placed(k, d, e.saw, e.reply)
<1>1. d \in Docs /\ e.saw \in Docs /\ e.reply \in Replies /\ e.saw.retry < MaxRetry
  BY DEF Lawful, Ruled, Counted, Tasks
<1>2. /\ d1.refunded = d.refunded
      /\ d1.hasId => e.reply.id \/ d.hasId
      /\ d1.lookup => e.reply.st = "unplaced"
      /\ d1.status \in IF st # "PROCESSING" THEN {st} ELSE {"MANUAL_REVIEW", d.status}
      /\ d1.status = "MANUAL_REVIEW" \/ st # "PROCESSING" \/ d1.retry < MaxRetry
      /\ d1.status = "PROCESSING" => st = "PROCESSING"
  BY <1>1, PlacedFields
<1>3. /\ st \in {"PROCESSING", "MANUAL_REVIEW", "COMPLETED", "FAILED"}
      /\ st = "COMPLETED" => e.reply.st \in {"delivered", "partial"}
      /\ (k = "coin" /\ e.reply.st \in {"rejected", "unknown", "delivered"} /\ st = "FAILED")
           => e.reply.st = "rejected"
  BY DEF PlacementStatus
<1> HIDE DEF st, d1
<1>4. e1.pc = IF st = "FAILED" THEN "refund" ELSE "return"
  BY DEF st
<1>5. Counted(d1, e1)
  BY <1>2, <1>4 DEF Counted
<1>6. r = 0 => Automated(k, d1, e1, p, s)
  BY <1>2, <1>3, <1>4 DEF Lawful, Ruled, Automated, Early, XenaMissing
<1>7. r = 0 /\ k = "coin" => CoinSold(d1, e1, p, s, h)
  BY <1>2, <1>3, <1>4 DEF Lawful, Ruled, Automated, CoinSold, Early
<1>8. r = 0 /\ f = 0 => Undecided(k, d1, p)
  BY <1>2, <1>3, <1>4 DEF Lawful, Ruled, Automated, Undecided, Early, XenaMissing
<1>9. r = 0 /\ f = 0 /\ c = 0 => Settling(k, d1, e1, p, h)
  BY <1>2, <1>3, <1>4 DEF Lawful, Ruled, Automated, Settling, Early, XenaMissing, ToRefund
<1> QED BY <1>5, <1>6, <1>7, <1>8, <1>9 DEF Ruled, d1

LEMMA GuardRules ==
  ASSUME NEW k, NEW d, NEW e, NEW p, NEW s, NEW h, NEW r, NEW f, NEW c,
         Lawful(k, d, e, p, s, h, r, f, c), e.pc \in {"place", "placed", "return"}
  PROVE  IF k = "coin" /\ e.pc # "place" /\ e.reply.st # "rejected"
         THEN Ruled(k, [d EXCEPT !.status = "MANUAL_REVIEW"], Rest("exec"), p, s, h, r, f + 1, c)
         ELSE Ruled(k, [d EXCEPT !.status = "FAILED"], At("refund"), p, s, h, r, f + 1, c)
BY DEF Lawful, Ruled, Counted, Automated, CoinSold, Undecided, Settling, Early, XenaMissing,
       ToRefund, Rest, At, Docs, Tasks

-----------------------------------------------------------------------------
(* Rules(o) after a step of a worker of the automation *)

\* The rules of an order, on the values.
LEMMA RulesAreLawful ==
  ASSUME TypeOK, NEW o \in Orders, Rules(o)
  PROVE  /\ \A p \in Pollers :
              Lawful(kind[o], order[o], task[o]["exec"], task[o][p], sale[o], held[o],
                     requests, 1, crashes)
         /\ o \notin shared => \E p \in Pollers :
              /\ Alone(o, p)
              /\ Lawful(kind[o], order[o], task[o]["exec"], task[o][p], sale[o], held[o],
                        requests, faults, crashes)
         /\ order = [order EXCEPT ![o] = order[o]]
         /\ held = [held EXCEPT ![o] = held[o]]
<1>1. /\ kind[o] \in Kinds /\ order[o] \in Docs /\ sale[o] \in Sales /\ held[o] \in Int
      /\ task[o]["exec"] \in Tasks /\ \A p \in Pollers : task[o][p] \in Tasks
      /\ requests \in Nat /\ faults \in Nat /\ crashes \in Nat
  BY TaskType, WorkerTypes, CountersType DEF TypeOK
<1>2. order = [order EXCEPT ![o] = order[o]] /\ held = [held EXCEPT ![o] = held[o]]
  BY DEF TypeOK
<1> HIDE DEF Ruled
<1> QED BY ONLY <1>1, <1>2, Rules(o) DEF Rules, Lawful

\* Faults only take rules away, the first one all that it can.
LEMMA FaultRules ==
  ASSUME NEW k, NEW d, NEW e, NEW p, NEW s, NEW h, NEW r, NEW f, NEW c,
         Ruled(k, d, e, p, s, h, r, f, c)
  PROVE  Ruled(k, d, e, p, s, h, r, 1, c)
<1> HIDE DEF Counted, Automated, CoinSold, Undecided, Settling
<1> QED BY DEF Ruled

\* What one poller has left of the rules holds for the others.
LEMMA OthersRules ==
  ASSUME NEW k, NEW d, NEW d1, NEW e, NEW p, NEW q, NEW s, NEW h, NEW h1, NEW r, NEW f, NEW c,
         Ruled(k, d, e, q, s, h, r, 1, c), Ruled(k, d1, e, p, s, h1, r, f, c)
  PROVE  Ruled(k, d1, e, q, s, h1, r, 1, c)
BY DEF Ruled, Counted, Automated, CoinSold, Early, XenaMissing

\* How a step of the worker w may treat the money.
MoneyStep(o, w, t, d1, h1) ==
  LET old == task[o][w].pc
      d   == order[o]
  IN
  /\ t.pc # "reset"
  /\ d1.status = "PROCESSING" => d.status = "PROCESSING" /\ t.pc \notin {"refund", "partial"}
  /\ \/ /\ d1.refunded = d.refunded /\ h1 = held[o]
        /\ old # "credit" /\ t.pc # "credit"
        /\ d1.status = "FAILED" /\ ~d1.refunded =>
             t.pc = "refund" \/ (d.status = "FAILED" /\ old # "refund")
     \/ /\ ~d.refunded /\ d1.refunded /\ h1 = held[o]
        /\ old # "credit" /\ t.pc = "credit" /\ d1.status # "PROCESSING"
     \/ /\ d1.refunded = d.refunded /\ h1 = held[o] - Charge
        /\ old = "credit" /\ t.pc # "credit" /\ d1.status # "PROCESSING"
     \/ /\ ~d.refunded /\ d1.refunded /\ h1 < held[o]
        /\ old # "credit" /\ t.pc # "credit" /\ d1.status # "PROCESSING"

LEMMA MoneyMove ==
  ASSUME NEW o \in Orders, NEW w \in Automata, NEW t, NEW d1, NEW h1,
         Money(o), MoneyStep(o, w, t, d1, h1), order[o].refunded \in BOOLEAN,
         d1.refunded \in BOOLEAN, held[o] \in Int,
         order'[o] = d1, held'[o] = h1, task'[o][w] = t,
         \A v \in Automata \ {w} : task'[o][v] = task[o][v]
  PROVE  Money(o)'
<1> DEFINE T == [v \in Automata |-> task[o][v].pc]
           U == [v \in Automata |-> task'[o][v].pc]
           d == order[o]
           h == held[o]
<1>1. U[w] = t.pc /\ \A v \in Automata \ {w} : U[v] = T[v]
  OBVIOUS
<1>2. /\ \A v \in Automata : T[v] # "reset"
      /\ ~d.refunded => h = Charge
      /\ \A v \in Automata : T[v] = "credit" =>
           /\ d.refunded /\ h = Charge
           /\ \A u \in Automata \ {v} : T[u] # "credit"
      /\ d.refunded => h < Charge \/ \E v \in Automata : T[v] = "credit"
      /\ d.status = "FAILED" /\ ~d.refunded => \E v \in Automata : T[v] = "refund"
      /\ d.status = "PROCESSING" =>
           /\ ~d.refunded
           /\ \A v \in Automata : T[v] \notin {"refund", "partial"}
  BY DEF Money
<1>3. SUFFICES
      /\ \A v \in Automata : U[v] # "reset"
      /\ ~d1.refunded => h1 = Charge
      /\ \A v \in Automata : U[v] = "credit" =>
           /\ d1.refunded /\ h1 = Charge
           /\ \A u \in Automata \ {v} : U[u] # "credit"
      /\ d1.refunded => h1 < Charge \/ \E v \in Automata : U[v] = "credit"
      /\ d1.status = "FAILED" /\ ~d1.refunded => \E v \in Automata : U[v] = "refund"
      /\ d1.status = "PROCESSING" =>
           /\ ~d1.refunded
           /\ \A v \in Automata : U[v] \notin {"refund", "partial"}
  BY DEF Money
<1>4. /\ t.pc # "reset"
      /\ d1.status = "PROCESSING" => d.status = "PROCESSING" /\ t.pc \notin {"refund", "partial"}
      /\ \/ /\ d1.refunded = d.refunded /\ h1 = h
            /\ T[w] # "credit" /\ t.pc # "credit"
            /\ d1.status = "FAILED" /\ ~d1.refunded =>
                 t.pc = "refund" \/ (d.status = "FAILED" /\ T[w] # "refund")
         \/ /\ ~d.refunded /\ d1.refunded /\ h1 = h
            /\ T[w] # "credit" /\ t.pc = "credit" /\ d1.status # "PROCESSING"
         \/ /\ d1.refunded = d.refunded /\ h1 = h - Charge
            /\ T[w] = "credit" /\ t.pc # "credit" /\ d1.status # "PROCESSING"
         \/ /\ ~d.refunded /\ d1.refunded /\ h1 < h
            /\ T[w] # "credit" /\ t.pc # "credit" /\ d1.status # "PROCESSING"
  BY DEF MoneyStep
<1> HIDE DEF T, U, d, h
<1>5. h \in Int /\ d.refunded \in BOOLEAN /\ d1.refunded \in BOOLEAN /\ Charge \in Nat \ {0}
  BY ChargeAssumption DEF h, d
<1>6. CASE /\ d1.refunded = d.refunded /\ h1 = h
           /\ T[w] # "credit" /\ t.pc # "credit"
           /\ d1.status = "FAILED" /\ ~d1.refunded =>
                t.pc = "refund" \/ (d.status = "FAILED" /\ T[w] # "refund")
  BY ONLY <1>1, <1>2, <1>4, <1>5, <1>6, w \in Automata
<1>7. CASE /\ ~d.refunded /\ d1.refunded /\ h1 = h
           /\ T[w] # "credit" /\ t.pc = "credit" /\ d1.status # "PROCESSING"
  BY ONLY <1>1, <1>2, <1>4, <1>5, <1>7, w \in Automata
<1>8. CASE /\ d1.refunded = d.refunded /\ h1 = h - Charge
           /\ T[w] = "credit" /\ t.pc # "credit" /\ d1.status # "PROCESSING"
  BY ONLY <1>1, <1>2, <1>4, <1>5, <1>8, w \in Automata
<1>9. CASE /\ ~d.refunded /\ d1.refunded /\ h1 < h
           /\ T[w] # "credit" /\ t.pc # "credit" /\ d1.status # "PROCESSING"
  BY ONLY <1>1, <1>2, <1>4, <1>5, <1>9, w \in Automata
<1> QED BY ONLY <1>4, <1>6, <1>7, <1>8, <1>9

\* A step of the executor; n is 1 when it fails.
LEMMA ExecMoveKeepsRules ==
  ASSUME TypeOK, TypeOK', NEW o \in Orders, Rules(o), NEW n \in {0, 1},
         NEW d1, NEW t, NEW s1, NEW h1,
         Calm, faults' = faults + n, Write(o, d1), Become(o, "exec", t),
         sale'[o] = s1, held'[o] = h1,
         \A p \in Pollers : \A f \in Nat :
           Lawful(kind[o], order[o], task[o]["exec"], task[o][p], sale[o], held[o],
                  requests, f, crashes)
             => Ruled(kind[o], d1, t, task[o][p], s1, h1, requests, f + n, crashes),
         n = 0 /\ requests = 0 /\ faults = 0 /\ crashes = 0
           => MoneyStep(o, "exec", t, d1, h1)
  PROVE  Rules(o)'
<1>1. kind' = kind /\ shared' = shared /\ requests' = requests /\ crashes' = crashes
  BY DEF Calm
<1>2. /\ task'[o]["exec"] = t
      /\ \A p \in Pollers : task'[o][p] = task[o][p]
      /\ \A a \in Admins : task'[o][a] = task[o][a]
  BY WorkerTypes, AdminsAssumption, PollersAssumption DEF Become, TypeOK
<1>3. order'[o] = d1
  BY DEF Write, TypeOK
<1>4. faults \in Nat /\ faults + n \in Nat /\ (faults + n = 0 <=> n = 0 /\ faults = 0)
  BY CountersType
<1>5. \A p \in Pollers : Ruled(kind[o], d1, t, task[o][p], s1, h1, requests, 1, crashes)
  BY RulesAreLawful, FaultRules
<1>6. o \notin shared => \E p \in Pollers :
        /\ Alone(o, p)
        /\ Ruled(kind[o], d1, t, task[o][p], s1, h1, requests, faults + n, crashes)
  BY <1>4, RulesAreLawful
<1>7. \A p \in Pollers : Alone(o, p) => Alone(o, p)'
  BY <1>2 DEF Alone
<1>8. requests = 0 /\ faults' = 0 /\ crashes = 0 => Money(o)'
  <2> SUFFICES ASSUME requests = 0, n = 0, faults = 0, crashes = 0 PROVE Money(o)'
    BY <1>4
  <2>1. Money(o)
    BY DEF Rules
  <2>2. "exec" \in Automata /\ \A v \in Automata \ {"exec"} : task'[o][v] = task[o][v]
    BY <1>2 DEF Automata
  <2>3. order[o].refunded \in BOOLEAN /\ d1.refunded \in BOOLEAN /\ held[o] \in Int
    BY <1>3 DEF TypeOK, Docs
  <2> HIDE DEF Money
  <2> QED BY <1>2, <1>3, <2>1, <2>2, <2>3, MoneyMove
<1> HIDE DEF Ruled, Alone, Money
<1> QED BY ONLY <1>1, <1>2, <1>3, <1>5, <1>6, <1>7, <1>8, Rules(o), faults' = faults + n,
                sale'[o] = s1, held'[o] = h1 DEF Rules

\* A step of a poller that has the order.
LEMMA PollMoveKeepsRules ==
  ASSUME TypeOK, TypeOK', NEW o \in Orders, Rules(o), NEW p \in Pollers, NEW n \in {0, 1},
         NEW d1, NEW t, NEW h1,
         Calm, faults' = faults + n, Write(o, d1), Become(o, p, t),
         sale' = sale, held'[o] = h1, task[o][p].pc # "idle",
         \A f \in Nat :
           Lawful(kind[o], order[o], task[o]["exec"], task[o][p], sale[o], held[o],
                  requests, f, crashes)
             => Ruled(kind[o], d1, task[o]["exec"], t, sale[o], h1, requests, f + n, crashes),
         n = 0 /\ requests = 0 /\ faults = 0 /\ crashes = 0 => MoneyStep(o, p, t, d1, h1)
  PROVE  Rules(o)'
<1>1. kind' = kind /\ shared' = shared /\ requests' = requests /\ crashes' = crashes
  BY DEF Calm
<1>2. /\ task'[o][p] = t
      /\ \A w \in Workers \ {p} : task'[o][w] = task[o][w]
      /\ p # "exec" /\ p \notin Admins
  BY WorkerTypes, PollersAssumption DEF Become, TypeOK
<1>3. order'[o] = d1
  BY DEF Write, TypeOK
<1>4. faults \in Nat /\ faults + n \in Nat /\ (faults + n = 0 <=> n = 0 /\ faults = 0)
  BY CountersType
<1>5. Ruled(kind[o], d1, task[o]["exec"], t, sale[o], h1, requests, 1 + n, crashes)
  BY RulesAreLawful
<1>6. ASSUME NEW q \in Pollers
      PROVE  Ruled(kind[o], d1, task[o]["exec"], task'[o][q], sale[o], h1, requests, 1, crashes)
  <2>1. CASE q = p
    BY <1>2, <1>5, <2>1, FaultRules
  <2>2. CASE q # p
    <3>1. Ruled(kind[o], order[o], task[o]["exec"], task[o][q], sale[o], held[o], requests, 1,
                crashes)
      BY DEF Rules
    <3>2. task'[o][q] = task[o][q]
      BY <1>2, <2>2, WorkerTypes
    <3> HIDE DEF Ruled
    <3> QED BY ONLY <1>5, <3>1, <3>2, OthersRules
  <2> QED BY <2>1, <2>2
<1>7. ASSUME o \notin shared
      PROVE  /\ Alone(o, p)'
             /\ Ruled(kind[o], d1, task[o]["exec"], t, sale[o], h1, requests, faults + n, crashes)
  <2>1. PICK q \in Pollers :
          /\ Alone(o, q)
          /\ Lawful(kind[o], order[o], task[o]["exec"], task[o][q], sale[o], held[o],
                    requests, faults, crashes)
    BY <1>7, RulesAreLawful
  <2>2. q = p
    BY <2>1 DEF Alone
  <2> QED BY <1>2, <1>4, <2>1, <2>2, WorkerTypes DEF Alone
<1>8. requests = 0 /\ faults' = 0 /\ crashes = 0 => Money(o)'
  <2> SUFFICES ASSUME requests = 0, n = 0, faults = 0, crashes = 0 PROVE Money(o)'
    BY <1>4
  <2>1. Money(o)
    BY DEF Rules
  <2>2. p \in Automata /\ \A v \in Automata \ {p} : task'[o][v] = task[o][v]
    BY <1>2, WorkerTypes DEF Automata
  <2>3. order[o].refunded \in BOOLEAN /\ d1.refunded \in BOOLEAN /\ held[o] \in Int
    BY <1>3 DEF TypeOK, Docs
  <2> HIDE DEF Money
  <2> QED BY <1>2, <1>3, <2>1, <2>2, <2>3, MoneyMove
<1>9. task'[o]["exec"] = task[o]["exec"] /\ \A a \in Admins : task'[o][a] = task[o][a]
  BY <1>2, WorkerTypes
<1> HIDE DEF Ruled, Alone, Money
<1> QED BY ONLY <1>1, <1>2, <1>3, <1>6, <1>7, <1>8, <1>9, Rules(o), faults' = faults + n,
                sale' = sale, held'[o] = h1, p \in Pollers DEF Rules

\* Once the back office is at work only the count matters.
LEMMA RequestKeepsRules ==
  ASSUME TypeOK, NEW o \in Orders, Rules(o), requests' # 0,
         task'[o]["exec"] = task[o]["exec"], shared' = shared,
         \A p \in Pollers : task'[o][p] = task[o][p],
         order'[o].status = "PROCESSING" =>
           order[o].status = "PROCESSING" /\ order'[o].retry = order[o].retry
  PROVE  Rules(o)'
BY DEF Rules, Ruled, Counted, Alone

LEMMA ExecuteKeepsRules ==
  ASSUME TypeOK, TypeOK', NEW o \in Orders, Execute(o), Rules(o)
  PROVE  Rules(o)'
<1> DEFINE k == kind[o]
           d == order[o]
           e == task[o]["exec"]
           s == sale[o]
           h == held[o]
           \* n faults more, and the executor has become t.
           RuledNow(d1, t, s1, n) ==
             \A p \in Pollers : \A f \in Nat :
               Lawful(k, d, e, task[o][p], s, h, requests, f, crashes)
                 => Ruled(k, d1, t, task[o][p], s1, h, requests, f + n, crashes)
<1>1. d \in Docs /\ e \in Tasks
  BY TaskType, WorkerTypes
<1>2. ASSUME NEW d1, NEW t, NEW s1, NEW n \in {0, 1},
             Calm, faults' = faults + n, held' = held, Write(o, d1), Become(o, "exec", t),
             sale'[o] = s1, RuledNow(d1, t, s1, n),
             n = 0 => MoneyStep(o, "exec", t, d1, h)
      PROVE  Rules(o)'
  <2> HIDE DEF Ruled, Lawful, MoneyStep
  <2> QED BY <1>2, ExecMoveKeepsRules
<1>3. order = [order EXCEPT ![o] = d]
  BY RulesAreLawful
<1>4. \A s1 : sale' = [sale EXCEPT ![o] = s1] => sale'[o] = s1
  BY DEF TypeOK
<1>5. /\ NoFault => faults' = faults + 0
      /\ Fault => faults' = faults + 1
      /\ \A f \in Nat : f + 0 = f
  BY CountersType DEF NoFault, Fault
\* Steps that leave the document alone, and start or end no refund.
<1>6. ASSUME NEW t, e.pc \in {"start", "place", "placed", "return"},
             t.pc \in {"place", "placed", "done"}
      PROVE  MoneyStep(o, "exec", t, d, h)
  BY <1>6 DEF MoneyStep
<1> HIDE DEF MoneyStep
<1>7. CASE ExecClaim(o)
  <2>0. e.pc = "start" /\ Calm /\ NoFault /\ UNCHANGED <<order, held, sale>>
    BY <1>7 DEF ExecClaim, PC
  <2>1. CASE d.status = "PROCESSING"
    <3> DEFINE t == [At("place") EXCEPT !.saw = d]
    <3>1. t \in Tasks /\ t.pc = "place" /\ t.saw = d
      BY <1>1, AtType DEF PCs, Tasks, At
    <3>2. Become(o, "exec", t)
      BY <1>7, <2>1 DEF ExecClaim
    <3> HIDE DEF t
    <3>3. RuledNow(d, t, s, 0)
      BY ONLY <1>5, <2>0, <2>1, <3>1, ClaimRules
    <3>4. MoneyStep(o, "exec", t, d, h)
      BY ONLY <1>6, <2>0, <3>1
    <3> QED BY <1>2, <1>3, <1>5, <2>0, <3>2, <3>3, <3>4 DEF Write
  <2>2. CASE d.status # "PROCESSING"
    <3>1. RuledNow(d, Rest("exec"), s, 0)
      BY ONLY <1>5, <2>0, DoneRules
    <3>2. MoneyStep(o, "exec", Rest("exec"), d, h)
      BY ONLY <1>6, <2>0 DEF Rest, At
    <3>3. Become(o, "exec", Rest("exec"))
      BY <1>7, <2>2 DEF ExecClaim, Finish
    <3> QED BY <1>2, <1>3, <1>5, <2>0, <3>1, <3>2, <3>3 DEF Write
  <2> QED BY <2>1, <2>2
<1>8. CASE ExecUnresolved(o)
  <2> DEFINE t == [e EXCEPT !.pc = "refund"]
             d1 == [d EXCEPT !.status = "FAILED"]
  <2>1. /\ e.pc = "place" /\ Calm /\ NoFault /\ UNCHANGED <<held, sale>>
        /\ Write(o, d1) /\ Become(o, "exec", t)
    BY <1>8 DEF ExecUnresolved, PC, Goto
  <2>2. RuledNow(d1, t, s, 0)
    BY ONLY <1>5, <2>1, UnresolvedRules
  <2>3. MoneyStep(o, "exec", t, d1, h)
    BY ONLY <1>1, <2>1 DEF MoneyStep, Docs, Tasks
  <2> HIDE DEF t, d1
  <2> QED BY <1>2, <1>5, <2>1, <2>2, <2>3
<1>9. CASE ExecPlace(o)
  <2>0. PICK s1 \in SaleAfterPlacement(k) : \E y \in PlaceReplies(k, s1) :
          /\ sale' = [sale EXCEPT ![o] = s1]
          /\ Become(o, "exec", [e EXCEPT !.pc = "placed", !.reply = y])
    BY <1>9 DEF ExecPlace
  <2>1. PICK y \in PlaceReplies(k, s1) :
          /\ sale' = [sale EXCEPT ![o] = s1]
          /\ Become(o, "exec", [e EXCEPT !.pc = "placed", !.reply = y])
    BY <2>0
  <2> DEFINE t == [e EXCEPT !.pc = "placed", !.reply = y]
  <2>2. e.pc = "place" /\ Calm /\ NoFault /\ UNCHANGED <<order, held>> /\ t.pc = "placed"
    BY <1>1, <1>9 DEF ExecPlace, PC, Tasks
  <2>3. RuledNow(d, t, s1, 0)
    BY ONLY <1>5, <2>2, s1 \in SaleAfterPlacement(k), y \in PlaceReplies(k, s1), PlaceRules
  <2> HIDE DEF t
  <2>4. MoneyStep(o, "exec", t, d, h)
    BY ONLY <1>6, <2>2
  <2>5. Become(o, "exec", t)
    BY <2>1 DEF t
  <2> QED BY <1>2, <1>3, <1>4, <1>5, <2>1, <2>2, <2>3, <2>4, <2>5 DEF Write
<1>10. CASE ExecRecord(o)
  <2> DEFINE d1 == Placed(k, d, e.saw, e.reply)
  <2>1. PICK t : /\ t \in Tasks /\ t.saw = e.saw /\ t.reply = e.reply
                 /\ t.pc = IF PlacementStatus(k, e.reply) = "FAILED" THEN "refund" ELSE "return"
                 /\ Become(o, "exec", t)
    BY <1>10, TaskType, WorkerTypes DEF ExecRecord, Goto, Tasks, PCs
  <2>2. e.pc = "placed" /\ Calm /\ NoFault /\ UNCHANGED <<held, sale>> /\ Write(o, d1)
    BY <1>10 DEF ExecRecord, PC
  <2>3. RuledNow(d1, t, s, 0)
    BY ONLY <1>5, <2>1, <2>2, RecordRules
  <2>4. MoneyStep(o, "exec", t, d1, h)
    <3>1. /\ d1.refunded = d.refunded
          /\ d1.status = IF PlacementStatus(k, e.reply) # "PROCESSING"
                         THEN PlacementStatus(k, e.reply)
                         ELSE IF ~e.reply.id /\ e.saw.retry + 1 >= MaxRetry THEN "MANUAL_REVIEW"
                         ELSE d.status
      BY ONLY <1>1, PlacedFields DEF Tasks
    <3> HIDE DEF d1
    <3> QED BY ONLY <2>1, <2>2, <3>1 DEF MoneyStep
  <2> HIDE DEF d1
  <2> QED BY <1>2, <1>5, <2>1, <2>2, <2>3, <2>4
<1>11. CASE ExecReturn(o)
  <2>1. /\ e.pc = "return" /\ Calm /\ NoFault /\ UNCHANGED <<order, held, sale>>
        /\ Become(o, "exec", Rest("exec"))
    BY <1>11 DEF ExecReturn, PC, Finish
  <2>2. RuledNow(d, Rest("exec"), s, 0)
    BY ONLY <1>5, <2>1, DoneRules
  <2>3. MoneyStep(o, "exec", Rest("exec"), d, h)
    BY ONLY <1>6, <2>1 DEF Rest, At
  <2> QED BY <1>2, <1>3, <1>5, <2>1, <2>2, <2>3 DEF Write
<1>12. CASE ExecCrashGuard(o)
  <2>1. e.pc \in {"place", "placed", "return"} /\ Calm /\ Fault /\ UNCHANGED <<held, sale>>
    BY <1>12 DEF ExecCrashGuard, PC
  <2>2. CASE k = "coin" /\ e.pc # "place" /\ e.reply.st # "rejected"
    <3>1. RuledNow([d EXCEPT !.status = "MANUAL_REVIEW"], Rest("exec"), s, 1)
      BY ONLY <2>1, <2>2, GuardRules
    <3>2. Write(o, [d EXCEPT !.status = "MANUAL_REVIEW"]) /\ Become(o, "exec", Rest("exec"))
      BY <1>12, <2>2 DEF ExecCrashGuard, Finish, PC
    <3> QED BY <1>2, <1>5, <2>1, <3>1, <3>2
  <2>3. CASE ~(k = "coin" /\ e.pc # "place" /\ e.reply.st # "rejected")
    <3>1. RuledNow([d EXCEPT !.status = "FAILED"], At("refund"), s, 1)
      BY ONLY <2>1, <2>3, GuardRules
    <3>2. Write(o, [d EXCEPT !.status = "FAILED"]) /\ Become(o, "exec", At("refund"))
      BY <1>12, <2>3 DEF ExecCrashGuard, PC
    <3> QED BY <1>2, <1>5, <2>1, <3>1, <3>2
  <2> QED BY <2>2, <2>3
<1> QED BY <1>7, <1>8, <1>9, <1>10, <1>11, <1>12 DEF Execute

-----------------------------------------------------------------------------
(* Refunds *)

LEMMA RefundElsewhere ==
  ASSUME TypeOK, NEW o \in Orders, NEW v \in Workers, Refund(o, v)
  PROVE  Later /\ \A q \in Orders \ {o} : Same(q)
<1> USE DEF Same, Become, Goto, Finish, Write, Return, NotRefunded, TypeOK
<1>0. Later /\ kind' = kind /\ shared' = shared
  BY CalmIsLater DEF Refund, RefundClaim, RefundCredit, RefundCreditFails, RefundReset,
                     ProcessOrderRefund
<1>1. CASE RefundClaim(o, v)
  BY <1>0, <1>1 DEF RefundClaim
<1>2. CASE RefundCredit(o, v)
  BY <1>0, <1>2 DEF RefundCredit
<1>3. CASE RefundCreditFails(o, v)
  BY <1>0, <1>3 DEF RefundCreditFails
<1>4. CASE RefundReset(o, v)
  BY <1>0, <1>4 DEF RefundReset
<1>5. CASE ProcessOrderRefund(o, v)
  BY <1>0, <1>5 DEF ProcessOrderRefund
<1> QED BY <1>1, <1>2, <1>3, <1>4, <1>5 DEF Refund

\* A refund by the executor, on the values alone; e1 is its task afterwards.
LEMMA ExecRefundRules ==
  ASSUME NEW k, NEW d, NEW e, NEW p, NEW s, NEW h, NEW r, NEW f, NEW c,
         Lawful(k, d, e, p, s, h, r, f, c),
         NEW e1 \in Tasks, e1.pc \in {"return", "done"}, e1.pc = "return" => e1.reply = e.reply
  PROVE  /\ e.pc = "refund" =>
              /\ d.refunded => Ruled(k, d, e1, p, s, h, r, f, c)
              /\ ~d.refunded => Ruled(k, [d EXCEPT !.refunded = TRUE], [e EXCEPT !.pc = "credit"],
                                     p, s, h, r, f, c)
              /\ Ruled(k, d, e1, p, s, h, r, f + 1, c)
         /\ e.pc = "credit" =>
              /\ Ruled(k, d, e1, p, s, h - Charge, r, f, c)
              /\ \A h1 : Ruled(k, d, [e EXCEPT !.pc = "reset"], p, s, h1, r, f + 1, c)
         /\ e.pc = "reset" =>
              /\ Ruled(k, [d EXCEPT !.refunded = FALSE], e1, p, s, h, r, f, c)
              /\ Ruled(k, d, e1, p, s, h, r, f + 1, c)
<1> USE ChargeAssumption DEF Lawful, Ruled, Counted, Automated, CoinSold, Undecided, Settling, Early, XenaMissing, ToRefund,
           Docs, Tasks
<1>1. CASE e.pc = "refund"
  BY <1>1
<1>2. CASE e.pc = "credit"
  <2>1. Ruled(k, d, e1, p, s, h - Charge, r, f, c)
    BY <1>2
  <2>2. ASSUME NEW h1 PROVE Ruled(k, d, [e EXCEPT !.pc = "reset"], p, s, h1, r, f + 1, c)
    BY <1>2
  <2> HIDE DEF Ruled
  <2> QED BY <1>2, <2>1, <2>2
<1>3. CASE e.pc = "reset"
  BY <1>3
<1> HIDE DEF Ruled
<1> QED BY <1>1, <1>2, <1>3

\* The same by the poller, which is at rest afterwards.
LEMMA PollRefundRules ==
  ASSUME NEW k, NEW d, NEW e, NEW p, NEW s, NEW h, NEW r, NEW f, NEW c,
         Lawful(k, d, e, p, s, h, r, f, c),
         NEW p1, p1 = At("idle")
  PROVE  /\ p.pc = "refund" =>
              /\ d.refunded => Ruled(k, d, e, p1, s, h, r, f, c)
              /\ ~d.refunded => Ruled(k, [d EXCEPT !.refunded = TRUE], e, [p EXCEPT !.pc = "credit"],
                                     s, h, r, f, c)
              /\ Ruled(k, d, e, p1, s, h, r, f + 1, c)
         /\ p.pc = "credit" =>
              /\ Ruled(k, d, e, p1, s, h - Charge, r, f, c)
              /\ \A h1 : Ruled(k, d, e, [p EXCEPT !.pc = "reset"], s, h1, r, f + 1, c)
         /\ p.pc = "reset" =>
              /\ Ruled(k, [d EXCEPT !.refunded = FALSE], e, p1, s, h, r, f, c)
              /\ Ruled(k, d, e, p1, s, h, r, f + 1, c)
<1>0. p1.pc = "idle"
  BY DEF Rest, At
<1> USE <1>0, ChargeAssumption DEF Lawful, Ruled, Counted, Automated, CoinSold, Undecided, Settling, Early, XenaMissing, ToRefund,
           Docs, Tasks
<1>1. CASE p.pc = "refund"
  BY <1>1
<1>2. CASE p.pc = "credit"
  <2>1. Ruled(k, d, e, p1, s, h - Charge, r, f, c)
    BY <1>2
  <2>2. ASSUME NEW h1 PROVE Ruled(k, d, e, [p EXCEPT !.pc = "reset"], s, h1, r, f + 1, c)
    BY <1>2
  <2> HIDE DEF Ruled
  <2> QED BY <1>2, <2>1, <2>2
<1>3. CASE p.pc = "reset"
  BY <1>3
<1> HIDE DEF Ruled
<1> QED BY <1>1, <1>2, <1>3

\* processOrderRefund pays back at most the charge.
LEMMA PartialRules ==
  ASSUME NEW k, NEW d, NEW e, NEW p, NEW s, NEW h, NEW r, NEW f, NEW c,
         Lawful(k, d, e, p, s, h, r, f, c), p.pc = "partial",
         NEW p1, p1 = At("idle"), NEW amount \in 0 .. Charge
  PROVE  /\ ~d.refunded /\ amount > 0 =>
              Ruled(k, [d EXCEPT !.refunded = TRUE], e, p1, s, h - amount, r, f, c)
         /\ d.refunded \/ amount <= 0 => Ruled(k, d, e, p1, s, h, r, f, c)
         /\ Ruled(k, d, e, p1, s, h, r, f + 1, c)
<1>0. p1.pc = "idle"
  BY DEF Rest, At
<1> QED BY <1>0, ChargeAssumption
     DEF Lawful, Ruled, Counted, Automated, CoinSold, Undecided, Settling, Early, XenaMissing,
         ToRefund, Docs, Tasks
\* Refunds, as steps of the money: taking the flag, ...
LEMMA ClaimIsMoneyStep ==
  ASSUME NEW o \in Orders, NEW w \in Automata, order[o] \in Docs, Money(o),
         NEW t, t.pc = "credit", task[o][w].pc = "refund", ~order[o].refunded
  PROVE  MoneyStep(o, w, t, [order[o] EXCEPT !.refunded = TRUE], held[o])
<1>1. order[o].status # "PROCESSING"
  BY DEF Money
<1>2. LET d1 == [order[o] EXCEPT !.refunded = TRUE] IN d1.refunded /\ d1.status = order[o].status
  BY DEF Docs
<1> QED BY <1>1, <1>2 DEF MoneyStep

\* ... finding it set, or nothing to pay, ...
LEMMA ReturnIsMoneyStep ==
  ASSUME NEW o \in Orders, NEW w \in Automata,
         NEW t, t.pc \in {"return", "done", "idle"},
         task[o][w].pc = "partial" \/ (task[o][w].pc = "refund" /\ order[o].refunded)
  PROVE  MoneyStep(o, w, t, order[o], held[o])
BY DEF MoneyStep

\* ... the credit, ...
LEMMA CreditIsMoneyStep ==
  ASSUME NEW o \in Orders, NEW w \in Automata, Money(o),
         NEW t, t.pc \in {"return", "done", "idle"}, task[o][w].pc = "credit"
  PROVE  MoneyStep(o, w, t, order[o], held[o] - Charge)
BY DEF Money, MoneyStep

\* ... and the partial one.
LEMMA PartialIsMoneyStep ==
  ASSUME NEW o \in Orders, NEW w \in Automata, order[o] \in Docs, held[o] \in Int, Money(o),
         NEW t, t.pc = "idle", task[o][w].pc = "partial", ~order[o].refunded,
         NEW amount \in Nat, amount > 0
  PROVE  MoneyStep(o, w, t, [order[o] EXCEPT !.refunded = TRUE], held[o] - amount)
<1>1. order[o].status # "PROCESSING"
  BY DEF Money
<1>2. LET d1 == [order[o] EXCEPT !.refunded = TRUE] IN d1.refunded /\ d1.status = order[o].status
  BY DEF Docs
<1>3. held[o] - amount < held[o]
  OBVIOUS
<1> DEFINE d1 == [order[o] EXCEPT !.refunded = TRUE]
           h1 == held[o] - amount
<1> HIDE DEF d1, h1
<1>4. MoneyStep(o, w, t, d1, h1)
  BY <1>1, <1>2, <1>3 DEF MoneyStep, d1, h1
<1> QED BY <1>4 DEF d1, h1

\* The executor pays nothing back by a partial refund.
LEMMA ExecPartialRules ==
  ASSUME NEW k, NEW d, NEW e, NEW p, NEW s, NEW h, NEW r, NEW f, NEW c,
         Lawful(k, d, e, p, s, h, r, f, c), e.pc = "partial"
  PROVE  /\ r # 0
         /\ \A d1, e1, h1, f1 : d1.status = d.status /\ d1.retry = d.retry /\ e1.pc = "done"
              => Ruled(k, d1, e1, p, s, h1, r, f1, c)
BY DEF Lawful, Ruled, Counted, Automated

LEMMA ExecRefundKeepsRules ==
  ASSUME TypeOK, TypeOK', NEW o \in Orders, Refund(o, "exec"), Rules(o)
  PROVE  Rules(o)'
<1> DEFINE k == kind[o]
           d == order[o]
           e == task[o]["exec"]
           s == sale[o]
           h == held[o]
           \* n faults more, and the executor has become t.
           RuledNow(d1, t, h1, n) ==
             \A p \in Pollers : \A f \in Nat :
               Lawful(k, d, e, task[o][p], s, h, requests, f, crashes)
                 => Ruled(k, d1, t, task[o][p], s, h1, requests, f + n, crashes)
           \* The executor has returned from the refund as t.
           Returned(t) ==
             /\ t \in Tasks /\ Become(o, "exec", t)
             /\ t.pc \in {"return", "done"} /\ (t.pc = "return" => t.reply = e.reply)
           Sound == requests = 0 /\ faults = 0 /\ crashes = 0
<1>1. d \in Docs /\ e \in Tasks /\ h \in Int /\ "exec" \in Automata
  BY TaskType, WorkerTypes DEF TypeOK, Automata
<1>2. ASSUME NEW d1, NEW t, NEW h1, NEW n \in {0, 1},
             Calm, faults' = faults + n, sale' = sale, Write(o, d1), Become(o, "exec", t),
             held'[o] = h1, RuledNow(d1, t, h1, n),
             n = 0 /\ Sound => MoneyStep(o, "exec", t, d1, h1)
      PROVE  Rules(o)'
  <2> HIDE DEF Ruled, Lawful, MoneyStep
  <2> QED BY <1>2, ExecMoveKeepsRules
<1>3. /\ Write(o, d) <=> UNCHANGED order
      /\ NoFault => faults' = faults + 0
      /\ Fault => faults' = faults + 1
      /\ \A f \in Nat : f + 0 = f
  BY RulesAreLawful, CountersType DEF Write, NoFault, Fault
<1>4. ASSUME \/ Return(o, "exec")
             \/ \E pc \in {"unconfirmed", "rollback"} : NotRefunded(o, "exec", pc)
      PROVE  \E t : Returned(t)
  <2>1. "exec" \notin Admins
    BY AdminsAssumption
  <2>2. Goto(o, "exec", "return") \/ Finish(o, "exec")
    BY <1>4, <2>1 DEF Return, NotRefunded
  <2>3. CASE Goto(o, "exec", "return")
    <3>1. Returned([e EXCEPT !.pc = "return"])
      BY <1>1, <2>3 DEF Goto, Tasks, PCs
    <3> QED BY <3>1
  <2>4. CASE Finish(o, "exec")
    <3>1. Returned(Rest("exec"))
      BY <2>4, RestType, WorkerTypes DEF Finish, Rest, At
    <3> QED BY <3>1
  <2> QED BY <2>2, <2>3, <2>4
<1>5. Sound => Money(o)
  BY DEF Rules
<1>6. PICK done \in Tasks : done.pc = "done"
  BY RestType, WorkerTypes DEF Rest, At
<1> HIDE DEF MoneyStep, Money
<1>7. CASE RefundClaim(o, "exec")
  <2>1. e.pc = "refund" /\ Calm /\ UNCHANGED <<held, sale>>
    BY <1>7 DEF RefundClaim, PC
  <2>2. CASE d.refunded /\ NotRefunded(o, "exec", "unconfirmed") /\ NoFault /\ UNCHANGED order
    <3>1. PICK t : Returned(t)
      BY <1>4, <2>2
    <3>2. RuledNow(d, t, h, 0)
      BY ONLY <1>3, <2>1, <2>2, <3>1, ExecRefundRules
    <3>3. Sound => MoneyStep(o, "exec", t, d, h)
      BY ONLY <1>1, <1>5, <2>1, <2>2, <3>1, o \in Orders, ReturnIsMoneyStep
    <3> QED BY <1>2, <1>3, <2>1, <2>2, <3>1, <3>2, <3>3
  <2>3. CASE ~d.refunded /\ Goto(o, "exec", "credit") /\ NoFault
             /\ Write(o, [d EXCEPT !.refunded = TRUE])
    <3> DEFINE t == [e EXCEPT !.pc = "credit"]
    <3>0. t.pc = "credit"
      BY <1>1 DEF Tasks
    <3>1. RuledNow([d EXCEPT !.refunded = TRUE], t, h, 0)
      BY ONLY <1>3, <1>6, <2>1, <2>3, ExecRefundRules
    <3>2. Sound => MoneyStep(o, "exec", t, [d EXCEPT !.refunded = TRUE], h)
      <4> HIDE DEF t
      <4> QED BY ONLY <1>1, <1>5, <2>1, <2>3, <3>0, o \in Orders, ClaimIsMoneyStep
    <3>3. Become(o, "exec", t)
      BY <2>3 DEF Goto
    <3> HIDE DEF t
    <3> QED BY <1>2, <1>3, <2>1, <2>3, <3>1, <3>2, <3>3
  <2>4. CASE Fault /\ NotRefunded(o, "exec", "rollback") /\ UNCHANGED order
    <3>1. PICK t : Returned(t)
      BY <1>4, <2>4
    <3>2. RuledNow(d, t, h, 1)
      BY ONLY <2>1, <3>1, ExecRefundRules
    <3> QED BY <1>2, <1>3, <2>1, <2>4, <3>1, <3>2
  <2> QED BY <1>7, <2>2, <2>3, <2>4 DEF RefundClaim
<1>8. CASE RefundCredit(o, "exec")
  <2>1. /\ e.pc = "credit" /\ Calm /\ NoFault /\ held'[o] = h - Charge
        /\ UNCHANGED <<order, sale>> /\ Return(o, "exec")
    BY <1>8 DEF RefundCredit, PC, TypeOK
  <2>2. PICK t : Returned(t)
    BY <1>4, <2>1
  <2>3. RuledNow(d, t, h - Charge, 0)
    BY ONLY <1>3, <2>1, <2>2, ExecRefundRules
  <2>4. Sound => MoneyStep(o, "exec", t, d, h - Charge)
    BY ONLY <1>1, <1>5, <2>1, <2>2, o \in Orders, CreditIsMoneyStep
  <2> QED BY <1>2, <1>3, <2>1, <2>2, <2>3, <2>4
<1>9. CASE RefundCreditFails(o, "exec")
  <2>1. /\ e.pc = "credit" /\ Calm /\ Fault /\ UNCHANGED <<order, sale>>
        /\ Become(o, "exec", [e EXCEPT !.pc = "reset"])
    BY <1>9 DEF RefundCreditFails, PC, Goto
  <2>2. RuledNow(d, [e EXCEPT !.pc = "reset"], held'[o], 1)
    BY ONLY <1>6, <2>1, ExecRefundRules
  <2> QED BY <1>2, <1>3, <2>1, <2>2
<1>10. CASE RefundReset(o, "exec")
  <2>1. e.pc = "reset" /\ Calm /\ UNCHANGED <<held, sale>> /\ NotRefunded(o, "exec", "rollback")
    BY <1>10 DEF RefundReset, PC
  <2>2. PICK t : Returned(t)
    BY <1>4, <2>1
  <2>3. CASE Write(o, [d EXCEPT !.refunded = FALSE]) /\ NoFault
    <3>1. RuledNow([d EXCEPT !.refunded = FALSE], t, h, 0)
      BY ONLY <1>3, <2>1, <2>2, <2>3, ExecRefundRules
    <3>2. ~Sound
      BY ONLY <1>1, <1>5, <2>1 DEF Money
    <3> QED BY <1>2, <1>3, <2>1, <2>2, <2>3, <3>1, <3>2
  <2>4. CASE Fault /\ UNCHANGED order
    <3>1. RuledNow(d, t, h, 1)
      BY ONLY <2>1, <2>2, ExecRefundRules
    <3> QED BY <1>2, <1>3, <2>1, <2>2, <2>4, <3>1
  <2> QED BY <1>10, <2>3, <2>4 DEF RefundReset
<1>11. CASE ProcessOrderRefund(o, "exec")
  <2> DEFINE d1 == order'[o]
  <2>1. /\ e.pc = "partial" /\ Calm /\ UNCHANGED sale /\ (Fault \/ NoFault)
        /\ Become(o, "exec", Rest("exec")) /\ Write(o, d1)
    BY <1>11, RulesAreLawful DEF ProcessOrderRefund, PC, Finish, Write, TypeOK
  <2>2. d1.status = d.status /\ d1.retry = d.retry
    BY <1>1, <1>11 DEF ProcessOrderRefund, Write, TypeOK, Docs
  <2>3. Rest("exec").pc = "done"
    BY DEF Rest, At
  <2> HIDE DEF d1
  <2>4. /\ RuledNow(d1, Rest("exec"), held'[o], 0)
        /\ RuledNow(d1, Rest("exec"), held'[o], 1)
    BY ONLY <2>1, <2>2, <2>3, ExecPartialRules
  <2>5. requests # 0
    <3>1. PICK p \in Pollers : TRUE
      BY PollersAssumption
    <3> QED BY ONLY <2>1, <3>1, TypeOK, o \in Orders, Rules(o), RulesAreLawful, ExecPartialRules
  <2> QED BY <1>2, <1>3, <2>1, <2>4, <2>5
<1> QED BY <1>7, <1>8, <1>9, <1>10, <1>11 DEF Refund

LEMMA PollRefundKeepsRules ==
  ASSUME TypeOK, TypeOK', NEW o \in Orders, NEW p \in Pollers, Refund(o, p), Rules(o)
  PROVE  Rules(o)'
<1> DEFINE k == kind[o]
           d == order[o]
           e == task[o]["exec"]
           t == task[o][p]
           s == sale[o]
           h == held[o]
           idle == At("idle")
           \* n faults more, and the poller has become t1.
           RuledNow(d1, t1, h1, n) ==
             \A f \in Nat :
               Lawful(k, d, e, t, s, h, requests, f, crashes)
                 => Ruled(k, d1, e, t1, s, h1, requests, f + n, crashes)
           Sound == requests = 0 /\ faults = 0 /\ crashes = 0
<1>1. d \in Docs /\ t \in Tasks /\ h \in Int /\ p \in Automata /\ idle.pc = "idle"
  BY TaskType, WorkerTypes DEF TypeOK, Automata, At
<1>2. ASSUME NEW d1, NEW t1, NEW h1, NEW n \in {0, 1},
             Calm, faults' = faults + n, sale' = sale, Write(o, d1), Become(o, p, t1),
             held'[o] = h1, t.pc # "idle", RuledNow(d1, t1, h1, n),
             n = 0 /\ Sound => MoneyStep(o, p, t1, d1, h1)
      PROVE  Rules(o)'
  <2> HIDE DEF Ruled, Lawful, MoneyStep
  <2> QED BY <1>2, PollMoveKeepsRules
<1>3. /\ Write(o, d) <=> UNCHANGED order
      /\ NoFault => faults' = faults + 0
      /\ Fault => faults' = faults + 1
      /\ \A f \in Nat : f + 0 = f
  BY RulesAreLawful, CountersType DEF Write, NoFault, Fault
<1>4. /\ Return(o, p) <=> Become(o, p, idle)
      /\ \A pc : NotRefunded(o, p, pc) <=> Become(o, p, idle)
  BY PollersAssumption DEF Return, NotRefunded, Finish, Rest
<1>5. Sound => Money(o)
  BY DEF Rules
<1> HIDE DEF MoneyStep, Money, idle
<1>7. CASE RefundClaim(o, p)
  <2>1. t.pc = "refund" /\ Calm /\ UNCHANGED <<held, sale>>
    BY <1>7 DEF RefundClaim, PC
  <2>2. CASE d.refunded /\ NotRefunded(o, p, "unconfirmed") /\ NoFault /\ UNCHANGED order
    <3>1. RuledNow(d, idle, h, 0)
      BY ONLY <1>3, <2>1, <2>2, PollRefundRules DEF idle
    <3>2. Sound => MoneyStep(o, p, idle, d, h)
      BY ONLY <1>1, <1>5, <2>1, <2>2, o \in Orders, ReturnIsMoneyStep
    <3> QED BY <1>2, <1>3, <1>4, <2>1, <2>2, <3>1, <3>2
  <2>3. CASE ~d.refunded /\ Goto(o, p, "credit") /\ NoFault
             /\ Write(o, [d EXCEPT !.refunded = TRUE])
    <3> DEFINE t1 == [t EXCEPT !.pc = "credit"]
    <3>0. t1.pc = "credit"
      BY <1>1 DEF Tasks
    <3>1. RuledNow([d EXCEPT !.refunded = TRUE], t1, h, 0)
      BY ONLY <1>3, <2>1, <2>3, PollRefundRules
    <3>2. Sound => MoneyStep(o, p, t1, [d EXCEPT !.refunded = TRUE], h)
      <4> HIDE DEF t1
      <4> QED BY ONLY <1>1, <1>5, <2>1, <2>3, <3>0, o \in Orders, ClaimIsMoneyStep
    <3>3. Become(o, p, t1)
      BY <2>3 DEF Goto
    <3> HIDE DEF t1
    <3> QED BY <1>2, <1>3, <2>1, <2>3, <3>1, <3>2, <3>3
  <2>4. CASE Fault /\ NotRefunded(o, p, "rollback") /\ UNCHANGED order
    <3>1. RuledNow(d, idle, h, 1)
      BY ONLY <2>1, PollRefundRules DEF idle
    <3> QED BY <1>2, <1>3, <1>4, <2>1, <2>4, <3>1
  <2> QED BY <1>7, <2>2, <2>3, <2>4 DEF RefundClaim
<1>8. CASE RefundCredit(o, p)
  <2>1. /\ t.pc = "credit" /\ Calm /\ NoFault /\ held'[o] = h - Charge
        /\ UNCHANGED <<order, sale>> /\ Return(o, p)
    BY <1>8 DEF RefundCredit, PC, TypeOK
  <2>2. RuledNow(d, idle, h - Charge, 0)
    BY ONLY <1>3, <2>1, PollRefundRules DEF idle
  <2>3. Sound => MoneyStep(o, p, idle, d, h - Charge)
    BY ONLY <1>1, <1>5, <2>1, o \in Orders, CreditIsMoneyStep
  <2> QED BY <1>2, <1>3, <1>4, <2>1, <2>2, <2>3
<1>9. CASE RefundCreditFails(o, p)
  <2>1. /\ t.pc = "credit" /\ Calm /\ Fault /\ UNCHANGED <<order, sale>>
        /\ Become(o, p, [t EXCEPT !.pc = "reset"])
    BY <1>9 DEF RefundCreditFails, PC, Goto
  <2>2. RuledNow(d, [t EXCEPT !.pc = "reset"], held'[o], 1)
    BY ONLY <2>1, PollRefundRules
  <2> QED BY <1>2, <1>3, <2>1, <2>2
<1>10. CASE RefundReset(o, p)
  <2>1. t.pc = "reset" /\ Calm /\ UNCHANGED <<held, sale>> /\ NotRefunded(o, p, "rollback")
    BY <1>10 DEF RefundReset, PC
  <2>2. CASE Write(o, [d EXCEPT !.refunded = FALSE]) /\ NoFault
    <3>1. RuledNow([d EXCEPT !.refunded = FALSE], idle, h, 0)
      BY ONLY <1>3, <2>1, <2>2, PollRefundRules DEF idle
    <3>2. ~Sound
      BY ONLY <1>1, <1>5, <2>1 DEF Money
    <3> QED BY <1>2, <1>3, <1>4, <2>1, <2>2, <3>1, <3>2
  <2>3. CASE Fault /\ UNCHANGED order
    <3>1. RuledNow(d, idle, h, 1)
      BY ONLY <2>1, PollRefundRules DEF idle
    <3> QED BY <1>2, <1>3, <1>4, <2>1, <2>3, <3>1
  <2> QED BY <1>10, <2>2, <2>3 DEF RefundReset
<1>11. CASE ProcessOrderRefund(o, p)
  <2> DEFINE amount == RefundAmount(t.reply.remains)
  <2>1. t.pc = "partial" /\ Calm /\ UNCHANGED sale /\ Become(o, p, idle)
    BY <1>11, PollersAssumption DEF ProcessOrderRefund, PC, Finish, Rest, idle
  <2>2. amount \in 0 .. Charge
    BY TaskType, WorkerTypes, RefundAmountType DEF Replies
  <2>3. \/ /\ ~d.refunded /\ amount > 0
           /\ Write(o, [d EXCEPT !.refunded = TRUE])
           /\ held' = [held EXCEPT ![o] = @ - amount]
           /\ NoFault
        \/ /\ d.refunded \/ amount <= 0
           /\ NoFault /\ UNCHANGED <<order, held>>
        \/ Fault /\ UNCHANGED <<order, held>>
    BY <1>11 DEF ProcessOrderRefund
  <2> HIDE DEF amount
  <2>4. CASE /\ ~d.refunded /\ amount > 0 /\ Write(o, [d EXCEPT !.refunded = TRUE])
             /\ held' = [held EXCEPT ![o] = @ - amount] /\ NoFault
    <3>1. RuledNow([d EXCEPT !.refunded = TRUE], idle, h - amount, 0)
      BY ONLY <1>3, <2>1, <2>2, <2>4, PartialRules DEF idle
    <3>2. Sound => MoneyStep(o, p, idle, [d EXCEPT !.refunded = TRUE], h - amount)
      <4>1. amount \in Nat
        BY <2>2, ChargeAssumption
      <4> QED BY ONLY <1>1, <1>5, <2>1, <2>4, <4>1, o \in Orders, PartialIsMoneyStep
    <3>3. held'[o] = h - amount
      BY <2>4 DEF TypeOK
    <3> QED BY <1>2, <1>3, <2>1, <2>4, <3>1, <3>2, <3>3
  <2>5. CASE (d.refunded \/ amount <= 0) /\ NoFault /\ UNCHANGED <<order, held>>
    <3>1. RuledNow(d, idle, h, 0)
      BY ONLY <1>3, <2>1, <2>2, <2>5, PartialRules DEF idle
    <3>2. Sound => MoneyStep(o, p, idle, d, h)
      BY ONLY <1>1, <1>5, <2>1, o \in Orders, ReturnIsMoneyStep
    <3> QED BY <1>2, <1>3, <2>1, <2>5, <3>1, <3>2
  <2>6. CASE Fault /\ UNCHANGED <<order, held>>
    <3>1. RuledNow(d, idle, h, 1)
      BY ONLY <2>1, <2>2, PartialRules DEF idle
    <3> QED BY <1>2, <1>3, <2>1, <2>6, <3>1
  <2> QED BY <2>3, <2>4, <2>5, <2>6
<1> QED BY <1>7, <1>8, <1>9, <1>10, <1>11 DEF Refund

\* Refunds write the flag only.
LEMMA RefundKeepsStatus ==
  ASSUME TypeOK, NEW o \in Orders, NEW v \in Workers, Refund(o, v)
  PROVE  order'[o].status = order[o].status /\ order'[o].retry = order[o].retry
BY TaskType DEF Refund, RefundClaim, RefundCredit, RefundCreditFails, RefundReset,
                ProcessOrderRefund, Write, TypeOK, Docs

\* An administrator's refund needs a request.
LEMMA AdminRefundKeepsRules ==
  ASSUME TypeOK, TypeOK', NEW o \in Orders, NEW a \in Admins, Refund(o, a), Rules(o)
  PROVE  Rules(o)'
<1>1. PC(o, a) # "idle" /\ Calm
  BY DEF Refund, RefundClaim, RefundCredit, RefundCreditFails, RefundReset, ProcessOrderRefund
<1>2. requests' # 0
  <2>1. Rest(a).pc = "idle"
    BY AdminsAssumption DEF Rest, At
  <2> QED BY <1>1, <2>1 DEF Rules, PC, Calm
<1>3. task'[o]["exec"] = task[o]["exec"] /\ \A p \in Pollers : task'[o][p] = task[o][p]
  <2>1. a # "exec" /\ a \notin Pollers
    BY AdminsAssumption, PollersAssumption
  <2> QED BY <2>1, WorkerTypes DEF Refund, RefundClaim, RefundCredit, RefundCreditFails, RefundReset,
              ProcessOrderRefund, Return, NotRefunded, Goto, Finish, Become, TypeOK
<1>4. order'[o].status = order[o].status /\ order'[o].retry = order[o].retry
  BY WorkerTypes, RefundKeepsStatus
<1> QED BY <1>1, <1>2, <1>3, <1>4, RequestKeepsRules DEF Calm

LEMMA RefundKeepsRules ==
  ASSUME TypeOK, TypeOK', NEW o \in Orders, NEW v \in Workers, Refund(o, v), Rules(o)
  PROVE  Rules(o)'
BY ExecRefundKeepsRules, PollRefundKeepsRules, AdminRefundKeepsRules DEF Workers, Serving
-----------------------------------------------------------------------------
(* The pollers *)

LEMMA PollElsewhere ==
  ASSUME TypeOK, NEW o \in Orders, NEW p \in Pollers, Poll(o, p)
  PROVE  Later /\ \A q \in Orders \ {o} : Same(q)
<1> USE WorkerTypes DEF Same, Become, Goto, Finish, Write, TypeOK
<1>0. Later /\ kind' = kind /\ shared' = shared
  BY CalmIsLater DEF Poll, PollAsk, PollXenaMissing, PollLookup, PollCheck, PollSkip, PollApply
<1>1. CASE PollXenaMissing(o, p)
  BY <1>0, <1>1 DEF PollXenaMissing
<1>2. CASE PollLookup(o, p)
  BY <1>0, <1>2 DEF PollLookup
<1>3. CASE PollCheck(o, p)
  BY <1>0, <1>3 DEF PollCheck
<1>4. CASE PollSkip(o, p)
  BY <1>0, <1>4 DEF PollSkip
<1>5. CASE PollApply(o, p)
  BY <1>0, <1>5 DEF PollApply
<1> QED BY <1>1, <1>2, <1>3, <1>4, <1>5 DEF Poll, PollAsk

\* What the cycle's query finds: an order the executor is done with, but for a
\* Xena order without an id.
LEMMA StartRules ==
  ASSUME NEW k, NEW d, NEW e, NEW p, NEW s, NEW h, NEW r, NEW f, NEW c,
         Lawful(k, d, e, p, s, h, r, f, c), p.pc = "idle", Pollable(k, d)
  PROVE  Ruled(k, d, e, [At("check") EXCEPT !.saw = d], s, h, r, f, c)
<1> DEFINE p1 == [At("check") EXCEPT !.saw = d]
<1>1. p1.pc = "check" /\ p1.saw = d
  BY DEF At
<1> HIDE DEF p1
<1>2. d \in Docs
  BY DEF Lawful
<1>3. Counted(d, e)
  BY DEF Lawful, Ruled
<1>4. r = 0 => Automated(k, d, e, p1, s)
  BY <1>1, <1>2 DEF Lawful, Ruled, Automated, Early, XenaMissing, Pollable, Docs
<1>5. r = 0 /\ k = "coin" => CoinSold(d, e, p1, s, h)
  BY DEF Lawful, Ruled, CoinSold, Pollable
<1>6. Undecided(k, d, p1)
  BY DEF Undecided, Pollable
<1>7. r = 0 /\ f = 0 /\ c = 0 => Settling(k, d, e, p1, h)
  BY <1>1, <1>2
     DEF Lawful, Ruled, Automated, Settling, Early, XenaMissing, ToRefund, Pollable, Docs
<1> QED BY <1>3, <1>4, <1>5, <1>6, <1>7 DEF Ruled, p1

LEMMA XenaMissingRules ==
  ASSUME NEW k, NEW d, NEW e, NEW p, NEW s, NEW h, NEW r, NEW f, NEW c,
         Lawful(k, d, e, p, s, h, r, f, c), XenaMissing(k, p)
  PROVE  Ruled(k, [d EXCEPT !.status = "MANUAL_REVIEW"], e, At("idle"), s, h, r, f, c)
<1>1. At("idle").pc = "idle"
  BY DEF Rest, At
<1> QED BY <1>1
     DEF Lawful, Ruled, Counted, Automated, CoinSold, Undecided, Settling, Early, XenaMissing,
         ToRefund, Docs

LEMMA LookupRules ==
  ASSUME NEW k, NEW d, NEW e, NEW p, NEW s, NEW h, NEW r, NEW f, NEW c,
         Lawful(k, d, e, p, s, h, r, f, c), p.pc = "check", k # "xena"
  PROVE  /\ \A p1 : p1.pc = "check" =>
              Ruled(k, [d EXCEPT !.hasId = TRUE, !.lookup = FALSE], e, p1, s, h, r, f, c)
         /\ Ruled(k, [d EXCEPT !.retry = p.saw.retry + 1,
                        !.status = IF p.saw.retry + 1 >= MaxRetry THEN "MANUAL_REVIEW" ELSE @],
                  e, At("idle"), s, h, r, f, c)
<1> DEFINE d1 == [d EXCEPT !.hasId = TRUE, !.lookup = FALSE]
           d2 == [d EXCEPT !.retry = p.saw.retry + 1,
                    !.status = IF p.saw.retry + 1 >= MaxRetry THEN "MANUAL_REVIEW" ELSE @]
<1>1. At("idle").pc = "idle" /\ p.saw.retry + 1 \in Nat /\ MaxRetry \in Nat
  BY MaxRetryAssumption DEF Lawful, Rest, At, Tasks, Docs
<1>2. /\ d1.status = d.status /\ d1.refunded = d.refunded /\ d1.retry = d.retry
      /\ d2.refunded = d.refunded /\ d2.hasId = d.hasId /\ d2.lookup = d.lookup
      /\ \/ d2.status = "MANUAL_REVIEW"
         \/ d2.status = d.status /\ d2.retry < MaxRetry
  BY <1>1 DEF Lawful, Docs
<1> HIDE DEF d1, d2
<1>3. ASSUME NEW p1, p1.pc = "check"
      PROVE  Ruled(k, d1, e, p1, s, h, r, f, c)
  BY <1>2, <1>3
     DEF Lawful, Ruled, Counted, Automated, CoinSold, Undecided, Settling, Early, XenaMissing,
         ToRefund
<1>4. Ruled(k, d2, e, At("idle"), s, h, r, f, c)
  BY <1>1, <1>2
     DEF Lawful, Ruled, Counted, Automated, CoinSold, Undecided, Settling, Early, XenaMissing,
         ToRefund
<1> QED BY <1>3, <1>4 DEF d1, d2

\* What an answer to a status check says of the sale.
LEMMA CheckRepliesAreTrue ==
  ASSUME NEW s \in Sales, NEW y \in CheckReplies(s)
  PROVE  /\ y \in Replies
         /\ y.st \in Ended \cup {"unknown", "working"}
         /\ y.st \in Ended => s = y.st
<1>1. y \in Replies
  BY CheckRepliesType
<1>2. \A st, n : Reply(st, TRUE).st = st /\ [Reply(st, TRUE) EXCEPT !.remains = n].st = st
  BY DEF Reply
<1>3. y.st \in {"unknown", s}
  <2>1. CASE s = "partial"
    <3>1. y = Reply("unknown", TRUE) \/ \E n \in 0 .. Quantity - 1 : y = [Reply(s, TRUE) EXCEPT !.remains = n]
      BY <2>1 DEF CheckReplies
    <3> QED BY <3>1, <1>2
  <2>2. CASE s # "partial"
    BY <1>2, <2>2 DEF CheckReplies
  <2> QED BY <2>1, <2>2
<1> QED BY <1>1, <1>3 DEF Replies, Answers, Sales, Ended

LEMMA CheckRules ==
  ASSUME NEW k, NEW d, NEW e, NEW p, NEW s, NEW h, NEW r, NEW f, NEW c,
         Lawful(k, d, e, p, s, h, r, f, c), p.pc = "check", p.saw.hasId,
         NEW y \in CheckReplies(s)
  PROVE  Ruled(k, d, e, [p EXCEPT !.pc = "apply", !.reply = y], s, h, r, f, c)
<1> DEFINE p1 == [p EXCEPT !.pc = "apply", !.reply = y]
<1>1. p1.pc = "apply" /\ p1.reply = y /\ p1.saw = p.saw
  BY DEF Lawful, Tasks
<1>2. s \in Sales
  BY DEF Lawful
<1> HIDE DEF p1
<1> QED BY <1>1, <1>2, CheckRepliesAreTrue
     DEF Lawful, Ruled, Counted, Automated, CoinSold, Undecided, Settling, Early, XenaMissing,
         ToRefund

LEMMA SkipRules ==
  ASSUME NEW k, NEW d, NEW e, NEW p, NEW s, NEW h, NEW r, NEW f, NEW c,
         Lawful(k, d, e, p, s, h, r, f, c), p.pc = "check"
  PROVE  Ruled(k, d, e, At("idle"), s, h, r, f, c)
<1>1. At("idle").pc = "idle"
  BY DEF Rest, At
<1> QED BY <1>1
     DEF Lawful, Ruled, Counted, Automated, CoinSold, Undecided, Settling, Early, XenaMissing,
         ToRefund

\* What the poller records of an answer.
LEMMA PolledFields ==
  ASSUME NEW d \in Docs, NEW saw \in Docs, NEW y \in Replies
  PROVE  LET d1 == Polled(d, saw, y)
         IN  /\ d1.refunded = d.refunded /\ d1.hasId = d.hasId /\ ~d1.lookup
             /\ d1.status = CASE y.st = "delivered" -> "COMPLETED"
                              [] y.st = "partial"   -> "PARTIAL"
                              [] y.st = "cancelled" -> "FAILED"
                              [] OTHER -> IF saw.retry + 1 < MaxRetry THEN d.status
                                          ELSE IF Uncertain(y) THEN "MANUAL_REVIEW" ELSE "FAILED"
             /\ y.st \notin Ended => d1.retry = saw.retry + 1
<1> DEFINE told == [d EXCEPT !.lookup = FALSE]
           counted == [told EXCEPT !.retry = saw.retry + 1]
<1>1. /\ told \in Docs /\ told.refunded = d.refunded /\ told.hasId = d.hasId
      /\ told.status = d.status /\ told.lookup = FALSE
  BY DEF Docs
<1>2. Polled(d, saw, y) =
        CASE y.st = "delivered" -> [told EXCEPT !.status = "COMPLETED"]
          [] y.st = "partial"   -> [told EXCEPT !.status = "PARTIAL"]
          [] y.st = "cancelled" -> [told EXCEPT !.status = "FAILED"]
          [] OTHER -> IF saw.retry + 1 < MaxRetry THEN counted
                      ELSE [counted EXCEPT !.status = IF Uncertain(y) THEN "MANUAL_REVIEW"
                                                      ELSE "FAILED"]
  BY DEF Polled
<1> HIDE DEF told
<1>3. /\ counted \in Docs /\ counted.refunded = d.refunded /\ counted.hasId = d.hasId
      /\ counted.status = d.status /\ counted.lookup = FALSE
      /\ counted.retry = saw.retry + 1
  BY <1>1 DEF Docs
<1> HIDE DEF counted
<1> QED BY <1>1, <1>2, <1>3 DEF Docs, Ended

LEMMA ApplyRules ==
  ASSUME NEW k, NEW d, NEW e, NEW p, NEW s, NEW h, NEW r, NEW f, NEW c,
         Lawful(k, d, e, p, s, h, r, f, c), p.pc = "apply",
         NEW p1, p1.pc = CASE p.reply.st = "partial" -> "partial"
                           [] p.reply.st = "cancelled" \/
                              (p.reply.st = "working" /\ p.saw.retry + 1 >= MaxRetry) -> "refund"
                           [] OTHER -> "idle"
  PROVE  Ruled(k, Polled(d, p.saw, p.reply), e, p1, s, h, r, f, c)
<1> DEFINE d1 == Polled(d, p.saw, p.reply)
           y == p.reply
<1>1. d \in Docs /\ p.saw \in Docs /\ y \in Replies /\ p.saw.retry + 1 \in Nat /\ MaxRetry \in Nat
  BY MaxRetryAssumption DEF Lawful, Tasks, Docs
<1>2. /\ d1.refunded = d.refunded /\ d1.hasId = d.hasId /\ ~d1.lookup
      /\ d1.status = CASE y.st = "delivered" -> "COMPLETED"
                       [] y.st = "partial"   -> "PARTIAL"
                       [] y.st = "cancelled" -> "FAILED"
                       [] OTHER -> IF p.saw.retry + 1 < MaxRetry THEN d.status
                                   ELSE IF Uncertain(y) THEN "MANUAL_REVIEW" ELSE "FAILED"
      /\ y.st \notin Ended => d1.retry = p.saw.retry + 1
  BY <1>1, PolledFields
<1>3. ~Uncertain(y) <=> y.st \notin {"unknown", "unplaced", "missing"}
  BY DEF Uncertain
<1> HIDE DEF d1
<1>4. Counted(d1, e)
  BY <1>1, <1>2, <1>3 DEF Lawful, Ruled, Counted, Ended
<1>5. r = 0 => Automated(k, d1, e, p1, s)
  BY <1>1, <1>2, <1>3 DEF Lawful, Ruled, Automated, Early, XenaMissing, Ended
<1>6. r = 0 /\ k = "coin" => CoinSold(d1, e, p1, s, h)
  BY DEF Lawful, Ruled, CoinSold
<1>7. r = 0 /\ f = 0 => Undecided(k, d1, p1)
  BY DEF Undecided
<1>8. r = 0 /\ f = 0 /\ c = 0 => Settling(k, d1, e, p1, h)
  BY <1>1, <1>2, <1>3 DEF Lawful, Ruled, Automated, Settling, Early, XenaMissing, ToRefund, Ended
<1> QED BY <1>4, <1>5, <1>6, <1>7, <1>8 DEF Ruled, d1
LEMMA PollKeepsRules ==
  ASSUME TypeOK, TypeOK', NEW o \in Orders, NEW p \in Pollers, Poll(o, p), Rules(o)
  PROVE  Rules(o)'
<1> DEFINE k == kind[o]
           d == order[o]
           e == task[o]["exec"]
           t == task[o][p]
           s == sale[o]
           h == held[o]
           idle == At("idle")
           \* The poller has become t1.
           RuledNow(d1, t1) ==
             \A f \in Nat :
               Lawful(k, d, e, t, s, h, requests, f, crashes)
                 => Ruled(k, d1, e, t1, s, h, requests, f + 0, crashes)
<1>1. d \in Docs /\ t \in Tasks /\ t.saw \in Docs /\ t.reply \in Replies /\ idle.pc = "idle"
  BY TaskType, WorkerTypes DEF At
<1>2. ASSUME NEW d1, NEW t1, Write(o, d1), Become(o, p, t1), t.pc # "idle", RuledNow(d1, t1),
             requests = 0 => MoneyStep(o, p, t1, d1, h)
      PROVE  Rules(o)'
  <2>1. Calm /\ NoFault /\ UNCHANGED <<held, sale>>
    BY DEF Poll, PollAsk, PollXenaMissing, PollLookup, PollCheck, PollSkip, PollApply
  <2>2. faults' = faults + 0
    BY <2>1, CountersType DEF NoFault
  <2> HIDE DEF Ruled, Lawful, MoneyStep
  <2> QED BY <1>2, <2>1, <2>2, PollMoveKeepsRules
<1>3. (Write(o, d) <=> UNCHANGED order) /\ \A f \in Nat : f + 0 = f
  BY RulesAreLawful DEF Write
<1>4. Finish(o, p) <=> Become(o, p, idle)
  BY PollersAssumption DEF Finish, Rest
\* Steps that neither write FAILED nor start or end a refund.
<1>5. ASSUME NEW t1, NEW d1, t.pc \in {"check", "apply"}, t1.pc \in {"check", "apply", "idle"},
             d1.refunded = d.refunded, d1.status \in {d.status, "MANUAL_REVIEW"}
      PROVE  MoneyStep(o, p, t1, d1, h)
  BY <1>5 DEF MoneyStep
<1> HIDE DEF idle
<1>6. CASE PollXenaMissing(o, p)
  <2> DEFINE d1 == [d EXCEPT !.status = "MANUAL_REVIEW"]
  <2>1. XenaMissing(k, t) /\ t.pc = "check" /\ Write(o, d1) /\ Become(o, p, idle)
    BY <1>4, <1>6 DEF PollXenaMissing, XenaMissing, PC
  <2>2. RuledNow(d1, idle)
    BY ONLY <1>3, <2>1, XenaMissingRules DEF idle
  <2>3. d1.refunded = d.refunded /\ d1.status = "MANUAL_REVIEW"
    BY <1>1 DEF Docs
  <2> HIDE DEF d1
  <2>4. MoneyStep(o, p, idle, d1, h)
    BY ONLY <1>1, <1>5, <2>1, <2>3
  <2> QED BY <1>2, <2>1, <2>2, <2>4
<1>7. CASE PollLookup(o, p)
  <2> DEFINE t1 == [t EXCEPT !.saw.hasId = TRUE]
             d1 == [d EXCEPT !.hasId = TRUE, !.lookup = FALSE]
             d2 == [d EXCEPT !.retry = t.saw.retry + 1,
                      !.status = IF t.saw.retry + 1 >= MaxRetry THEN "MANUAL_REVIEW" ELSE @]
  <2>1. t.pc = "check" /\ k # "xena"
    BY <1>7 DEF PollLookup, PC
  <2>2. t1.pc = "check"
    BY <1>1, <2>1 DEF Tasks
  <2>3. \/ Write(o, d1) /\ Become(o, p, t1)
        \/ Write(o, d2) /\ Become(o, p, idle)
    BY <1>4, <1>7 DEF PollLookup
  <2>4. /\ d1.refunded = d.refunded /\ d1.status = d.status
        /\ d2.refunded = d.refunded /\ d2.status \in {d.status, "MANUAL_REVIEW"}
    BY <1>1 DEF Docs
  <2> HIDE DEF t1
  <2>5. RuledNow(d1, t1) /\ RuledNow(d2, idle)
    BY ONLY <1>3, <2>1, <2>2, LookupRules DEF idle
  <2> HIDE DEF d1, d2
  <2>6. MoneyStep(o, p, t1, d1, h) /\ MoneyStep(o, p, idle, d2, h)
    BY ONLY <1>1, <1>5, <2>1, <2>2, <2>4
  <2> QED BY <1>2, <2>1, <2>3, <2>5, <2>6
<1>8. CASE PollCheck(o, p)
  <2>1. t.pc = "check" /\ t.saw.hasId /\ UNCHANGED order
    BY <1>8 DEF PollCheck, PC
  <2>2. PICK y \in CheckReplies(s) : Become(o, p, [t EXCEPT !.pc = "apply", !.reply = y])
    BY <1>8 DEF PollCheck
  <2> DEFINE t1 == [t EXCEPT !.pc = "apply", !.reply = y]
  <2>3. RuledNow(d, t1)
    BY ONLY <1>3, <2>1, y \in CheckReplies(s), CheckRules
  <2>4. t1.pc = "apply"
    BY <1>1 DEF Tasks
  <2> HIDE DEF t1
  <2>5. MoneyStep(o, p, t1, d, h)
    BY ONLY <1>5, <2>1, <2>4
  <2> QED BY <1>2, <1>3, <2>1, <2>2, <2>3, <2>5 DEF t1
<1>9. CASE PollSkip(o, p)
  <2>1. t.pc = "check" /\ UNCHANGED order /\ Become(o, p, idle)
    BY <1>4, <1>9 DEF PollSkip, PC
  <2>2. RuledNow(d, idle)
    BY ONLY <1>3, <2>1, SkipRules DEF idle
  <2>3. MoneyStep(o, p, idle, d, h)
    BY ONLY <1>1, <1>5, <2>1
  <2> QED BY <1>2, <1>3, <2>1, <2>2, <2>3
<1>10. CASE PollApply(o, p)
  <2> DEFINE y == t.reply
             pc == CASE y.st = "partial" -> "partial"
                     [] y.st = "cancelled" \/
                        (y.st = "working" /\ t.saw.retry + 1 >= MaxRetry) -> "refund"
                     [] OTHER -> "idle"
             d1 == Polled(d, t.saw, y)
  <2>1. t.pc = "apply" /\ Write(o, d1)
    BY <1>10 DEF PollApply, PC
  <2>2. PICK t1 : Become(o, p, t1) /\ t1.pc = pc
    <3>1. \/ Become(o, p, idle) /\ pc = "idle"
          \/ Become(o, p, [t EXCEPT !.pc = pc])
      BY <1>4, <1>10 DEF PollApply, Goto
    <3> QED BY <1>1, <3>1 DEF Tasks
  <2>3. RuledNow(d1, t1)
    BY ONLY <1>3, <2>1, <2>2, ApplyRules
  <2>4. requests = 0 => MoneyStep(o, p, t1, d1, h)
    <3>1. /\ d1.refunded = d.refunded
          /\ d1.status = CASE y.st = "delivered" -> "COMPLETED"
                           [] y.st = "partial"   -> "PARTIAL"
                           [] y.st = "cancelled" -> "FAILED"
                           [] OTHER -> IF t.saw.retry + 1 < MaxRetry THEN d.status
                                       ELSE IF Uncertain(y) THEN "MANUAL_REVIEW" ELSE "FAILED"
      BY ONLY <1>1, PolledFields
    <3>2. requests = 0 => y.st \in Ended \cup {"unknown", "working"}
      BY <2>1 DEF Rules, Ruled, Automated
    <3>3. t.saw.retry + 1 \in Nat /\ MaxRetry \in Nat
      BY <1>1, MaxRetryAssumption DEF Docs
    <3> HIDE DEF d1, y
    <3> QED BY ONLY <2>1, <2>2, <3>1, <3>2, <3>3 DEF MoneyStep, Ended, Uncertain
  <2> HIDE DEF d1, pc, y, MoneyStep
  <2> QED BY <1>2, <2>1, <2>2, <2>3, <2>4
<1> QED BY <1>6, <1>7, <1>8, <1>9, <1>10 DEF Poll, PollAsk

\* A poller that takes the order alone starts with all the rules.
LEMMA FreshRules ==
  ASSUME NEW o \in Orders, NEW p \in Pollers, Pollable(kind[o], order[o]),
         Lawful(kind[o], order[o], task[o]["exec"], task[o][p], sale[o], held[o],
                requests, 1, crashes),
         task[o][p].pc = "idle", NEW f, f \in Nat,
         requests = 0 /\ f = 0 /\ crashes = 0 => Money(o)
  PROVE  Ruled(kind[o], order[o], task[o]["exec"], [At("check") EXCEPT !.saw = order[o]],
               sale[o], held[o], requests, f, crashes)
<1> DEFINE t == [At("check") EXCEPT !.saw = order[o]]
           d == order[o]
           e == task[o]["exec"]
<1>1. t.pc = "check" /\ t.saw = d /\ d \in Docs
  BY DEF At, Lawful
<1>2. Ruled(kind[o], d, e, t, sale[o], held[o], requests, 1, crashes)
  BY StartRules
<1> HIDE DEF t
<1>3. Undecided(kind[o], d, t)
  BY DEF Undecided, Pollable
<1>4. ASSUME requests = 0, f = 0, crashes = 0
      PROVE  Settling(kind[o], d, e, t, held[o])
  <2>1. /\ e.pc # "reset" /\ e.pc # "refund" /\ e.pc # "credit" /\ ~d.refunded
        /\ held[o] = Charge /\ d.status = "PROCESSING"
    BY <1>4 DEF Money, Automata, Pollable
  <2>2. Automated(kind[o], d, e, t, sale[o])
    BY <1>2, <1>4 DEF Ruled
  <2>3. d.hasId \/ d.lookup \/ XenaMissing(kind[o], t)
    BY <1>1 DEF Pollable, XenaMissing, Docs
  <2> HIDE DEF d, e
  <2> QED BY ONLY <1>1, <2>1, <2>2, <2>3 DEF Settling, Automated, Early, ToRefund, XenaMissing
<1> HIDE DEF Undecided, Settling
<1> QED BY <1>2, <1>3, <1>4 DEF Ruled, t

LEMMA PollStartKeepsRules ==
  ASSUME TypeOK, TypeOK', NEW p \in Pollers, PollStart(p), NEW o \in Orders, Rules(o)
  PROVE  Rules(o)'
<1> DEFINE t == [At("check") EXCEPT !.saw = order[o]]
           taken == o \in Batch
<1>1. UNCHANGED <<kind, order, held, sale, requests, faults, crashes>>
  BY DEF PollStart, NoFault
<1>2. /\ \A w \in Workers : task'[o][w] = IF taken /\ w = p THEN t ELSE task[o][w]
      /\ p \in Workers /\ p # "exec" /\ p \notin Admins
  BY WorkerTypes, PollersAssumption DEF PollStart, TypeOK
<1>3. /\ taken => Pollable(kind[o], order[o])
      /\ task[o][p].pc = "idle" /\ t.pc = "check"
  BY DEF PollStart, Batch, Holds, PC, At
<1>4. CASE ~taken
  <2>1. o \in shared' <=> o \in shared
    BY <1>4 DEF PollStart
  <2>2. Later
    BY <1>1, CountersType DEF Later
  <2> QED BY <1>1, <1>2, <1>4, <2>1, <2>2, SameKeepsRules DEF Same
<1>5. CASE taken
  <2>0. o \in shared' <=> \E r \in Pollers : Holds(r, o)
    BY <1>5 DEF PollStart
  <2> HIDE DEF t, taken
  <2>1. /\ task'[o]["exec"] = task[o]["exec"] /\ task'[o][p] = t
        /\ \A q \in Pollers \ {p} : task'[o][q] = task[o][q]
        /\ \A a \in Admins : task'[o][a] = task[o][a]
    BY <1>2, <1>5, WorkerTypes, AdminsAssumption, PollersAssumption
  <2>2. ASSUME NEW q \in Pollers
        PROVE  Ruled(kind[o], order[o], task[o]["exec"], task'[o][q], sale[o], held[o],
                     requests, 1, crashes)
    <3>1. CASE q = p
      BY <1>3, <1>5, <2>1, <3>1, RulesAreLawful, StartRules DEF t
    <3>2. CASE q # p
      BY <2>1, <3>2 DEF Rules
    <3> QED BY <3>1, <3>2
  <2>3. ASSUME o \notin shared'
        PROVE  /\ Alone(o, p)'
               /\ Ruled(kind[o], order[o], task[o]["exec"], t, sale[o], held[o],
                        requests, faults, crashes)
    <3>1. Alone(o, p)'
      BY <2>0, <2>1, <2>3 DEF Alone, Holds, PC
    <3>2. requests = 0 /\ faults = 0 /\ crashes = 0 => Money(o)
      BY DEF Rules
    <3> QED BY <1>3, <1>5, <3>1, <3>2, CountersType, RulesAreLawful, FreshRules DEF t
  <2>4. requests = 0 /\ faults = 0 /\ crashes = 0 => Money(o)'
    <3> SUFFICES ASSUME requests = 0, faults = 0, crashes = 0 PROVE Money(o)'
      OBVIOUS
    <3>1. Money(o) /\ p \in Automata /\ order[o] \in Docs /\ held[o] \in Int
      BY DEF Rules, Automata, TypeOK
    <3>2. MoneyStep(o, p, t, order[o], held[o])
      BY <1>3 DEF MoneyStep, t
    <3>3. \A v \in Automata \ {p} : task'[o][v] = task[o][v]
      BY <2>1 DEF Automata
    <3> HIDE DEF MoneyStep, Money
    <3> QED BY <1>1, <2>1, <3>1, <3>2, <3>3, MoneyMove DEF Docs
  <2> HIDE DEF Ruled, Alone, Money
  <2> QED BY ONLY <1>1, <2>1, <2>2, <2>3, <2>4, Rules(o), p \in Pollers DEF Rules
<1> QED BY <1>4, <1>5

-----------------------------------------------------------------------------
(* The provider, a crash, the back office *)

LEMMA ProgressRules ==
  ASSUME NEW k, NEW d, NEW e, NEW p, NEW h, NEW r, NEW f, NEW c,
         Lawful(k, d, e, p, "working", h, r, f, c), NEW s \in Ended
  PROVE  Ruled(k, d, e, p, s, h, r, f, c)
BY DEF Lawful, Ruled, Automated, CoinSold, Ended

LEMMA ProgressKeepsRules ==
  ASSUME TypeOK, TypeOK', NEW o \in Orders, SaleProgress(o), NEW q \in Orders, Rules(q)
  PROVE  Rules(q)'
<1>1. /\ Later /\ shared' = shared
      /\ UNCHANGED <<kind, order, held, task, requests, faults, crashes>>
  BY CalmIsLater DEF SaleProgress, Calm, NoFault
<1>2. PICK s \in Ended : sale' = [sale EXCEPT ![o] = s]
  BY DEF SaleProgress
<1>3. CASE q = o
  <2>1. sale[o] = "working" /\ sale'[o] = s
    BY <1>2 DEF SaleProgress, TypeOK
  <2>2. ASSUME NEW p \in Pollers, NEW f,
               Lawful(kind[o], order[o], task[o]["exec"], task[o][p], sale[o], held[o],
                      requests, f, crashes)
        PROVE  Ruled(kind[o], order[o], task[o]["exec"], task[o][p], sale'[o], held[o],
                     requests, f, crashes)
    BY <2>1, <2>2, ProgressRules
  <2>3. /\ \A p \in Pollers :
             Ruled(kind[o], order[o], task[o]["exec"], task[o][p], sale'[o], held[o],
                   requests, 1, crashes)
        /\ o \notin shared => \E p \in Pollers :
             /\ Alone(o, p)
             /\ Ruled(kind[o], order[o], task[o]["exec"], task[o][p], sale'[o], held[o],
                      requests, faults, crashes)
    BY <1>3, <2>2, RulesAreLawful
  <2>4. (\A p \in Pollers : Alone(o, p) => Alone(o, p)') /\ (Money(o) => Money(o)')
    BY <1>1 DEF Alone, Money
  <2> HIDE DEF Ruled, Alone, Money
  <2> QED BY ONLY <1>1, <1>3, <2>3, <2>4, Rules(q) DEF Rules
<1>4. CASE q # o
  BY <1>1, <1>2, <1>4, SameKeepsRules DEF Same, TypeOK
<1> QED BY <1>3, <1>4

\* A crash ends some of the tasks.
LEMMA CrashRules ==
  ASSUME NEW k, NEW d, NEW e, NEW p, NEW s, NEW h, NEW r, NEW f, NEW c,
         Lawful(k, d, e, p, s, h, r, f, c),
         NEW e1 \in {e, Rest("exec")}, NEW p1 \in {p, At("idle")}
  PROVE  Ruled(k, d, e1, p1, s, h, r, f, c + 1)
<1>1. Rest("exec").pc = "done" /\ At("idle").pc = "idle"
  BY DEF Rest, At
<1> QED BY <1>1 DEF Lawful, Ruled, Counted, Automated, CoinSold, Undecided, Early, XenaMissing

LEMMA CrashKeepsRules ==
  ASSUME TypeOK, TypeOK', NEW v \in Pollers, Crash(v), NEW o \in Orders, Rules(o)
  PROVE  Rules(o)'
<1>1. /\ \A w \in Workers : task'[o][w] \in {task[o][w], Rest(w)}
      /\ crashes' = crashes + 1 /\ crashes + 1 # 0
      /\ UNCHANGED <<kind, order, held, sale, shared, requests, faults>>
  BY CountersType DEF Crash
<1>2. /\ task'[o]["exec"] \in {task[o]["exec"], Rest("exec")}
      /\ \A p \in Pollers : task'[o][p] \in {task[o][p], At("idle")}
      /\ \A a \in Admins : task'[o][a] \in {task[o][a], Rest(a)}
  BY <1>1, WorkerTypes, PollersAssumption DEF Rest
<1>3. /\ \A p \in Pollers :
           Ruled(kind[o], order[o], task'[o]["exec"], task'[o][p], sale[o], held[o],
                 requests, 1, crashes + 1)
      /\ o \notin shared => \E p \in Pollers :
           /\ Alone(o, p)
           /\ Ruled(kind[o], order[o], task'[o]["exec"], task'[o][p], sale[o], held[o],
                    requests, faults, crashes + 1)
  BY <1>2, RulesAreLawful, CrashRules
<1>4. \A p \in Pollers : Alone(o, p) => Alone(o, p)'
  <2>1. At("idle").pc = "idle"
    BY DEF At
  <2> QED BY <1>2, <2>1 DEF Alone
<1> HIDE DEF Ruled, Alone
<1> QED BY ONLY <1>1, <1>2, <1>3, <1>4, Rules(o) DEF Rules

LEMMA AdministerIsRequested ==
  ASSUME TypeOK, NEW o \in Orders, NEW a \in Admins, Administer(o, a), Rules(o)
  PROVE  requests' # 0
<1>1. Request(o, a) \/ (PC(o, a) # "idle" /\ Calm)
  BY DEF Administer, FailOrder, RefundOrder, SyncRead, SyncCheck, SyncSave, CompleteRead,
         CompleteDebit, CompleteSave, MarkCompletedRead, MarkCompletedSave, ResolveDelivered,
         ResolveRefund, Rollback, Serve
<1>2. Rest(a).pc = "idle"
  BY AdminsAssumption DEF Rest, At
<1> QED BY <1>1, <1>2, CountersType DEF Rules, Request, Calm, PC

LEMMA AdministerKeepsRules ==
  ASSUME TypeOK, TypeOK', NEW o \in Orders, NEW a \in Admins, Administer(o, a),
         NEW q \in Orders, Rules(o), Rules(q)
  PROVE  Rules(q)'
<1> USE DEF Administer, FailOrder, RefundOrder, SyncRead, SyncCheck, SyncSave, CompleteRead,
            CompleteDebit, CompleteSave, MarkCompletedRead, MarkCompletedSave, ResolveDelivered,
            ResolveRefund, Rollback, Serve, MarkOrderAsFailed
<1>2. requests' # 0
  BY AdministerIsRequested
<1>3. task'[q]["exec"] = task[q]["exec"] /\ \A p \in Pollers : task'[q][p] = task[q][p]
  <2>1. a # "exec" /\ a \notin Pollers
    BY AdminsAssumption, PollersAssumption
  <2>2. UNCHANGED task \/ \E t : Become(o, a, t)
    BY DEF Goto, Finish
  <2> QED BY ONLY <2>1, <2>2, TypeOK, WorkerTypes, a \in Admins DEF Become, TypeOK
<1>4. order'[q].status = "PROCESSING" =>
        order[q].status = "PROCESSING" /\ order'[q].retry = order[q].retry
  <2>1. UNCHANGED order \/ \E doc : Write(o, doc) /\ doc.status # "PROCESSING"
    <3>1. order[o] \in Docs
      BY TaskType, WorkerTypes
    <3>2. /\ \A st \in Statuses : [order[o] EXCEPT !.status = st].status = st
          /\ \A b : \A st \in Statuses :
              [order[o] EXCEPT !.status = st, !.refunded = b].status = st
      BY <3>1 DEF Docs
    <3>3. \A y : SyncStatus(y) \in Statuses \ {"PROCESSING"}
      BY DEF SyncStatus, Statuses
    <3>4. CASE CompleteSave(o, a)
      <4> DEFINE doc(b) == [order[o] EXCEPT !.status = "COMPLETED", !.refunded = b]
      <4>1. UNCHANGED order \/ \E b : Write(o, doc(b))
        BY ONLY <3>4 DEF CompleteSave
      <4>2. \A b : doc(b).status = "COMPLETED"
        BY ONLY <3>2 DEF Statuses
      <4> HIDE DEF doc
      <4> QED BY ONLY <4>1, <4>2
    <3>5. CASE SyncSave(o, a)
      <4> DEFINE doc(y) == [order[o] EXCEPT !.status = SyncStatus(y)]
      <4>1. UNCHANGED order \/ \E y : Write(o, doc(y))
        BY ONLY <3>5 DEF SyncSave
      <4>2. \A y : doc(y).status # "PROCESSING"
        BY ONLY <3>2, <3>3
      <4> HIDE DEF doc
      <4> QED BY ONLY <4>1, <4>2
    <3>6. CASE FailOrder(o, a) \/ RefundOrder(o, a)
      BY ONLY <3>6, <3>2 DEF FailOrder, RefundOrder, MarkOrderAsFailed, Statuses
    <3>7. CASE MarkCompletedSave(o, a) \/ ResolveDelivered(o, a) \/ ResolveRefund(o, a) \/ Rollback(o, a)
      BY ONLY <3>7, <3>2 DEF MarkCompletedSave, ResolveDelivered, ResolveRefund, Rollback, Statuses
    <3>8. CASE \/ SyncRead(o, a) \/ SyncCheck(o, a) \/ CompleteRead(o, a) \/ CompleteDebit(o, a)
               \/ MarkCompletedRead(o, a)
      BY ONLY <3>8 DEF SyncRead, SyncCheck, CompleteRead, CompleteDebit, MarkCompletedRead
    <3> QED BY ONLY <3>4, <3>5, <3>6, <3>7, <3>8, Administer(o, a) DEF Administer
  <2> QED BY ONLY <2>1, TypeOK, o \in Orders DEF Write, TypeOK
<1>5. shared' = shared
  BY DEF Request, Calm
<1> QED BY ONLY <1>2, <1>3, <1>4, <1>5, TypeOK, q \in Orders, Rules(q), RequestKeepsRules

-----------------------------------------------------------------------------
(* The invariant *)

LEMMA InitRules == Init => AInv
<1> SUFFICES ASSUME Init, NEW o \in Orders PROVE Rules(o)
  BY InitTypes DEF AInv
<1>1. /\ order[o] = NewDoc(kind[o]) /\ held[o] = Charge /\ sale[o] = "none"
      /\ task[o]["exec"].pc = (IF kind[o] # "manual" THEN "start" ELSE "done")
      /\ \A p \in Pollers : task[o][p].pc = "idle"
      /\ \A a \in Admins : task[o][a] = Rest(a)
  BY WorkerTypes, AdminsAssumption, PollersAssumption DEF Init, Rest, At
<1>2. ASSUME NEW p \in Pollers, NEW f
      PROVE  Ruled(kind[o], order[o], task[o]["exec"], task[o][p], sale[o], held[o],
                   requests, f, crashes)
  BY <1>1, MaxRetryAssumption
     DEF Ruled, Counted, Automated, CoinSold, Undecided, Settling, Early, XenaMissing,
         ToRefund, NewDoc
<1>3. \A p \in Pollers : Alone(o, p)
  BY <1>1 DEF Alone
<1>4. Money(o)
  BY <1>1 DEF Money, Automata, NewDoc
<1>5. PICK p \in Pollers : TRUE
  BY PollersAssumption
<1> HIDE DEF Ruled, Alone, Money
<1> QED BY <1>1, <1>2, <1>3, <1>4, <1>5 DEF Rules

LEMMA NextKeepsRules == AInv /\ [Next]_vars => AInv'
<1> SUFFICES ASSUME AInv, [Next]_vars, NEW q \in Orders PROVE Rules(q)'
  BY NextKeepsTypes DEF AInv
<1>1. TypeOK /\ TypeOK' /\ \A o \in Orders : Rules(o)
  BY NextKeepsTypes DEF AInv
<1>2. ASSUME NEW o \in Orders, Execute(o) PROVE Rules(q)'
  BY <1>1, <1>2, ExecuteElsewhere, ExecuteKeepsRules, SameKeepsRules
<1>3. ASSUME NEW o \in Orders, NEW p \in Pollers, Poll(o, p) PROVE Rules(q)'
  BY <1>1, <1>3, PollElsewhere, PollKeepsRules, SameKeepsRules
<1>4. ASSUME NEW o \in Orders, NEW v \in Workers, Refund(o, v) PROVE Rules(q)'
  BY <1>1, <1>4, RefundElsewhere, RefundKeepsRules, SameKeepsRules
<1>5. ASSUME NEW o \in Orders, NEW a \in Admins, Administer(o, a) PROVE Rules(q)'
  BY <1>1, <1>5, AdministerKeepsRules
<1>6. ASSUME NEW o \in Orders, SaleProgress(o) PROVE Rules(q)'
  BY <1>1, <1>6, ProgressKeepsRules
<1>7. ASSUME NEW p \in Pollers, PollStart(p) PROVE Rules(q)'
  BY <1>1, <1>7, PollStartKeepsRules
<1>8. ASSUME NEW p \in Pollers, Crash(p) PROVE Rules(q)'
  BY <1>1, <1>8, CrashKeepsRules
<1>9. CASE UNCHANGED vars
  <2>1. Later /\ Same(q)
    BY <1>1, <1>9, CountersType DEF vars, Same, Later
  <2> QED BY <1>1, <2>1, SameKeepsRules
<1> QED BY <1>2, <1>3, <1>4, <1>5, <1>6, <1>7, <1>8, <1>9 DEF Next

LEMMA Automation == Spec => []AInv
BY InitRules, NextKeepsRules, PTL DEF Spec

\* The poller never finds an order at the retry limit, whoever acts and
\* whatever fails: the check that uses up the limit also decides the order.
THEOREM LimitDecides == Spec => []KillSwitchIdle
<1>1. AInv => KillSwitchIdle
  BY PollersAssumption DEF AInv, Rules, Ruled, Counted, KillSwitchIdle, Pollable
<1> QED BY <1>1, Automation, PTL

\* Executor and pollers complete an order only on goods that were delivered, at
\* least in part, through crashes and failing writes.
THEOREM CompletedOrdersWereSold == Spec => []CompletedWasSold
<1>1. AInv => CompletedWasSold
  BY PollersAssumption DEF AInv, Rules, Ruled, Automated, CompletedWasSold
<1> QED BY <1>1, Automation, PTL

\* A coin recharge that was delivered stays paid for, through crashes and
\* failing writes: the automation refunds it only when it was not sold.
THEOREM DeliveredCoinsStayPaid == Spec => []DeliveredCoinIsPaid
<1>1. AInv => DeliveredCoinIsPaid
  BY PollersAssumption DEF AInv, Rules, Ruled, CoinSold, DeliveredCoinIsPaid
<1> QED BY <1>1, Automation, PTL

\* When nothing failed and nobody interfered, the flag of an order that is at
\* rest says whether money went back, and a failed order was refunded, however
\* many processes polled it; unless their cycles overlapped on the order, its
\* status says so too.
THEOREM StatusTellsTheMoney == Spec => []AutomationSettles
<1>1. ASSUME AInv, NEW o \in Orders, Quiet(o), Untroubled, requests = 0
      PROVE  /\ order[o].refunded <=> held[o] < Charge
             /\ order[o].status = "FAILED" => order[o].refunded
             /\ o \notin shared =>
                  /\ order[o].refunded =>
                       \/ order[o].status \in {"FAILED", "PARTIAL"}
                       \/ (kind[o] = "xena" /\ order[o].status = "MANUAL_REVIEW")
                  /\ order[o].status # "PARTIAL" => held[o] \in {0, Charge}
  <2>1. /\ Money(o) /\ requests = 0 /\ faults = 0 /\ crashes = 0
        /\ order[o].refunded \in BOOLEAN /\ held[o] \in Int
    BY <1>1 DEF AInv, Rules, Untroubled, TypeOK, Docs
  <2>2. task[o]["exec"].pc = "done" /\ \A p \in Pollers : task[o][p].pc = "idle"
    <3>1. Rest("exec").pc = "done" /\ \A p \in Pollers : Rest(p).pc = "idle"
      BY PollersAssumption DEF Rest, At
    <3> QED BY ONLY <1>1, <3>1, WorkerTypes DEF Quiet
  <2>3. \A w \in Automata : task[o][w].pc \notin {"credit", "refund"}
    BY <2>2 DEF Automata
  <2>4. /\ order[o].refunded <=> held[o] < Charge
        /\ order[o].status = "FAILED" => order[o].refunded
        /\ ~order[o].refunded => held[o] = Charge
    BY ONLY <2>1, <2>3, ChargeAssumption DEF Money
  <2>5. ASSUME o \notin shared
        PROVE  \E p \in Pollers :
                 Settling(kind[o], order[o], task[o]["exec"], task[o][p], held[o])
    BY <1>1, <2>1, <2>5 DEF AInv, Rules, Ruled
  <2> QED BY ONLY <2>1, <2>2, <2>4, <2>5 DEF Settling, ToRefund
<1>2. AInv => AutomationSettles
  BY <1>1 DEF AutomationSettles
<1> QED BY <1>2, Automation, PTL

-----------------------------------------------------------------------------
(* Outcomes *)

\* A step of the executor, or of the one poller that has the order, changes no
\* decided order.
LEMMA ExecuteKeepsOutcome ==
  ASSUME TypeOK, NEW o \in Orders, Execute(o), Rules(o), kind[o] # "xena",
         requests' = 0, faults' = 0, order[o].status # "PROCESSING"
  PROVE  order'[o].status = order[o].status
<1>1. requests = 0 /\ ~Fault
  <2>1. Calm
    BY DEF Execute, ExecClaim, ExecUnresolved, ExecPlace, ExecRecord, ExecReturn, ExecCrashGuard
  <2> QED BY ONLY <2>1, CountersType, TypeOK, requests' = 0, faults' = 0 DEF Calm, Fault
<1>2. PC(o, "exec") \notin {"place", "placed"}
  BY <1>1, PollersAssumption DEF Rules, Ruled, Automated, Early, PC
<1> QED BY <1>1, <1>2 DEF Execute, ExecClaim, ExecUnresolved, ExecPlace, ExecRecord, ExecReturn,
                          ExecCrashGuard

LEMMA PollKeepsOutcome ==
  ASSUME TypeOK, NEW o \in Orders, NEW p \in Pollers, Poll(o, p), Rules(o), kind[o] # "xena",
         o \notin shared, requests' = 0, faults' = 0, order[o].status # "PROCESSING"
  PROVE  order'[o].status = order[o].status
<1>1. requests = 0 /\ faults = 0
  BY DEF Poll, PollAsk, PollXenaMissing, PollLookup, PollCheck, PollSkip, PollApply, Calm, NoFault
<1>2. PC(o, p) \notin {"check", "apply"}
  <2>1. PICK q \in Pollers : Alone(o, q) /\ Undecided(kind[o], order[o], task[o][q])
    BY <1>1 DEF Rules, Ruled
  <2>2. CASE q = p
    BY <2>1, <2>2 DEF Undecided, PC
  <2>3. CASE q # p
    BY <2>1, <2>3 DEF Alone, PC
  <2> QED BY <2>2, <2>3
<1> QED BY <1>2 DEF Poll, PollAsk, PollXenaMissing, PollLookup, PollCheck, PollSkip, PollApply

\* Executor and pollers never overwrite an outcome, of their own or of each
\* other, through crashes, as long as no polling cycles overlap on the order
\* and no database operation fails; Xena orders excepted.
THEOREM OutcomesStand == Spec => OutcomeIsFinal
<1> DEFINE Final ==
      \A o \in Orders :
        /\ kind[o] # "xena" /\ o \notin shared /\ requests' = 0 /\ faults' = 0
        /\ order[o].status \in {"COMPLETED", "FAILED", "PARTIAL", "MANUAL_REVIEW"}
        => order'[o].status = order[o].status
<1>1. AInv /\ [Next]_vars => [Final]_vars
  <2> SUFFICES ASSUME AInv, Next, NEW q \in Orders, kind[q] # "xena", q \notin shared,
                      requests' = 0, faults' = 0, order[q].status # "PROCESSING"
               PROVE  order'[q].status = order[q].status
    BY DEF vars
  <2>1. TypeOK /\ \A o \in Orders : Rules(o)
    BY DEF AInv
  <2>2. ASSUME NEW o \in Orders, Execute(o) PROVE order'[q].status = order[q].status
    BY <2>1, <2>2, ExecuteElsewhere, ExecuteKeepsOutcome DEF Same
  <2>3. ASSUME NEW o \in Orders, NEW p \in Pollers, Poll(o, p)
        PROVE  order'[q].status = order[q].status
    BY <2>1, <2>3, PollElsewhere, PollKeepsOutcome DEF Same
  <2>4. ASSUME NEW o \in Orders, NEW v \in Workers, Refund(o, v)
        PROVE  order'[q].status = order[q].status
    BY <2>1, <2>4, RefundElsewhere, RefundKeepsStatus DEF Same
  <2>5. ASSUME NEW o \in Orders, NEW a \in Admins, Administer(o, a) PROVE FALSE
    BY <2>1, <2>5, AdministerIsRequested
  <2>6. CASE \/ \E o \in Orders : SaleProgress(o)
             \/ \E p \in Pollers : PollStart(p) \/ Crash(p)
    BY <2>6 DEF SaleProgress, PollStart, Crash
  <2> QED BY <2>2, <2>3, <2>4, <2>5, <2>6 DEF Next
<1>2. OutcomeIsFinal <=> [][Final]_vars
  BY DEF OutcomeIsFinal
<1> HIDE DEF Final
<1> QED BY <1>1, <1>2, Automation, PTL DEF Spec
=============================================================================
