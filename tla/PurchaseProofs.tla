--------------------------- MODULE PurchaseProofs ---------------------------
(***************************************************************************)
(* Proofs about Purchase for every set of requests, keys, goods and        *)
(* amounts, every deployment, and every bound.                             *)
(***************************************************************************)
EXTENDS Purchase, FiniteSetTheorems, FunctionTheorems, TLAPS

-----------------------------------------------------------------------------
(* Types *)

LEMMA NewTaskType ==
  ASSUME NEW pc \in PCs
  PROVE  NewTask(pc) \in Tasks /\ NewTask(pc).pc = pc /\ NewTask(pc).dup = FALSE
BY DEF NewTask, Tasks

LEMMA TaskType ==
  ASSUME TypeOK, NEW r \in Requests
  PROVE  /\ task[r] \in Tasks
         /\ task[r].pc \in PCs /\ task[r].retry \in BOOLEAN /\ task[r].forced \in BOOLEAN
         /\ task[r].stale \in BOOLEAN /\ task[r].saw \in Int /\ task[r].dup \in BOOLEAN
BY DEF TypeOK, Tasks

\* A task is replaced and no other.
LEMMA BecomeMove ==
  ASSUME TypeOK, NEW r \in Requests, NEW t \in Tasks, task' = [task EXCEPT ![r] = t]
  PROVE  /\ task' \in [Requests -> Tasks] /\ task'[r] = t
         /\ \A q \in Requests : q # r => task'[q] = task[q]
BY DEF TypeOK

\* A task goes on to another place, and keeps everything else.
LEMMA GotoMove ==
  ASSUME TypeOK, NEW r \in Requests, NEW pc \in PCs, Goto(r, pc)
  PROVE  /\ task' \in [Requests -> Tasks]
         /\ task'[r].pc = pc /\ task'[r].dup = task[r].dup
         /\ task'[r].stale = task[r].stale /\ task'[r].saw = task[r].saw
         /\ \A q \in Requests : q # r => task'[q] = task[q]
<1> DEFINE t == [task[r] EXCEPT !.pc = pc]
<1>1. /\ t \in Tasks /\ t.pc = pc /\ t.dup = task[r].dup
      /\ t.stale = task[r].stale /\ t.saw = task[r].saw
  BY TaskType DEF Tasks
<1>2. task' = [task EXCEPT ![r] = t]
  BY DEF Goto
<1> HIDE DEF t
<1> QED BY <1>1, <1>2, BecomeMove

\* A task starts afresh at a place.
LEMMA FreshMove ==
  ASSUME TypeOK, NEW r \in Requests, NEW pc \in PCs,
         task' = [task EXCEPT ![r] = NewTask(pc)]
  PROVE  /\ task' \in [Requests -> Tasks]
         /\ task'[r].pc = pc /\ task'[r].dup = FALSE
         /\ \A q \in Requests : q # r => task'[q] = task[q]
<1>1. NewTask(pc) \in Tasks /\ NewTask(pc).pc = pc /\ NewTask(pc).dup = FALSE
  BY NewTaskType
<1> QED BY <1>1, BecomeMove

\* A request is answered.
LEMMA AnswerMove ==
  ASSUME TypeOK, NEW r \in Requests, NEW a \in Answers, Answer(r, a)
  PROVE  /\ task' \in [Requests -> Tasks]
         /\ task'[r].pc = "done" /\ task'[r].dup = FALSE
         /\ \A q \in Requests : q # r => task'[q] = task[q]
         /\ answer' \in [Requests -> Answers] /\ answer'[r] = a
         /\ \A q \in Requests : q # r => answer'[q] = answer[q]
<1>1. "done" \in PCs
  BY DEF PCs
<1>2. /\ task' = [task EXCEPT ![r] = NewTask("done")]
      /\ answer' = [answer EXCEPT ![r] = a]
  BY DEF Answer
<1> QED BY <1>1, <1>2, FreshMove DEF TypeOK

\* Snapshots grow old, and nothing else changes about the tasks.
LEMMA OutdatedType ==
  ASSUME TypeOK, NEW q \in Requests
  PROVE  /\ Outdated(q) \in Tasks
         /\ Outdated(q).pc = task[q].pc /\ Outdated(q).dup = task[q].dup
         /\ InSession /\ task[q].pc \in {"price", "debit"} => Outdated(q).stale
BY TaskType DEF Outdated, Tasks, PC

\* A request writes the user document, all the others are outdated.
LEMMA WriteMove ==
  ASSUME TypeOK, NEW r \in Requests, NEW pc \in PCs,
         task' = [q \in Requests |-> IF q = r THEN NewTask(pc) ELSE Outdated(q)]
  PROVE  /\ task' \in [Requests -> Tasks]
         /\ task'[r].pc = pc /\ task'[r].dup = FALSE
         /\ \A q \in Requests : q # r =>
              /\ task'[q].pc = task[q].pc /\ task'[q].dup = task[q].dup
              /\ InSession /\ task[q].pc \in {"price", "debit"} => task'[q].stale
<1> DEFINE t == NewTask(pc)
<1>1. t \in Tasks /\ t.pc = pc /\ t.dup = FALSE
  BY NewTaskType
<1>2. \A q \in Requests : Outdated(q) \in Tasks
  BY OutdatedType
<1> HIDE DEF t
<1>3. task' = [q \in Requests |-> IF q = r THEN t ELSE Outdated(q)]
  BY DEF t
<1> QED BY <1>1, <1>2, <1>3, OutdatedType

-----------------------------------------------------------------------------
(* The invariants *)

\* Where the steps of the two ways of working can be.
Places ==
  \A r \in Requests :
    /\ PC(r) = "commit" => InSession
    /\ PC(r) \in {"row", "create", "undo", "undoRow", "lookup"} => ~InSession

\* From the debit on the request has a price, and keeps it.
Prices ==
  \A r \in Requests :
    r \in made \/ PC(r) \in {"debit", "commit", "row", "create", "undo", "undoRow", "lookup"}
      => charge[r] \in Amounts

\* What the balance has lost to each request.
Money ==
  \A r \in Requests :
    /\ taken[r] \in Amounts \cup {0}
    /\ r \in made => PC(r) \in {"respond", "done"} /\ taken[r] = charge[r]
    /\ PC(r) = "respond" => r \in made
    /\ PC(r) \in {"row", "create", "undo"} => taken[r] = charge[r]
    /\ PC(r) \in {"idle", "attempt", "price", "debit", "commit", "undoRow"} => taken[r] = 0
    /\ InSession /\ r \notin made => taken[r] = 0

\* A snapshot that is not outdated shows what is there, and who holds the lock
\* of the user document is alone and will commit to what was checked.
Snapshots ==
  \A r \in Requests :
    /\ InSession /\ PC(r) \in {"price", "debit"} /\ ~task[r].stale
         => task[r].saw = balance /\ WithKey(r) = {}
    /\ PC(r) = "commit" => Covered(r, balance) /\ WithKey(r) = {}
    /\ PC(r) = "commit" => \A q \in Requests : PC(q) = "commit" => q = r

\* A duplicate has met another order, anything else that is undone is due to an
\* accident, and without one nobody pays for an order that does not exist.
Duplicates ==
  \A r \in Requests :
    /\ task[r].dup => WithKey(r) # {} /\ PC(r) \in {"undo", "undoRow", "lookup"}
    /\ PC(r) = "lookup" => task[r].dup
    /\ PC(r) \in {"undo", "undoRow"} /\ ~task[r].dup => Accident
    /\ PC(r) \in {"lookup", "done"} /\ r \notin made /\ ~Accident => taken[r] = 0

\* The inductive invariant.
PInv ==
  /\ TypeOK /\ Places /\ Prices /\ Money /\ Snapshots /\ Duplicates
  /\ CreditLimitHolds
  /\ started \subseteq made
  /\ \A r \in Requests : answer[r] # "none" => PC(r) = "done"
  /\ AnswersAreTrue

-----------------------------------------------------------------------------
(* The requests *)

LEMMA FaultType ==
  ASSUME TypeOK, Fault \/ NoFault
  PROVE  /\ faults' \in Nat /\ faults' >= faults
         /\ Fault => faults' > 0
BY DEF TypeOK, Fault, NoFault

\* A request ends with a true answer.
LEMMA AnswerKeeps ==
  ASSUME PInv, NEW r \in Requests, NEW a \in Answers, a \notin {"none", "lost"}, Answer(r, a),
         PC(r) # "respond" => started' = started,
         started' \subseteq made, Fault \/ NoFault,
         UNCHANGED <<mode, ask, supplier, code, balance, credited, charge, taken, made, crashes>>,
         ledger' \in Int,
         a = "created" => r \in made /\ taken[r] = charge[r],
         a = "existing" => \E o \in WithKey(r) :
                             ask[o].goods = ask[r].goods /\ code[o] = code[r],
         a = "reused" => \E o \in WithKey(r) :
                           ask[o].goods # ask[r].goods \/ code[o] # code[r],
         a \in {"refused", "existing", "reused", "error"} /\ ~Accident'
           => r \notin made /\ taken[r] = 0
  PROVE  PInv'
<1> USE DEF PInv, PC, InSession
<1>1. /\ task' \in [Requests -> Tasks]
      /\ task'[r].pc = "done" /\ task'[r].dup = FALSE
      /\ \A q \in Requests : q # r => task'[q] = task[q]
      /\ answer' \in [Requests -> Answers] /\ answer'[r] = a
      /\ \A q \in Requests : q # r => answer'[q] = answer[q]
  BY AnswerMove
<1>2. /\ faults' \in Nat /\ faults' >= faults /\ crashes' = crashes
      /\ Accident => Accident'
  BY FaultType DEF Accident, TypeOK
<1>3. TypeOK'
  BY <1>1, <1>2 DEF TypeOK
<1>4. Places' /\ Prices' /\ Money'
  BY <1>1 DEF Places, Prices, Money
<1>5. Snapshots'
  BY <1>1 DEF Snapshots, Covered, WithKey
<1>6. Duplicates'
  BY <1>1, <1>2 DEF Duplicates, WithKey, Answers
<1>7. AnswersAreTrue'
  BY <1>1, <1>2 DEF AnswersAreTrue, WithKey
<1> QED BY <1>1, <1>3, <1>4, <1>5, <1>6, <1>7 DEF CreditLimitHolds

\* What Resolve answers is true.
LEMMA ResolveIsTrue ==
  ASSUME NEW r \in Requests, WithKey(r) # {}
  PROVE  /\ Resolve(r) \in {"existing", "reused"}
         /\ Resolve(r) = "existing" => \E o \in WithKey(r) :
                             ask[o].goods = ask[r].goods /\ code[o] = code[r]
         /\ Resolve(r) = "reused" => \E o \in WithKey(r) :
                           ask[o].goods # ask[r].goods \/ code[o] # code[r]
BY DEF Resolve, Matches

LEMMA SubmitKeeps ==
  ASSUME PInv, NEW r \in Requests, Submit(r)
  PROVE  PInv'
<1> USE DEF PInv, Calm, Fixed, WalletSame, NoFault, PC, InSession
<1>1. /\ PC(r) = "idle" /\ Goto(r, "attempt") /\ code' = [code EXCEPT ![r] = supplier]
  BY DEF Submit
<1>2. /\ task' \in [Requests -> Tasks]
      /\ task'[r].pc = "attempt" /\ task'[r].dup = task[r].dup
      /\ \A q \in Requests : q # r => task'[q] = task[q]
  BY <1>1, GotoMove DEF PCs
<1>3. TypeOK'
  BY <1>1, <1>2 DEF Submit, TypeOK
<1>4. /\ UNCHANGED <<mode, ask, balance, charge, taken, made, started, answer, crashes, faults>>
      /\ \A q \in Requests : q # r => code'[q] = code[q]
      /\ r \notin made
  BY <1>1 DEF Submit, TypeOK, Money
<1>5. Places' /\ Prices' /\ Money'
  BY <1>1, <1>2, <1>4 DEF Places, Prices, Money
<1>6. Snapshots'
  BY <1>1, <1>2, <1>4 DEF Snapshots, Covered, WithKey
<1>7. Duplicates'
  BY <1>1, <1>2, <1>4 DEF Duplicates, Accident, WithKey
<1>8. AnswersAreTrue'
  BY <1>1, <1>2, <1>4 DEF AnswersAreTrue, Accident, WithKey
<1> QED BY <1>1, <1>2, <1>3, <1>4, <1>5, <1>6, <1>7, <1>8 DEF CreditLimitHolds

LEMMA AttemptKeeps ==
  ASSUME PInv, NEW r \in Requests, Attempt(r)
  PROVE  PInv'
<1> USE DEF PInv, Calm, Fixed, WalletSame, NoFault, PC, InSession
<1>1. /\ PC(r) = "attempt"
      /\ UNCHANGED <<mode, ask, supplier, code, balance, ledger, credited, charge, taken, made,
                     started, crashes, faults>>
  BY DEF Attempt
<1>2. CASE WithKey(r) # {} /\ ~(mode = "refused" /\ ~task[r].forced)
  <2>1. Answer(r, Resolve(r))
    BY <1>2 DEF Attempt
  <2>2. r \notin made /\ taken[r] = 0
    BY <1>1 DEF Money
  <2> QED BY <1>1, <1>2, <2>1, <2>2, ResolveIsTrue, AnswerKeeps DEF Answers, TypeOK
<1>3. CASE WithKey(r) = {} \/ (mode = "refused" /\ ~task[r].forced)
  <2>1. /\ task' \in [Requests -> Tasks] /\ answer' = answer
        /\ task'[r].pc \in {"attempt", "price"} /\ task'[r].dup = task[r].dup
        /\ InSession /\ task'[r].pc = "price" => task'[r].saw = balance /\ WithKey(r) = {}
        /\ \A q \in Requests : q # r => task'[q] = task[q]
    <3>1. CASE mode = "refused" /\ ~task[r].forced
      <4> DEFINE t == [task[r] EXCEPT !.forced = TRUE, !.retry = TRUE]
      <4>1. t \in Tasks /\ t.pc = "attempt" /\ t.dup = task[r].dup
        BY <1>1, TaskType DEF Tasks
      <4>2. task' = [task EXCEPT ![r] = t] /\ answer' = answer
        BY <3>1 DEF Attempt
      <4> HIDE DEF t
      <4> QED BY <4>1, <4>2, BecomeMove
    <3>2. CASE ~(mode = "refused" /\ ~task[r].forced)
      <4> DEFINE s == IF InSession THEN balance ELSE 0
                 t == [task[r] EXCEPT !.pc = "price", !.stale = FALSE, !.saw = s]
      <4>1. "price" \in PCs /\ s \in Int
        BY DEF PCs, TypeOK
      <4>2. t \in Tasks /\ t.pc = "price" /\ t.dup = task[r].dup /\ t.saw = s
        BY <4>1, TaskType DEF Tasks
      <4>3. task' = [task EXCEPT ![r] = t] /\ answer' = answer
        BY <1>3, <3>2 DEF Attempt
      <4>4. task' \in [Requests -> Tasks] /\ task'[r] = t
            /\ \A q \in Requests : q # r => task'[q] = task[q]
        BY <4>2, <4>3, BecomeMove
      <4> QED BY <1>3, <3>2, <4>2, <4>3, <4>4
    <3> QED BY <3>1, <3>2
  <2>2. TypeOK'
    BY <1>1, <2>1 DEF TypeOK
  <2>3. Places' /\ Prices' /\ Money'
    BY <1>1, <2>1 DEF Places, Prices, Money
  <2>4. Snapshots'
    BY <1>1, <2>1 DEF Snapshots, Covered, WithKey
  <2>5. Duplicates'
    BY <1>1, <2>1 DEF Duplicates, Accident, WithKey
  <2>6. AnswersAreTrue'
    BY <1>1, <2>1 DEF AnswersAreTrue, Accident, WithKey
  <2> QED BY <1>1, <2>1, <2>2, <2>3, <2>4, <2>5, <2>6 DEF CreditLimitHolds
<1> QED BY <1>2, <1>3

LEMMA RefuseKeeps ==
  ASSUME PInv, NEW r \in Requests, Refuse(r)
  PROVE  PInv'
<1>1. /\ PC(r) \in {"attempt", "price"} /\ Answer(r, "refused") /\ NoFault
      /\ UNCHANGED <<mode, ask, supplier, code, balance, ledger, credited, charge, taken, made,
                     started, crashes>>
  BY DEF Refuse, Calm, Fixed, WalletSame
<1>2. r \notin made /\ taken[r] = 0 /\ started \subseteq made /\ ledger \in Int
  BY <1>1 DEF PInv, Money, TypeOK
<1> QED BY <1>1, <1>2, AnswerKeeps DEF Answers

LEMMA PriceKeeps ==
  ASSUME PInv, NEW r \in Requests, Price(r)
  PROVE  PInv'
<1> USE DEF PInv, Calm, Fixed, WalletSame, NoFault, PC, InSession
<1>1. /\ PC(r) = "price" /\ Goto(r, "debit")
      /\ \E c \in Amounts : charge' = [charge EXCEPT ![r] = c]
  BY DEF Price
<1>2. /\ task' \in [Requests -> Tasks]
      /\ task'[r].pc = "debit" /\ task'[r].dup = task[r].dup
      /\ task'[r].stale = task[r].stale /\ task'[r].saw = task[r].saw
      /\ \A q \in Requests : q # r => task'[q] = task[q]
  BY <1>1, GotoMove DEF PCs
<1>3. TypeOK'
  BY <1>1, <1>2, AmountsAssumption DEF Price, TypeOK
<1>4. /\ UNCHANGED <<mode, ask, code, balance, taken, made, started, answer, crashes, faults>>
      /\ \A q \in Requests : q # r => charge'[q] = charge[q]
      /\ charge'[r] \in Amounts
  BY <1>1 DEF Price, TypeOK
<1>5. Places' /\ Prices' /\ Money'
  BY <1>1, <1>2, <1>4 DEF Places, Prices, Money
<1>6. Snapshots'
  BY <1>1, <1>2, <1>4 DEF Snapshots, Covered, WithKey
<1>7. Duplicates'
  BY <1>1, <1>2, <1>4 DEF Duplicates, Accident, WithKey
<1>8. AnswersAreTrue'
  BY <1>1, <1>2, <1>4 DEF AnswersAreTrue, Accident, WithKey, Money
<1> QED BY <1>1, <1>2, <1>3, <1>4, <1>5, <1>6, <1>7, <1>8 DEF CreditLimitHolds

-----------------------------------------------------------------------------
(* With a transaction *)

LEMMA DebitInSessionKeeps ==
  ASSUME PInv, NEW r \in Requests, DebitInSession(r)
  PROVE  PInv'
<1> USE DEF PInv, Calm, Fixed, WalletSame, NoFault, PC, InSession
<1>1. /\ PC(r) = "debit" /\ InSession
      /\ UNCHANGED <<mode, ask, supplier, code, balance, ledger, credited, charge, taken, made,
                     started, crashes, faults>>
  BY DEF DebitInSession
<1>2. CASE Answer(r, "refused") \/ Answer(r, "error")
  <2>1. r \notin made /\ taken[r] = 0 /\ ledger \in Int
    BY <1>1 DEF Money, TypeOK
  <2> QED BY <1>1, <1>2, <2>1, AnswerKeeps DEF Answers
<1>3. CASE /\ ~(Answer(r, "refused") \/ Answer(r, "error"))
  <2>1. /\ task' \in [Requests -> Tasks] /\ answer' = answer
        /\ task'[r].pc \in {"attempt", "commit"} /\ ~task'[r].dup
        /\ task'[r].pc = "commit" => Covered(r, task[r].saw) /\ ~task[r].stale /\ ~Locked
        /\ \A q \in Requests : q # r => task'[q] = task[q]
    <3>1. CASE Covered(r, task[r].saw) /\ (task[r].stale \/ Locked)
      <4> DEFINE t == [NewTask("attempt") EXCEPT !.retry = TRUE]
      <4>1. NewTask("attempt") \in Tasks /\ NewTask("attempt").pc = "attempt"
            /\ NewTask("attempt").dup = FALSE
        BY NewTaskType DEF PCs
      <4>2. t \in Tasks /\ t.pc = "attempt" /\ t.dup = FALSE
        BY <4>1 DEF Tasks
      <4>3. task' = [task EXCEPT ![r] = t] /\ answer' = answer
        BY <1>3, <3>1 DEF DebitInSession, Conflict
      <4> HIDE DEF t
      <4> QED BY <4>2, <4>3, BecomeMove
    <3>2. CASE Covered(r, task[r].saw) /\ ~(task[r].stale \/ Locked)
      <4>1. task' = [task EXCEPT ![r] = NewTask("commit")] /\ answer' = answer
        BY <1>3, <3>2 DEF DebitInSession
      <4> QED BY <3>2, <4>1, FreshMove DEF PCs
    <3> QED BY <1>3, <3>1, <3>2 DEF DebitInSession
  <2>2. TypeOK'
    BY <1>1, <2>1 DEF TypeOK
  <2>3. Places' /\ Prices' /\ Money'
    BY <1>1, <2>1 DEF Places, Prices, Money
  <2>4. Snapshots'
    BY <1>1, <2>1 DEF Snapshots, Covered, WithKey, Locked
  <2>5. Duplicates'
    BY <1>1, <2>1 DEF Duplicates, Accident, WithKey
  <2>6. AnswersAreTrue'
    BY <1>1, <2>1 DEF AnswersAreTrue, Accident, WithKey
  <2> QED BY <1>1, <2>1, <2>2, <2>3, <2>4, <2>5, <2>6 DEF CreditLimitHolds
<1> QED BY <1>2, <1>3

\* Both outcomes of a commit that takes place.
LEMMA CommitsKeep ==
  ASSUME PInv, NEW r \in Requests, PC(r) = "commit", Commits(r), Calm, Fault \/ NoFault,
         UNCHANGED <<code, charge, started>>, NEW pc \in {"respond", "done"},
         task' = [q \in Requests |-> IF q = r THEN NewTask(pc) ELSE Outdated(q)],
         \/ answer' = answer /\ pc = "respond"
         \/ answer' = [answer EXCEPT ![r] = "error"] /\ pc = "done" /\ Fault
  PROVE  PInv'
<1> USE DEF PInv, Calm, Fixed, PC, InSession
<1>1. /\ task' \in [Requests -> Tasks]
      /\ task'[r].pc = pc /\ task'[r].dup = FALSE
      /\ \A q \in Requests : q # r =>
           /\ task'[q].pc = task[q].pc /\ task'[q].dup = task[q].dup
           /\ InSession /\ task[q].pc \in {"price", "debit"} => task'[q].stale
  BY WriteMove DEF PCs
<1>2. /\ faults' \in Nat /\ faults' >= faults /\ crashes' = crashes
      /\ Accident => Accident'
      /\ Fault => Accident'
  BY FaultType DEF Accident, TypeOK
<1>3. /\ UNCHANGED <<mode, ask, supplier, code, credited, charge, started>>
      /\ balance' = balance - charge[r] /\ ledger' = ledger - charge[r]
      /\ taken' = [taken EXCEPT ![r] = charge[r]] /\ made' = made \cup {r}
      /\ InSession /\ charge[r] \in Amounts /\ r \notin made
      /\ Covered(r, balance) /\ \A q \in Requests : PC(q) = "commit" => q = r
      /\ WithKey(r) = {}
  BY DEF Commits, Prices, Places, Money, Snapshots
<1>4. /\ answer' \in [Requests -> Answers]
      /\ \A q \in Requests : q # r => answer'[q] = answer[q]
      /\ answer'[r] = "none" \/ (answer'[r] = "error" /\ Fault /\ pc = "done")
  BY DEF TypeOK, Answers
<1>5. TypeOK'
  <2>1. charge[r] \in Nat /\ balance \in Int /\ ledger \in Int
    BY <1>3, AmountsAssumption DEF TypeOK
  <2>2. balance' \in Int /\ ledger' \in Int
    BY <1>3, <2>1
  <2>3. taken' \in [Requests -> Nat] /\ made' \subseteq Requests
    BY <1>3, <2>1 DEF TypeOK
  <2> QED BY <1>1, <1>2, <1>3, <1>4, <2>2, <2>3 DEF TypeOK
<1>6. Places' /\ Prices'
  BY <1>1, <1>3 DEF Places, Prices
<1>7. Money'
  BY <1>1, <1>3 DEF Money, TypeOK
<1>8. Snapshots'
  BY <1>1, <1>3 DEF Snapshots, Locked
<1>9. Duplicates'
  BY <1>1, <1>2, <1>3 DEF Duplicates, WithKey, Places
<1>10. AnswersAreTrue'
  <2>1. \A q \in Requests : WithKey(q) \subseteq WithKey(q)'
    BY <1>3 DEF WithKey
  <2>2. \A q \in Requests : answer[q] = "created" => q # r
    BY <1>3 DEF AnswersAreTrue
  <2> QED BY <1>1, <1>2, <1>3, <1>4, <2>1, <2>2 DEF AnswersAreTrue, TypeOK
<1>11. CreditLimitHolds'
  BY <1>3, AmountsAssumption, WalletAssumption DEF CreditLimitHolds, Covered, TypeOK
<1>12. /\ started' \subseteq made'
       /\ \A q \in Requests : answer'[q] # "none" => task'[q].pc = "done"
  BY <1>1, <1>3, <1>4
<1> QED BY <1>5, <1>6, <1>7, <1>8, <1>9, <1>10, <1>11, <1>12

LEMMA CommitKeeps ==
  ASSUME PInv, NEW r \in Requests, Commit(r) \/ CommitUnacknowledged(r)
  PROVE  PInv'
<1>1. CASE Commit(r)
  BY <1>1, CommitsKeep DEF Commit
<1>2. CASE CommitUnacknowledged(r)
  BY <1>2, CommitsKeep DEF CommitUnacknowledged
<1> QED BY <1>1, <1>2

LEMMA CommitFailsKeeps ==
  ASSUME PInv, NEW r \in Requests, CommitFails(r)
  PROVE  PInv'
<1>1. /\ PC(r) = "commit" /\ Answer(r, "error") /\ Fault
      /\ UNCHANGED <<mode, ask, supplier, code, balance, ledger, credited, charge, taken, made,
                     started, crashes>>
  BY DEF CommitFails, Calm, Fixed, WalletSame
<1>2. r \notin made /\ taken[r] = 0 /\ started \subseteq made /\ ledger \in Int
  BY <1>1 DEF PInv, Money, TypeOK
<1> QED BY <1>1, <1>2, AnswerKeeps DEF Answers

-----------------------------------------------------------------------------
(* Without a transaction *)

\* The parts of the invariant that speak of a session have nothing to say.
LEMMA NoSession ==
  ASSUME Places, mode' = mode, ~InSession, NEW r \in Requests,
         task'[r].pc # "commit", \A q \in Requests : q # r => task'[q] = task[q]
  PROVE  Snapshots'
BY DEF Snapshots, Places, PC, InSession

LEMMA DebitKeeps ==
  ASSUME PInv, NEW r \in Requests, Debit(r)
  PROVE  PInv'
<1> USE DEF PInv, Calm, Fixed, NoFault, PC
<1>1. /\ PC(r) = "debit" /\ ~InSession
      /\ UNCHANGED <<mode, ask, supplier, code, ledger, credited, charge, made, started, crashes,
                     faults>>
  BY DEF Debit
<1>2. r \notin made /\ taken[r] = 0 /\ charge[r] \in Amounts /\ ledger \in Int
  BY <1>1 DEF Money, Prices, TypeOK
<1>3. CASE ~Covered(r, balance)
  <2>1. Answer(r, "refused") /\ UNCHANGED <<balance, taken>>
    BY <1>3 DEF Debit
  <2> QED BY <1>1, <1>2, <2>1, AnswerKeeps DEF Answers
<1>4. CASE Covered(r, balance)
  <2>1. /\ Goto(r, "row") /\ answer' = answer
        /\ balance' = balance - charge[r] /\ taken' = [taken EXCEPT ![r] = charge[r]]
    BY <1>4 DEF Debit, Take
  <2>2. /\ task' \in [Requests -> Tasks]
        /\ task'[r].pc = "row" /\ task'[r].dup = task[r].dup
        /\ \A q \in Requests : q # r => task'[q] = task[q]
    BY <2>1, GotoMove DEF PCs
  <2>3. charge[r] \in Nat /\ balance \in Int /\ Limit \in Int
    BY <1>2, AmountsAssumption, WalletAssumption DEF TypeOK
  <2>4. TypeOK'
    <3>1. balance' \in Int /\ taken' \in [Requests -> Nat]
      BY <2>1, <2>3 DEF TypeOK
    <3> QED BY <1>1, <2>1, <2>2, <3>1 DEF TypeOK
  <2>5. Places' /\ Prices'
    BY <1>1, <1>2, <2>2 DEF Places, Prices, InSession
  <2>6. Money'
    BY <1>1, <1>2, <2>1, <2>2 DEF Money, TypeOK, InSession
  <2>7. Snapshots'
    BY <1>1, <2>2, NoSession
  <2>8. Duplicates'
    <3>1. \A q \in Requests : q # r => taken'[q] = taken[q]
      BY <2>1 DEF TypeOK
    <3> QED BY <1>1, <2>2, <3>1 DEF Duplicates, Accident, WithKey
  <2>9. AnswersAreTrue'
    BY <1>1, <1>2, <2>1, <2>2 DEF AnswersAreTrue, Accident, WithKey, TypeOK
  <2>10. CreditLimitHolds'
    BY <1>4, <2>1, <2>3 DEF CreditLimitHolds, Covered
  <2> QED BY <1>1, <2>1, <2>2, <2>4, <2>5, <2>6, <2>7, <2>8, <2>9, <2>10
<1> QED BY <1>3, <1>4

\* A task goes on between the debit and its end, and at most the ledger, and
\* when the debit is undone the balance, move with it.
LEMMA StepKeeps ==
  ASSUME PInv, NEW r \in Requests, NEW pc \in {"create", "undo", "undoRow", "lookup"},
         PC(r) \in {"row", "create", "undo", "undoRow"},
         task' \in [Requests -> Tasks], task'[r].pc = pc,
         \A q \in Requests : q # r => task'[q] = task[q],
         task'[r].dup => WithKey(r) # {} /\ pc # "create",
         pc = "lookup" => task'[r].dup,
         pc \in {"undo", "undoRow"} /\ ~task'[r].dup => Accident',
         pc \in {"create", "undo"} => taken[r] = charge[r],
         pc = "lookup" /\ ~Accident' => taken[r] = 0,
         \/ pc # "undoRow" /\ UNCHANGED <<balance, taken>>
         \/ /\ pc = "undoRow" /\ taken' = [taken EXCEPT ![r] = 0]
            /\ balance' = balance + charge[r],
         Fault \/ NoFault, ledger' \in Int,
         UNCHANGED <<mode, ask, supplier, code, credited, charge, made, started, answer, crashes>>
  PROVE  PInv'
<1> USE DEF PInv, PC
<1>1. ~InSession /\ r \notin made /\ charge[r] \in Amounts
  BY DEF Places, Money, Prices
<1>2. /\ faults' \in Nat
      /\ Accident => Accident'
  BY FaultType DEF Accident, TypeOK
<1>3. charge[r] \in Nat /\ balance \in Int /\ Limit \in Int
  BY <1>1, AmountsAssumption, WalletAssumption DEF TypeOK
<1>4. TypeOK'
  <2>1. balance' \in Int /\ taken' \in [Requests -> Nat]
    BY <1>3 DEF TypeOK
  <2> QED BY <1>2, <2>1 DEF TypeOK
<1>5. Places' /\ Prices'
  BY <1>1 DEF Places, Prices, InSession
<1>6. Money'
  BY <1>1 DEF Money, TypeOK, InSession
<1>7. Snapshots'
  BY <1>1, NoSession
<1>8. /\ \A q \in Requests : q # r => taken'[q] = taken[q]
      /\ \A q \in Requests : WithKey(q)' = WithKey(q)
  BY DEF TypeOK, WithKey
<1>9. Duplicates' /\ AnswersAreTrue'
  <2>1. ASSUME NEW q \in Requests, q # r
        PROVE  /\ task'[q].dup => WithKey(q)' # {} /\ task'[q].pc \in {"undo", "undoRow", "lookup"}
               /\ task'[q].pc = "lookup" => task'[q].dup
               /\ task'[q].pc \in {"undo", "undoRow"} /\ ~task'[q].dup => Accident'
               /\ task'[q].pc \in {"lookup", "done"} /\ q \notin made' /\ ~Accident'
                    => taken'[q] = 0
    <3>1. Duplicates
      BY DEF PInv
    <3> QED BY <1>2, <1>8, <2>1, <3>1 DEF Duplicates
  <2>2. /\ task'[r].dup => WithKey(r)' # {} /\ task'[r].pc \in {"undo", "undoRow", "lookup"}
        /\ task'[r].pc = "lookup" => task'[r].dup
        /\ task'[r].pc \in {"undo", "undoRow"} /\ ~task'[r].dup => Accident'
        /\ task'[r].pc \in {"lookup", "done"} /\ r \notin made' /\ ~Accident' => taken'[r] = 0
    BY <1>8
  <2>3. Duplicates'
    BY <2>1, <2>2 DEF Duplicates
  <2>4. answer'[r] = "none"
    BY DEF TypeOK
  <2>5. AnswersAreTrue
    BY DEF PInv
  <2> QED BY <1>2, <1>8, <2>3, <2>4, <2>5 DEF AnswersAreTrue
<1>10. CreditLimitHolds'
  BY <1>3 DEF CreditLimitHolds
<1> QED BY <1>4, <1>5, <1>6, <1>7, <1>8, <1>9, <1>10

LEMMA DebitRowKeeps ==
  ASSUME PInv, NEW r \in Requests, DebitRow(r)
  PROVE  PInv'
<1> USE DEF PC
<1>1. /\ PC(r) = "row"
      /\ UNCHANGED <<mode, ask, supplier, code, balance, credited, charge, taken, made, started,
                     crashes>>
  BY DEF DebitRow, Calm, Fixed
<1>2. /\ taken[r] = charge[r] /\ ~task[r].dup /\ r \notin made /\ TypeOK
      /\ charge[r] \in Int /\ ledger \in Int /\ started \subseteq made
  BY <1>1 DEF PInv, Money, Duplicates, TypeOK
<1>3. CASE NoFault /\ ledger' = ledger - charge[r] /\ Goto(r, "create") /\ answer' = answer
  <2>1. /\ task' \in [Requests -> Tasks]
        /\ task'[r].pc = "create" /\ task'[r].dup = task[r].dup
        /\ \A q \in Requests : q # r => task'[q] = task[q]
    BY <1>2, <1>3, GotoMove DEF PCs
  <2> QED BY <1>1, <1>2, <1>3, <2>1, StepKeeps
<1>4. CASE Fault /\ Answer(r, "error") /\ ledger' = ledger
  <2>1. Accident'
    BY <1>1, <1>2, <1>4, FaultType DEF Accident, TypeOK
  <2> QED BY <1>1, <1>2, <1>4, <2>1, AnswerKeeps DEF Answers
<1> QED BY <1>3, <1>4 DEF DebitRow

LEMMA CreateKeeps ==
  ASSUME PInv, NEW r \in Requests, Create(r)
  PROVE  PInv'
<1> USE DEF PC
<1>1. /\ PC(r) = "create"
      /\ UNCHANGED <<mode, ask, supplier, code, balance, ledger, credited, charge, taken, started,
                     answer, crashes>>
  BY DEF Create, Calm, Fixed, WalletSame
<1>2. /\ taken[r] = charge[r] /\ ~task[r].dup /\ r \notin made /\ TypeOK /\ ~InSession
      /\ charge[r] \in Amounts /\ ledger \in Int /\ started \subseteq made
      /\ answer[r] = "none"
  BY <1>1 DEF PInv, Money, Duplicates, Places, Prices, TypeOK
<1>3. CASE NoFault /\ WithKey(r) = {} /\ made' = made \cup {r} /\ Goto(r, "respond")
  <2> USE DEF PInv, NoFault
  <2>1. /\ task' \in [Requests -> Tasks]
        /\ task'[r].pc = "respond" /\ task'[r].dup = task[r].dup
        /\ \A q \in Requests : q # r => task'[q] = task[q]
    BY <1>2, <1>3, GotoMove DEF PCs
  <2>2. TypeOK'
    BY <1>1, <1>3, <2>1 DEF TypeOK
  <2>3. Places' /\ Prices' /\ Money'
    BY <1>1, <1>2, <1>3, <2>1 DEF Places, Prices, Money, InSession
  <2>4. Snapshots'
    BY <1>1, <1>2, <2>1, NoSession
  <2>5. Duplicates'
    BY <1>1, <1>2, <1>3, <2>1 DEF Duplicates, Accident, WithKey, TypeOK
  <2>6. AnswersAreTrue'
    <3>1. \A q \in Requests : WithKey(q) \subseteq WithKey(q)'
      BY <1>1, <1>3 DEF WithKey
    <3>2. \A q \in Requests : answer[q] # "none" => q # r
      BY <1>2
    <3> QED BY <1>1, <1>2, <1>3, <3>1, <3>2 DEF AnswersAreTrue, Accident, TypeOK
  <2> QED BY <1>1, <1>3, <2>1, <2>2, <2>3, <2>4, <2>5, <2>6 DEF CreditLimitHolds
<1>4. CASE /\ NoFault /\ WithKey(r) # {} /\ made' = made
           /\ task' = [task EXCEPT ![r].pc = "undo", ![r].dup = TRUE]
  <2> DEFINE t == [task[r] EXCEPT !.pc = "undo", !.dup = TRUE]
  <2>1. t \in Tasks /\ t.pc = "undo" /\ t.dup
    BY <1>2, TaskType DEF Tasks, PCs
  <2>2. task' = [task EXCEPT ![r] = t]
    BY <1>4
  <2>3. task' \in [Requests -> Tasks] /\ task'[r].pc = "undo" /\ task'[r].dup
        /\ \A q \in Requests : q # r => task'[q] = task[q]
    <3> HIDE DEF t
    <3> QED BY <1>2, <2>1, <2>2, BecomeMove
  <2> QED BY <1>1, <1>2, <1>4, <2>3, StepKeeps
<1>5. CASE Fault /\ Goto(r, "undo") /\ made' = made
  <2>1. Accident'
    BY <1>1, <1>2, <1>5, FaultType DEF Accident, TypeOK
  <2>2. /\ task' \in [Requests -> Tasks]
        /\ task'[r].pc = "undo" /\ task'[r].dup = task[r].dup
        /\ \A q \in Requests : q # r => task'[q] = task[q]
    BY <1>2, <1>5, GotoMove DEF PCs
  <2> QED BY <1>1, <1>2, <1>5, <2>1, <2>2, StepKeeps
<1> QED BY <1>3, <1>4, <1>5 DEF Create

LEMMA UndoKeeps ==
  ASSUME PInv, NEW r \in Requests, Undo(r)
  PROVE  PInv'
<1> USE DEF PC
<1>1. /\ PC(r) = "undo"
      /\ UNCHANGED <<mode, ask, supplier, code, ledger, credited, charge, made, started, crashes>>
  BY DEF Undo, Calm, Fixed
<1>2. /\ taken[r] = charge[r] /\ r \notin made /\ TypeOK /\ ledger \in Int
      /\ task[r].dup => WithKey(r) # {}
      /\ ~task[r].dup => Accident
      /\ started \subseteq made /\ task[r].dup \in BOOLEAN
  BY <1>1, TaskType DEF PInv, Money, Duplicates, TypeOK
<1>3. CASE /\ NoFault /\ balance' = balance + charge[r]
           /\ taken' = [taken EXCEPT ![r] = 0] /\ Goto(r, "undoRow") /\ answer' = answer
  <2>1. /\ task' \in [Requests -> Tasks]
        /\ task'[r].pc = "undoRow" /\ task'[r].dup = task[r].dup
        /\ \A q \in Requests : q # r => task'[q] = task[q]
    BY <1>2, <1>3, GotoMove DEF PCs
  <2>2. Accident => Accident'
    BY <1>1, <1>3 DEF Accident, NoFault
  <2> QED BY <1>1, <1>2, <1>3, <2>1, <2>2, StepKeeps
<1>4. CASE Fault /\ AfterUndo(r) /\ UNCHANGED <<balance, taken>>
  <2>1. Accident'
    BY <1>1, <1>2, <1>4, FaultType DEF Accident, TypeOK
  <2>2. CASE task[r].dup
    <3>1. Goto(r, "lookup") /\ answer' = answer
      BY <1>4, <2>2 DEF AfterUndo
    <3>2. /\ task' \in [Requests -> Tasks]
          /\ task'[r].pc = "lookup" /\ task'[r].dup = task[r].dup
          /\ \A q \in Requests : q # r => task'[q] = task[q]
      BY <1>2, <3>1, GotoMove DEF PCs
    <3> QED BY <1>1, <1>2, <1>4, <2>1, <2>2, <3>1, <3>2, StepKeeps
  <2>3. CASE ~task[r].dup
    <3>1. Answer(r, "error")
      BY <1>4, <2>3 DEF AfterUndo
    <3> QED BY <1>1, <1>2, <1>4, <2>1, <3>1, AnswerKeeps DEF Answers
  <2> QED BY <2>2, <2>3
<1> QED BY <1>3, <1>4 DEF Undo

LEMMA UndoRowKeeps ==
  ASSUME PInv, NEW r \in Requests, UndoRow(r)
  PROVE  PInv'
<1> USE DEF PC
<1>1. /\ PC(r) = "undoRow" /\ AfterUndo(r)
      /\ Fault \/ NoFault
      /\ ledger' = ledger \/ ledger' = ledger + charge[r]
      /\ UNCHANGED <<mode, ask, supplier, code, balance, credited, charge, taken, made, started,
                     crashes>>
  BY DEF UndoRow, Calm, Fixed
<1>2. /\ taken[r] = 0 /\ r \notin made /\ TypeOK /\ ledger \in Int /\ charge[r] \in Int
      /\ task[r].dup => WithKey(r) # {}
      /\ ~task[r].dup => Accident
      /\ started \subseteq made /\ task[r].dup \in BOOLEAN
  BY <1>1, TaskType DEF PInv, Money, Duplicates, TypeOK
<1>3. /\ Accident => Accident'
      /\ ledger' \in Int /\ started' \subseteq made
  BY <1>1, <1>2, FaultType DEF Accident, TypeOK
<1>4. CASE task[r].dup
  <2>1. Goto(r, "lookup") /\ answer' = answer
    BY <1>1, <1>4 DEF AfterUndo
  <2>2. /\ task' \in [Requests -> Tasks]
        /\ task'[r].pc = "lookup" /\ task'[r].dup = task[r].dup
        /\ \A q \in Requests : q # r => task'[q] = task[q]
    BY <1>2, <2>1, GotoMove DEF PCs
  <2> QED BY <1>1, <1>2, <1>3, <1>4, <2>1, <2>2, StepKeeps
<1>5. CASE ~task[r].dup
  <2>1. Answer(r, "error")
    BY <1>1, <1>5 DEF AfterUndo
  <2> QED BY <1>1, <1>2, <1>3, <1>5, <2>1, AnswerKeeps DEF Answers
<1> QED BY <1>4, <1>5

LEMMA LookupKeeps ==
  ASSUME PInv, NEW r \in Requests, Lookup(r)
  PROVE  PInv'
<1>1. /\ PC(r) = "lookup" /\ Answer(r, Resolve(r)) /\ NoFault
      /\ UNCHANGED <<mode, ask, supplier, code, balance, ledger, credited, charge, taken, made,
                     started, crashes>>
  BY DEF Lookup, Calm, Fixed, WalletSame
<1>2. /\ r \notin made /\ started \subseteq made /\ ledger \in Int
      /\ WithKey(r) # {}
      /\ ~Accident => taken[r] = 0
  BY <1>1 DEF PInv, Money, Duplicates, TypeOK
<1>3. Accident' => Accident
  BY <1>1 DEF Accident, NoFault
<1>4. Accident => Accident'
  BY <1>1 DEF Accident, NoFault
<1> QED BY <1>1, <1>2, <1>3, <1>4, ResolveIsTrue, AnswerKeeps DEF Answers

-----------------------------------------------------------------------------
(* The end of the request, the environment, the specification *)

LEMMA RespondKeeps ==
  ASSUME PInv, NEW r \in Requests, Respond(r)
  PROVE  PInv'
<1>1. /\ PC(r) = "respond"
      /\ UNCHANGED <<mode, ask, supplier, code, balance, ledger, credited, charge, taken, made,
                     crashes>>
  BY DEF Respond, Calm, Fixed, WalletSame
<1>2. r \in made /\ taken[r] = charge[r] /\ started \subseteq made /\ ledger \in Int /\ TypeOK
  BY <1>1 DEF PInv, Money, TypeOK
<1>3. CASE NoFault /\ Answer(r, "created") /\ Start(r)
  BY <1>1, <1>2, <1>3, AnswerKeeps DEF Answers, Start
<1>4. CASE Fault /\ Answer(r, "error") /\ started' = started
  <2>1. Accident'
    BY <1>1, <1>2, <1>4, FaultType DEF Accident, TypeOK
  <2> QED BY <1>1, <1>2, <1>4, <2>1, AnswerKeeps DEF Answers
<1> QED BY <1>3, <1>4 DEF Respond

LEMMA CreditKeeps ==
  ASSUME PInv, Credit
  PROVE  PInv'
<1> USE DEF PInv, Fixed, NoFault, PC
<1>1. /\ ~Locked /\ credited' = credited + 1 /\ balance' = balance + 1 /\ ledger' = ledger + 1
      /\ task' = [q \in Requests |-> Outdated(q)]
      /\ UNCHANGED <<mode, ask, supplier, code, charge, taken, made, started, answer, crashes,
                     faults>>
  BY DEF Credit
<1>2. /\ task' \in [Requests -> Tasks]
      /\ \A q \in Requests :
           /\ task'[q].pc = task[q].pc /\ task'[q].dup = task[q].dup
           /\ InSession /\ task[q].pc \in {"price", "debit"} => task'[q].stale
  BY <1>1, OutdatedType
<1>3. TypeOK'
  BY <1>1, <1>2 DEF TypeOK
<1>4. Places' /\ Prices' /\ Money'
  BY <1>1, <1>2 DEF Places, Prices, Money, InSession
<1>5. Snapshots'
  BY <1>1, <1>2 DEF Snapshots, Locked, InSession
<1>6. Duplicates'
  BY <1>1, <1>2 DEF Duplicates, Accident, WithKey
<1>7. AnswersAreTrue'
  BY <1>1, <1>2 DEF AnswersAreTrue, Accident, WithKey
<1>8. CreditLimitHolds'
  BY <1>1, WalletAssumption DEF CreditLimitHolds, TypeOK
<1> QED BY <1>1, <1>2, <1>3, <1>4, <1>5, <1>6, <1>7, <1>8

LEMMA SwapKeeps ==
  ASSUME PInv, SwapSupplier
  PROVE  PInv'
<1>1. /\ supplier' \in Suppliers
      /\ UNCHANGED <<mode, ask, code, balance, ledger, credited, charge, taken, made, started,
                     answer, task, crashes, faults>>
  BY DEF SwapSupplier, Fixed, WalletSame, NoFault
<1> QED BY <1>1 DEF PInv, TypeOK, Places, Prices, Money, Snapshots, Duplicates, CreditLimitHolds,
             AnswersAreTrue, Accident, WithKey, Covered, InSession, PC

LEMMA CrashKeeps ==
  ASSUME PInv, Crash
  PROVE  PInv'
<1> USE DEF PInv, Fixed, NoFault, WalletSame, PC
<1>1. /\ crashes' = crashes + 1
      /\ UNCHANGED <<mode, ask, supplier, code, balance, ledger, credited, charge, taken, made,
                     started, faults>>
  BY DEF Crash
<1>2. /\ task' \in [Requests -> Tasks] /\ answer' \in [Requests -> Answers]
      /\ \A r \in Requests :
           \/ task'[r] = task[r] /\ PC(r) = "idle" /\ answer'[r] = answer[r]
           \/ /\ task'[r].pc = "done" /\ ~task'[r].dup /\ PC(r) # "idle"
              /\ answer'[r] = answer[r] \/ answer'[r] = "lost"
  <2>1. NewTask("done") \in Tasks /\ NewTask("done").pc = "done" /\ NewTask("done").dup = FALSE
    BY NewTaskType DEF PCs
  <2>2. \A r \in Requests : task[r] \in Tasks /\ answer[r] \in Answers
    BY DEF TypeOK
  <2>3. "lost" \in Answers
    BY DEF Answers
  <2>4. task' = [r \in Requests |-> IF PC(r) = "idle" THEN task[r] ELSE NewTask("done")]
    BY DEF Crash
  <2>5. answer' = [r \in Requests |-> IF PC(r) \in {"idle", "done"} THEN answer[r] ELSE "lost"]
    BY DEF Crash
  <2> QED BY <2>1, <2>2, <2>3, <2>4, <2>5
<1>3. Accident'
  BY <1>1 DEF Accident, TypeOK
<1>4. TypeOK'
  BY <1>1, <1>2 DEF TypeOK
<1>5. Places' /\ Prices' /\ Money'
  BY <1>1, <1>2 DEF Places, Prices, Money, InSession
<1>6. Snapshots'
  BY <1>1, <1>2 DEF Snapshots
<1>7. Duplicates'
  BY <1>1, <1>2, <1>3 DEF Duplicates
<1>8. AnswersAreTrue'
  BY <1>1, <1>2, <1>3 DEF AnswersAreTrue, WithKey
<1> QED BY <1>1, <1>2, <1>4, <1>5, <1>6, <1>7, <1>8 DEF CreditLimitHolds

LEMMA InitHolds == Init => PInv
<1> SUFFICES ASSUME Init PROVE PInv
  OBVIOUS
<1>1. "idle" \in PCs /\ NewTask("idle") \in Tasks
      /\ NewTask("idle").pc = "idle" /\ NewTask("idle").dup = FALSE
  BY NewTaskType DEF PCs
<1>2. task = [r \in Requests |-> NewTask("idle")] /\ made = {} /\ started = {}
      /\ taken = [r \in Requests |-> 0] /\ answer = [r \in Requests |-> "none"]
      /\ balance = Opening
  BY DEF Init
<1>3. TypeOK
  <2>1. supplier \in Suppliers
    BY SuppliersAssumption DEF Init
  <2> QED BY <1>1, <2>1, ModesAssumption, WalletAssumption DEF Init, TypeOK, Answers
<1>4. CreditLimitHolds
  BY <1>2, WalletAssumption DEF CreditLimitHolds
<1> QED BY <1>1, <1>2, <1>3, <1>4 DEF PInv, Places, Prices, Money, Snapshots, Duplicates,
             AnswersAreTrue, PC

LEMMA NextHolds == PInv /\ [Next]_vars => PInv'
<1> SUFFICES ASSUME PInv, [Next]_vars PROVE PInv'
  OBVIOUS
<1>1. ASSUME NEW r \in Requests, Submit(r) \/ Attempt(r) \/ Refuse(r) \/ Price(r) PROVE PInv'
  BY <1>1, SubmitKeeps, AttemptKeeps, RefuseKeeps, PriceKeeps
<1>2. ASSUME NEW r \in Requests,
             DebitInSession(r) \/ Commit(r) \/ CommitFails(r) \/ CommitUnacknowledged(r)
      PROVE  PInv'
  BY <1>2, DebitInSessionKeeps, CommitKeeps, CommitFailsKeeps
<1>3. ASSUME NEW r \in Requests, Debit(r) \/ DebitRow(r) \/ Create(r) PROVE PInv'
  BY <1>3, DebitKeeps, DebitRowKeeps, CreateKeeps
<1>4. ASSUME NEW r \in Requests, Undo(r) \/ UndoRow(r) \/ Lookup(r) \/ Respond(r) PROVE PInv'
  BY <1>4, UndoKeeps, UndoRowKeeps, LookupKeeps, RespondKeeps
<1>5. CASE Credit \/ SwapSupplier \/ Crash
  BY <1>5, CreditKeeps, SwapKeeps, CrashKeeps
<1>6. CASE UNCHANGED vars
  BY <1>6 DEF vars, PInv, TypeOK, Places, Prices, Money, Snapshots, Duplicates, CreditLimitHolds,
             AnswersAreTrue, Accident, WithKey, Covered, InSession, PC
<1> QED BY <1>1, <1>2, <1>3, <1>4, <1>5, <1>6 DEF Next, Handle

LEMMA InvariantHolds == Spec => []PInv
BY InitHolds, NextHolds, PTL DEF Spec

\* Every variable of a purchase keeps to its values in every reachable state.
THEOREM PurchaseTypesHold == Spec => []TypeOK
<1>1. PInv => TypeOK
  BY DEF PInv
<1> QED BY <1>1, InvariantHolds, PTL

\* However many purchases of a customer run at once, and however they end, the
\* balance is never overdrawn beyond the credit limit (debitWalletAtomic).
THEOREM CreditLimitIsKept == Spec => []CreditLimitHolds
<1>1. PInv => CreditLimitHolds
  BY DEF PInv
<1> QED BY <1>1, InvariantHolds, PTL

\* What the client of createOrder is told is true.
THEOREM ClientsAreToldTheTruth == Spec => []AnswersAreTrue
<1>1. PInv => AnswersAreTrue
  BY DEF PInv
<1> QED BY <1>1, InvariantHolds, PTL

\* The executor starts only for orders that exist and have been paid in full.
THEOREM OnlyPaidOrdersStart == Spec => []StartedIsPaid
<1>1. PInv => StartedIsPaid
  BY DEF PInv, Money, TypeOK, StartedIsPaid
<1> QED BY <1>1, InvariantHolds, PTL

-----------------------------------------------------------------------------
(* Buying implements Checkout *)

SpentOf(r) == IF r \in made \/ PC(r) \in {"idle", "done"} THEN taken[r] ELSE 0

LEMMA SpentIs ==
  /\ Spent = [r \in Requests |-> SpentOf(r)]
  /\ Spent' = [r \in Requests |-> SpentOf(r)']
BY DEF Spent, SpentOf, Answered

\* A request that is not part of a step spends nothing in it.
LEMMA SpentSame ==
  ASSUME NEW q \in Requests, PC(q)' = PC(q), taken'[q] = taken[q], q \in made' <=> q \in made
  PROVE  SpentOf(q)' = SpentOf(q)
BY DEF SpentOf, PC

\* What is spent is nothing or a price.
LEMMA SpentType ==
  ASSUME Money
  PROVE  \A q \in Requests : SpentOf(q) \in Amounts \cup {0}
BY DEF Money, SpentOf

\* Nobody orders, and only requests without an order pay, in an accident.
LEMMA QuietStep ==
  ASSUME Money', UNCHANGED <<mode, ask, made>>, Accident => Accident',
         \A q \in Requests : \/ SpentOf(q)' = SpentOf(q)
                             \/ q \notin made /\ SpentOf(q) = 0 /\ Accident' /\ ~InSession
  PROVE  [Shop!Next]_Shop!vars
<1>1. Spent' \in [Requests -> Amounts \cup {0}]
  BY SpentType, SpentIs DEF Money, SpentOf, PC
<1>2. Accident \in BOOLEAN /\ Accident' \in BOOLEAN
  BY DEF Accident
<1>3. /\ InSession' = InSession
      /\ [r \in Requests |-> ask[r].key]' = [r \in Requests |-> ask[r].key]
  BY DEF InSession
<1>4. CASE Spent' = Spent
  <2>1. CASE Accident' = Accident
    BY <1>3, <1>4, <2>1 DEF Shop!vars
  <2>2. CASE Accident' = TRUE
    BY <1>3, <1>4, <2>2 DEF Shop!Next, Shop!Accident
  <2> QED BY <1>2, <2>1, <2>2
<1>5. CASE Spent' # Spent
  <2>1. PICK q \in Requests : SpentOf(q)' # SpentOf(q)
    BY <1>5, SpentIs
  <2>2. Accident' /\ ~InSession
    BY <2>1
  <2>3. \A r \in Requests : Spent'[r] # Spent[r] => r \notin made /\ Spent[r] = 0
    BY SpentIs
  <2>4. Shop!Lose
    BY <1>1, <2>2, <2>3 DEF Shop!Lose
  <2> QED BY <1>3, <2>2, <2>4 DEF Shop!Next
<1> QED BY <1>4, <1>5

\* A step of one request that makes no order.
LEMMA RequestStep ==
  ASSUME PInv, PInv', NEW r \in Requests, UNCHANGED <<mode, ask, made>>, Accident => Accident',
         PC(r) # "done", r \in made => taken'[r] = taken[r],
         \A q \in Requests : q # r => PC(q)' = PC(q) /\ taken'[q] = taken[q]
  PROVE  [Shop!Next]_Shop!vars
<1>1. \A q \in Requests : q # r => SpentOf(q)' = SpentOf(q)
  BY SpentSame
<1>2. CASE r \in made
  <2>1. SpentOf(r)' = SpentOf(r)
    BY <1>2 DEF SpentOf
  <2> QED BY <1>1, <2>1, QuietStep DEF PInv
<1>3. CASE r \notin made
  <2>1. SpentOf(r) = 0
    BY <1>3 DEF SpentOf, PInv, Money
  <2>2. SpentOf(r)' # 0 => Accident' /\ ~InSession
    <3>1. SpentOf(r)' # 0 => PC(r)' \in {"idle", "done"} /\ taken'[r] # 0
      BY <1>3 DEF SpentOf, PC
    <3>2. Money' /\ Duplicates' /\ InSession' = InSession
      BY DEF PInv, InSession
    <3> QED BY <1>3, <3>1, <3>2 DEF Money, Duplicates, PC
  <2> QED BY <1>1, <1>3, <2>1, <2>2, QuietStep DEF PInv
<1> QED BY <1>2, <1>3

\* A step of one request that makes its order.
LEMMA OrderStep ==
  ASSUME PInv, PInv', NEW r \in Requests, UNCHANGED <<mode, ask>>, Accident => Accident',
         PC(r) \in {"commit", "create"}, WithKey(r) = {}, made' = made \cup {r},
         \A q \in Requests : q # r => PC(q)' = PC(q) /\ taken'[q] = taken[q]
  PROVE  [Shop!Next]_Shop!vars
<1>1. r \notin made /\ SpentOf(r) = 0
  BY DEF PInv, Money, SpentOf
<1>2. \A q \in Requests : q # r => SpentOf(q)' = SpentOf(q)
  BY SpentSame
<1>3. SpentOf(r)' \in Amounts
  <2>1. Money' /\ Prices' /\ r \in made'
    BY DEF PInv
  <2> QED BY <2>1 DEF Money, Prices, SpentOf
<1>4. Spent' = [Spent EXCEPT ![r] = SpentOf(r)']
  BY <1>2, SpentIs
<1>5. Shop!Fresh(r)
  <2>1. made \subseteq Requests
    BY DEF PInv, TypeOK
  <2> QED BY <2>1 DEF Shop!Fresh, WithKey
<1>6. Shop!Buy(r)
  BY <1>1, <1>3, <1>4, <1>5, SpentIs DEF Shop!Buy
<1>7. /\ InSession' = InSession
      /\ [q \in Requests |-> ask[q].key]' = [q \in Requests |-> ask[q].key]
  BY DEF InSession
<1> QED BY <1>6, <1>7 DEF Shop!Next

\* What a step of one request leaves alone.
LEMMA RequestFrame ==
  ASSUME TypeOK, NEW r \in Requests, Submit(r) \/ Handle(r)
  PROVE  /\ UNCHANGED <<mode, ask>>
         /\ Accident => Accident'
         /\ \A q \in Requests : q # r => PC(q)' = PC(q) /\ taken'[q] = taken[q]
<1> USE DEF Calm, Fixed, WalletSame, NoFault, Fault, PC, Goto, Answer, Accident, TypeOK
<1>1. CASE Submit(r) \/ Attempt(r) \/ Refuse(r) \/ Price(r)
  BY <1>1 DEF Submit, Attempt, Refuse, Price
<1>2. CASE DebitInSession(r) \/ CommitFails(r)
  BY <1>2 DEF DebitInSession, CommitFails, Conflict
<1>3. CASE Commit(r) \/ CommitUnacknowledged(r)
  <2>1. /\ UNCHANGED <<mode, ask, crashes>> /\ faults' >= faults /\ faults' \in Nat
        /\ taken' = [taken EXCEPT ![r] = charge[r]]
    BY <1>3 DEF Commit, CommitUnacknowledged, Commits
  <2>2. PICK t : task' = [q \in Requests |-> IF q = r THEN t ELSE Outdated(q)]
    BY <1>3 DEF Commit, CommitUnacknowledged
  <2>3. \A q \in Requests : q # r => PC(q)' = PC(q)
    BY <2>2, OutdatedType
  <2> QED BY <2>1, <2>3
<1>4. CASE Debit(r) \/ DebitRow(r) \/ Create(r)
  BY <1>4 DEF Debit, DebitRow, Create, Take
<1>5. CASE Undo(r) \/ UndoRow(r) \/ Lookup(r) \/ Respond(r)
  BY <1>5 DEF Undo, UndoRow, Lookup, Respond, AfterUndo
<1> QED BY <1>1, <1>2, <1>3, <1>4, <1>5 DEF Handle

LEMMA NextImplements ==
  ASSUME PInv, PInv', [Next]_vars
  PROVE  [Shop!Next]_Shop!vars
<1>1. ASSUME NEW r \in Requests, Submit(r) \/ Handle(r)
      PROVE  [Shop!Next]_Shop!vars
  <2>1. /\ UNCHANGED <<mode, ask>>
        /\ Accident => Accident'
        /\ \A q \in Requests : q # r => PC(q)' = PC(q) /\ taken'[q] = taken[q]
    BY <1>1, RequestFrame DEF PInv
  <2>2. CASE /\ PC(r) \in {"commit", "create"} /\ WithKey(r) = {} /\ made' = made \cup {r}
    BY <2>1, <2>2, OrderStep
  <2>3. CASE made' = made /\ PC(r) # "done" /\ (r \in made => taken' = taken)
    BY <2>1, <2>3, RequestStep
  <2>4. r \in made => PC(r) \in {"respond", "done"}
    BY DEF PInv, Money
  <2>5. PC(r) = "commit" => WithKey(r) = {}
    BY DEF PInv, Snapshots
  <2>6. CASE Submit(r) \/ Attempt(r) \/ Refuse(r) \/ Price(r) \/ DebitInSession(r)
             \/ CommitFails(r) \/ Debit(r) \/ DebitRow(r)
    BY <2>3, <2>4, <2>6 DEF Submit, Attempt, Refuse, Price, DebitInSession, CommitFails, Debit,
                     DebitRow, WalletSame
  <2>7. CASE Commit(r) \/ CommitUnacknowledged(r)
    BY <2>2, <2>5, <2>7 DEF Commit, CommitUnacknowledged, Commits
  <2>8. CASE Create(r)
    BY <2>2, <2>3, <2>4, <2>8 DEF Create
  <2>9. CASE Undo(r) \/ UndoRow(r) \/ Lookup(r) \/ Respond(r)
    BY <2>3, <2>4, <2>9 DEF Undo, UndoRow, Lookup, Respond, WalletSame
  <2> QED BY <1>1, <2>6, <2>7, <2>8, <2>9 DEF Handle
<1>2. CASE Credit
  <2>1. UNCHANGED <<mode, ask, made, taken, crashes, faults>>
    BY <1>2 DEF Credit, Fixed, NoFault
  <2>2. \A q \in Requests : PC(q)' = PC(q)
    BY <1>2, OutdatedType DEF Credit, PC, PInv
  <2>3. \A q \in Requests : SpentOf(q)' = SpentOf(q)
    BY <2>1, <2>2, SpentSame
  <2> QED BY <2>1, <2>3, QuietStep DEF Accident, PInv
<1>3. CASE SwapSupplier \/ UNCHANGED vars
  <2>1. UNCHANGED <<mode, ask, made, taken, task, crashes, faults>>
    BY <1>3 DEF SwapSupplier, Fixed, NoFault, WalletSame, vars
  <2>2. \A q \in Requests : SpentOf(q)' = SpentOf(q)
    BY <2>1, SpentSame DEF PC
  <2> QED BY <2>1, <2>2, QuietStep DEF Accident, PInv
<1>4. CASE Crash
  <2>1. UNCHANGED <<mode, ask, made, taken, faults>> /\ crashes' = crashes + 1
    BY <1>4 DEF Crash, Fixed, NoFault, WalletSame
  <2>2. Accident'
    BY <2>1 DEF Accident, PInv, TypeOK
  <2>3. \A q \in Requests : PC(q)' = IF PC(q) = "idle" THEN "idle" ELSE "done"
    BY <1>4 DEF Crash, PC, NewTask
  <2>4. ASSUME NEW q \in Requests
        PROVE  \/ SpentOf(q)' = SpentOf(q)
               \/ q \notin made /\ SpentOf(q) = 0 /\ Accident' /\ ~InSession
    <3>1. CASE q \in made \/ PC(q) \in {"idle", "done"}
      BY <2>1, <2>3, <3>1 DEF SpentOf
    <3>2. CASE q \notin made /\ PC(q) \notin {"idle", "done"}
      BY <2>1, <2>2, <2>3, <3>2 DEF SpentOf, PInv, Money
    <3> QED BY <3>1, <3>2
  <2> QED BY <2>1, <2>2, <2>4, QuietStep DEF PInv
<1> QED BY <1>1, <1>2, <1>3, <1>4 DEF Next

LEMMA InitImplements == Init => Shop!Init
<1> SUFFICES ASSUME Init PROVE Shop!Init
  OBVIOUS
<1>1. Spent = [r \in Requests |-> 0] /\ made = {} /\ Accident = FALSE /\ InSession \in BOOLEAN
  BY SpentIs DEF Init, SpentOf, Accident, InSession
<1> QED BY <1>1 DEF Shop!Init

\* Buying implements Checkout: on every deployment and whatever fails, money
\* and order appear together, a key buys once, and only an accident on a server
\* without transactions loses money (createOrder).
THEOREM PurchaseImplementsCheckout == Spec => ImplementsCheckout
<1>1. PInv /\ PInv' /\ [Next]_vars => [Shop!Next]_Shop!vars
  BY NextImplements
<1> QED BY <1>1, InitImplements, InvariantHolds, PTL DEF Spec, ImplementsCheckout, Shop!Spec

-----------------------------------------------------------------------------
(* The ledger *)

\* The charges of a set of requests, unit by unit: the size of the pile is their
\* sum.
Pile(S) == {u \in Requests \X Nat : u[1] \in S /\ 1 <= u[2] /\ u[2] <= charge[u[1]]}

\* Requests whose debit, or whose refund, has no row yet.
Unbooked == {r \in Requests : PC(r) = "row"}
Restored == {r \in Requests : PC(r) = "undoRow"}

\* As long as nothing goes wrong, balance and ledger differ by those.
Books ==
  /\ InSession => balance = Opening + ledger
  /\ ~InSession /\ ~Accident =>
       /\ IsFiniteSet(Pile(Unbooked)) /\ IsFiniteSet(Pile(Restored))
       /\ balance = Opening + ledger - Cardinality(Pile(Unbooked)) + Cardinality(Pile(Restored))

LEMMA SlabSize ==
  ASSUME NEW r, NEW c \in Nat
  PROVE  LET slab == {r} \X (1 .. c)
         IN  IsFiniteSet(slab) /\ Cardinality(slab) = c
<1> DEFINE slab == {r} \X (1 .. c)
           f == [i \in 1 .. c |-> <<r, i>>]
<1>1. f \in Bijection(1 .. c, slab)
  <2>1. f \in [1 .. c -> slab]
    OBVIOUS
  <2>2. \A i, j \in 1 .. c : f[i] = f[j] => i = j
    OBVIOUS
  <2>3. \A u \in slab : \E i \in 1 .. c : f[i] = u
    <3> SUFFICES ASSUME NEW u \in slab PROVE \E i \in 1 .. c : f[i] = u
      OBVIOUS
    <3>1. u[2] \in 1 .. c /\ u = <<r, u[2]>>
      OBVIOUS
    <3> QED BY <3>1
  <2> HIDE DEF f, slab
  <2> QED BY <2>1, <2>2, <2>3, Fun_IsBij
<1>2. IsFiniteSet(1 .. c) /\ Cardinality(1 .. c) = c
  BY FS_Interval
<1>3. ExistsBijection(1 .. c, slab)
  BY <1>1 DEF ExistsBijection
<1> HIDE DEF slab
<1>4. IsFiniteSet(slab) /\ Cardinality(slab) = c
  BY <1>2, <1>3, FS_Bijection
<1> QED BY <1>4 DEF slab

\* Two sets that have nothing in common.
LEMMA DisjointSize ==
  ASSUME NEW S, NEW T, IsFiniteSet(S), IsFiniteSet(T), S \cap T = {}
  PROVE  IsFiniteSet(S \cup T) /\ Cardinality(S \cup T) = Cardinality(S) + Cardinality(T)
<1>1. Cardinality(S) \in Nat /\ Cardinality(T) \in Nat
  BY FS_CardinalityType
<1> QED BY <1>1, FS_Union, FS_EmptySet

\* The pile grows by the charge of a request that joins.
LEMMA PileGrows ==
  ASSUME TypeOK, NEW S, NEW r \in Requests, r \notin S, IsFiniteSet(Pile(S))
  PROVE  /\ IsFiniteSet(Pile(S \cup {r}))
         /\ Cardinality(Pile(S \cup {r})) = Cardinality(Pile(S)) + charge[r]
<1> DEFINE slab == {r} \X (1 .. charge[r])
<1>1. charge[r] \in Nat
  BY DEF TypeOK
<1>2. IsFiniteSet(slab) /\ Cardinality(slab) = charge[r]
  BY <1>1, SlabSize
<1>3. Pile(S \cup {r}) = Pile(S) \cup slab /\ Pile(S) \cap slab = {}
  BY <1>1 DEF Pile
<1> HIDE DEF slab
<1> QED BY <1>2, <1>3, DisjointSize

\* And shrinks by the charge of one that leaves.
LEMMA PileShrinks ==
  ASSUME TypeOK, NEW S, NEW r \in Requests, r \in S, IsFiniteSet(Pile(S))
  PROVE  /\ IsFiniteSet(Pile(S \ {r}))
         /\ Cardinality(Pile(S \ {r})) = Cardinality(Pile(S)) - charge[r]
<1>1. Pile(S \ {r}) \subseteq Pile(S)
  BY DEF Pile
<1>2. IsFiniteSet(Pile(S \ {r}))
  BY <1>1, FS_Subset
<1>3. (S \ {r}) \cup {r} = S
  OBVIOUS
<1>4. Cardinality(Pile(S)) = Cardinality(Pile(S \ {r})) + charge[r]
  BY <1>2, <1>3, PileGrows
<1>5. Cardinality(Pile(S \ {r})) \in Nat /\ charge[r] \in Nat
  BY <1>2, FS_CardinalityType DEF TypeOK
<1> QED BY <1>2, <1>4, <1>5

LEMMA BooksInit == Init => Books
<1> SUFFICES ASSUME Init PROVE Books
  OBVIOUS
<1>1. \A r \in Requests : PC(r) = "idle"
  BY DEF Init, PC, NewTask
<1>2. Pile(Unbooked) = {} /\ Pile(Restored) = {}
  BY <1>1 DEF Pile, Unbooked, Restored
<1>3. balance = Opening /\ ledger = 0
  BY DEF Init
<1> QED BY <1>2, <1>3, FS_EmptySet, WalletAssumption DEF Books

\* A step in which one request at most pays, is paid back, or gets its row.
LEMMA BooksMove ==
  ASSUME TypeOK, TypeOK', Books, NEW r \in Requests, mode' = mode, ~Accident' => ~Accident,
         InSession => balance' = Opening + ledger',
         ~InSession /\ ~Accident' =>
           /\ \A q \in Unbooked' \cup Restored' : charge'[q] = charge[q]
           /\ \/ /\ Unbooked' = Unbooked /\ Restored' = Restored
                 /\ \E n \in Nat : balance' = balance + n /\ ledger' = ledger + n
              \/ /\ r \notin Unbooked /\ Unbooked' = Unbooked \cup {r} /\ Restored' = Restored
                 /\ balance' = balance - charge[r] /\ ledger' = ledger
              \/ /\ r \in Unbooked /\ Unbooked' = Unbooked \ {r} /\ Restored' = Restored
                 /\ balance' = balance /\ ledger' = ledger - charge[r]
              \/ /\ r \notin Restored /\ Unbooked' = Unbooked /\ Restored' = Restored \cup {r}
                 /\ balance' = balance + charge[r] /\ ledger' = ledger
              \/ /\ r \in Restored /\ Unbooked' = Unbooked /\ Restored' = Restored \ {r}
                 /\ balance' = balance /\ ledger' = ledger + charge[r]
  PROVE  Books'
<1>1. InSession' = InSession
  BY DEF InSession
<1>2. CASE InSession \/ Accident'
  BY <1>1, <1>2 DEF Books
<1>3. CASE ~InSession /\ ~Accident'
  <2> DEFINE u == Cardinality(Pile(Unbooked))
             v == Cardinality(Pile(Restored))
  <2>1. /\ IsFiniteSet(Pile(Unbooked)) /\ IsFiniteSet(Pile(Restored))
        /\ balance = Opening + ledger - u + v
    BY <1>3 DEF Books
  <2>2. u \in Nat /\ v \in Nat /\ balance \in Int /\ ledger \in Int /\ Opening \in Int
        /\ charge[r] \in Nat
    BY <2>1, FS_CardinalityType, WalletAssumption DEF TypeOK
  <2>3. /\ Pile(Unbooked)' = Pile(Unbooked')
        /\ Pile(Restored)' = Pile(Restored')
    BY <1>3 DEF Pile
  <2> HIDE DEF u, v
  <2>4. CASE /\ Unbooked' = Unbooked /\ Restored' = Restored
             /\ \E n \in Nat : balance' = balance + n /\ ledger' = ledger + n
    BY <1>1, <1>3, <2>1, <2>2, <2>3, <2>4 DEF Books, u, v
  <2>5. CASE /\ r \notin Unbooked /\ Unbooked' = Unbooked \cup {r} /\ Restored' = Restored
             /\ balance' = balance - charge[r] /\ ledger' = ledger
    <3>1. IsFiniteSet(Pile(Unbooked)') /\ Cardinality(Pile(Unbooked)') = u + charge[r]
      BY <2>1, <2>3, <2>5, PileGrows DEF u
    <3> QED BY <1>1, <1>3, <2>1, <2>2, <2>3, <2>5, <3>1 DEF Books, v
  <2>6. CASE /\ r \in Unbooked /\ Unbooked' = Unbooked \ {r} /\ Restored' = Restored
             /\ balance' = balance /\ ledger' = ledger - charge[r]
    <3>1. IsFiniteSet(Pile(Unbooked)') /\ Cardinality(Pile(Unbooked)') = u - charge[r]
      BY <2>1, <2>3, <2>6, PileShrinks DEF u
    <3> QED BY <1>1, <1>3, <2>1, <2>2, <2>3, <2>6, <3>1 DEF Books, v
  <2>7. CASE /\ r \notin Restored /\ Unbooked' = Unbooked /\ Restored' = Restored \cup {r}
             /\ balance' = balance + charge[r] /\ ledger' = ledger
    <3>1. IsFiniteSet(Pile(Restored)') /\ Cardinality(Pile(Restored)') = v + charge[r]
      BY <2>1, <2>3, <2>7, PileGrows DEF v
    <3> QED BY <1>1, <1>3, <2>1, <2>2, <2>3, <2>7, <3>1 DEF Books, u
  <2>8. CASE /\ r \in Restored /\ Unbooked' = Unbooked /\ Restored' = Restored \ {r}
             /\ balance' = balance /\ ledger' = ledger + charge[r]
    <3>1. IsFiniteSet(Pile(Restored)') /\ Cardinality(Pile(Restored)') = v - charge[r]
      BY <2>1, <2>3, <2>8, PileShrinks DEF v
    <3> QED BY <1>1, <1>3, <2>1, <2>2, <2>3, <2>8, <3>1 DEF Books, u
  <2> QED BY <1>3, <2>4, <2>5, <2>6, <2>7, <2>8
<1> QED BY <1>2, <1>3

\* Who waits for a row after a step of one request.
LEMMA WaitingMove ==
  ASSUME NEW r \in Requests, \A q \in Requests : q # r => PC(q)' = PC(q)
  PROVE  /\ Unbooked' = IF PC(r)' = "row" THEN Unbooked \cup {r} ELSE Unbooked \ {r}
         /\ Restored' = IF PC(r)' = "undoRow" THEN Restored \cup {r} ELSE Restored \ {r}
<1>1. Unbooked' = {q \in Requests : PC(q)' = "row"}
  BY DEF Unbooked
<1>2. Restored' = {q \in Requests : PC(q)' = "undoRow"}
  BY DEF Restored
<1> QED BY <1>1, <1>2 DEF Unbooked, Restored

LEMMA FaultIsAccident ==
  ASSUME TypeOK, TypeOK', Fault
  PROVE  Accident'
<1>1. faults' > 0 /\ faults' \in Int
  BY FaultType
<1>2. crashes' >= 0 /\ crashes' \in Int
  BY DEF TypeOK
<1>3. \A a, b \in Int : a >= 0 /\ b > 0 => a + b > 0
  OBVIOUS
<1>4. crashes' + faults' > 0
  BY <1>1, <1>2, <1>3
<1> QED BY <1>4 DEF Accident

LEMMA BooksRequest ==
  ASSUME PInv, TypeOK', Books, NEW r \in Requests, Submit(r) \/ Handle(r)
  PROVE  Books'
<1> USE DEF PC
<1>1. /\ mode' = mode
      /\ ~Accident' => ~Accident
      /\ \A q \in Requests : q # r => PC(q)' = PC(q) /\ taken'[q] = taken[q]
  BY RequestFrame DEF PInv
<1>2. /\ Unbooked' = IF PC(r)' = "row" THEN Unbooked \cup {r} ELSE Unbooked \ {r}
      /\ Restored' = IF PC(r)' = "undoRow" THEN Restored \cup {r} ELSE Restored \ {r}
      /\ r \in Unbooked <=> PC(r) = "row"
      /\ r \in Restored <=> PC(r) = "undoRow"
  BY <1>1, WaitingMove DEF Unbooked, Restored
<1>3. TypeOK /\ balance \in Int /\ ledger \in Int /\ charge[r] \in Int /\ Opening \in Int
  BY WalletAssumption DEF PInv, TypeOK
<1>4. InSession => balance = Opening + ledger
  BY DEF Books
<1>5. Fault => Accident'
  BY <1>3, FaultIsAccident
<1>6. PC(r) \in {"row", "undoRow"} => ~InSession
  BY DEF PInv, Places
<1>7. CASE Submit(r) \/ Attempt(r) \/ Refuse(r) \/ Price(r) \/ DebitInSession(r)
           \/ CommitFails(r) \/ Create(r) \/ Lookup(r) \/ Respond(r)
  <2>1. /\ balance' = balance /\ ledger' = ledger
        /\ PC(r) \notin {"row", "undoRow"}
        /\ charge' = charge \/ PC(r) = "price"
    BY <1>7 DEF Submit, Attempt, Refuse, Price, DebitInSession, CommitFails, Create, Lookup, Respond,
                WalletSame
  <2>2. PC(r)' \notin {"row", "undoRow"}
    <3> USE DEF Goto, Answer, TypeOK, Tasks
    <3>1. CASE Submit(r) \/ Attempt(r) \/ Refuse(r) \/ Price(r)
      BY <1>3, <3>1 DEF Submit, Attempt, Refuse, Price, NewTask
    <3>2. CASE DebitInSession(r) \/ CommitFails(r)
      <4>1. \/ task' = [task EXCEPT ![r] = [NewTask("attempt") EXCEPT !.retry = TRUE]]
            \/ task' = [task EXCEPT ![r] = NewTask("commit")]
            \/ task' = [task EXCEPT ![r] = NewTask("done")]
        BY <3>2 DEF DebitInSession, CommitFails, Conflict
      <4>2. /\ NewTask("done").pc = "done" /\ NewTask("commit").pc = "commit"
            /\ [NewTask("attempt") EXCEPT !.retry = TRUE].pc = "attempt"
        BY DEF NewTask
      <4> QED BY <1>3, <4>1, <4>2
    <3>3. CASE Create(r) \/ Lookup(r) \/ Respond(r)
      <4>1. \/ task' = [task EXCEPT ![r].pc = "respond"]
            \/ task' = [task EXCEPT ![r].pc = "undo"]
            \/ task' = [task EXCEPT ![r].pc = "undo", ![r].dup = TRUE]
            \/ task' = [task EXCEPT ![r] = NewTask("done")]
        BY <3>3 DEF Create, Lookup, Respond
      <4>2. NewTask("done").pc = "done"
        BY DEF NewTask
      <4> QED BY <1>3, <4>1, <4>2
    <3> QED BY <1>7, <3>1, <3>2, <3>3
  <2>3. Unbooked' = Unbooked /\ Restored' = Restored
    BY <1>2, <2>1, <2>2
  <2>4. \A q \in Unbooked' \cup Restored' : charge'[q] = charge[q]
    <3>1. CASE charge' = charge
      BY <3>1
    <3>2. CASE PC(r) = "price"
      <4>1. (\E c \in Amounts : charge' = [charge EXCEPT ![r] = c]) \/ charge' = charge
        BY <1>7, <2>1, <3>2 DEF Submit, Attempt, Refuse, Price, DebitInSession, CommitFails, Create,
                         Lookup, Respond
      <4> QED BY <1>3, <2>1, <2>3, <4>1 DEF Unbooked, Restored, TypeOK
    <3> QED BY <2>1, <3>1, <3>2
  <2>5. balance' = balance + 0 /\ ledger' = ledger + 0
    BY <1>3, <2>1
  <2> QED BY <1>1, <1>3, <1>4, <2>1, <2>3, <2>4, <2>5, BooksMove
<1>8. CASE Commit(r) \/ CommitUnacknowledged(r)
  <2>1. InSession /\ balance' = balance - charge[r] /\ ledger' = ledger - charge[r]
    BY <1>8 DEF Commit, CommitUnacknowledged, Commits, PInv, Places
  <2> QED BY <1>1, <1>3, <1>4, <2>1, BooksMove
<1>9. CASE Debit(r)
  <2>1. PC(r) = "debit" /\ ~InSession /\ charge' = charge /\ ledger' = ledger
    BY <1>9 DEF Debit
  <2>2. CASE Covered(r, balance)
    <3>1. balance' = balance - charge[r] /\ PC(r)' = "row"
      BY <1>3, <1>9, <2>2, GotoMove DEF Debit, Take, PCs
    <3> QED BY <1>1, <1>2, <1>3, <2>1, <3>1, BooksMove
  <2>3. CASE ~Covered(r, balance)
    <3>1. Answer(r, "refused") /\ balance' = balance
      BY <1>9, <2>3 DEF Debit
    <3>2. balance' = balance + 0 /\ ledger' = ledger + 0
      BY <1>3, <2>1, <3>1
    <3>3. PC(r)' = "done"
      BY <1>3, <3>1, AnswerMove DEF Answers
    <3> QED BY <1>1, <1>2, <1>3, <2>1, <3>2, <3>3, BooksMove
  <2> QED BY <2>2, <2>3
<1>10. CASE DebitRow(r)
  <2>1. /\ PC(r) = "row" /\ charge' = charge /\ balance' = balance
        /\ ~Accident' => ledger' = ledger - charge[r] /\ PC(r)' = "create"
    BY <1>3, <1>5, <1>10, GotoMove DEF DebitRow, PCs
  <2> QED BY <1>1, <1>2, <1>3, <1>6, <2>1, BooksMove
<1>11. CASE Undo(r)
  <2>1. /\ PC(r) = "undo" /\ charge' = charge /\ ledger' = ledger
        /\ ~Accident' => balance' = balance + charge[r] /\ PC(r)' = "undoRow"
    BY <1>3, <1>5, <1>11, GotoMove DEF Undo, PCs
  <2>2. ~InSession
    BY <2>1 DEF PInv, Places
  <2> QED BY <1>1, <1>2, <1>3, <2>1, <2>2, BooksMove
<1>12. CASE UndoRow(r)
  <2>1. /\ PC(r) = "undoRow" /\ charge' = charge /\ balance' = balance
        /\ ~Accident' => ledger' = ledger + charge[r]
    BY <1>5, <1>12 DEF UndoRow
  <2>2. PC(r)' \in {"lookup", "done"}
    BY <1>3, <1>12, GotoMove, AnswerMove DEF UndoRow, AfterUndo, PCs, Answers
  <2> QED BY <1>1, <1>2, <1>3, <1>6, <2>1, <2>2, BooksMove
<1> QED BY <1>7, <1>8, <1>9, <1>10, <1>11, <1>12 DEF Handle

LEMMA BooksNext ==
  ASSUME PInv, PInv', Books, [Next]_vars
  PROVE  Books'
<1>t. TypeOK /\ TypeOK' /\ balance \in Int /\ ledger \in Int /\ Opening \in Int
  BY WalletAssumption DEF PInv, TypeOK
<1>1. ASSUME NEW r \in Requests, Submit(r) \/ Handle(r) PROVE Books'
  BY <1>1, <1>t, BooksRequest
<1>2. CASE Credit
  <2>1. UNCHANGED <<mode, charge, crashes, faults>> /\ balance' = balance + 1 /\ ledger' = ledger + 1
    BY <1>2 DEF Credit, Fixed, NoFault
  <2>2. \A q \in Requests : PC(q)' = PC(q)
    BY <1>2, <1>t, OutdatedType DEF Credit, PC
  <2>3. /\ Pile(Unbooked)' = Pile(Unbooked) /\ Pile(Restored)' = Pile(Restored)
        /\ Accident' = Accident /\ InSession' = InSession
    BY <2>1, <2>2 DEF Pile, Unbooked, Restored, Accident, InSession
  <2>4. \A S : IsFiniteSet(S) => Cardinality(S) \in Int
    BY FS_CardinalityType
  <2> QED BY <1>t, <2>1, <2>3, <2>4 DEF Books
<1>3. CASE SwapSupplier \/ UNCHANGED vars
  <2>1. UNCHANGED <<mode, charge, balance, ledger, task, crashes, faults>>
    BY <1>3 DEF SwapSupplier, Fixed, NoFault, WalletSame, vars
  <2> QED BY <2>1 DEF Books, Pile, Unbooked, Restored, Accident, InSession, PC
<1>4. CASE Crash
  <2>1. UNCHANGED <<mode, balance, ledger>> /\ crashes' = crashes + 1 /\ faults' = faults
    BY <1>4 DEF Crash, Fixed, NoFault, WalletSame
  <2>2. Accident'
    BY <1>t, <2>1 DEF Accident, TypeOK
  <2> QED BY <2>1, <2>2 DEF Books, InSession
<1> QED BY <1>1, <1>2, <1>3, <1>4 DEF Next

\* Where nothing has gone wrong and no debit is under way the balance is what the
\* wallet transactions say, and with transactions it always is
\* (debitWalletAtomic, refundWalletAtomic).
THEOREM LedgerExplainsBalance == Spec => []LedgerTellsBalance
<1>1. Books /\ TypeOK => LedgerTellsBalance
  <2> SUFFICES ASSUME Books, TypeOK, ~InSession, ~Accident,
                      \A r \in Requests : Answered(r) \/ PC(r) \in {"price", "attempt"}
               PROVE  balance = Opening + ledger
    BY DEF Books, LedgerTellsBalance
  <2>1. Pile(Unbooked) = {} /\ Pile(Restored) = {}
    BY DEF Pile, Unbooked, Restored, Answered
  <2> QED BY <2>1, FS_EmptySet, WalletAssumption DEF Books, TypeOK
<1>2. PInv /\ PInv' /\ Books /\ [Next]_vars => Books'
  BY BooksNext
<1> QED BY <1>1, <1>2, BooksInit, InvariantHolds, PurchaseTypesHold, PTL DEF Spec
=============================================================================
