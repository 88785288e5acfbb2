--------------------------- MODULE SuppliersProofs ---------------------------
(***************************************************************************)
(* Proofs about Suppliers for every set of adapters and every retry limit, *)
(* and about the answers that OrderFulfillment expects of a provider.      *)
(***************************************************************************)
EXTENDS AdapterAnswers, TLAPS

-----------------------------------------------------------------------------
(* The invariant *)

OrderDocs ==
  [status: {"PROCESSING", "COMPLETED", "PARTIAL", "FAILED", "MANUAL_REVIEW"},
   id: BOOLEAN, lookup: BOOLEAN, retry: 0 .. MaxChecks, limit: BOOLEAN]

Calls == [pc: {"new", "asked", "lookup", "returned", "done"},
          broken: Breaks \cup {"none"}, said: Words \cup {"nothing", "noid"}]

\* What may be said of an order at the adapter k that fails, completes or goes on,
\* when its supplier is at s and the last request broke like that or said that.
Justified(k, s, broken, said, status, limit, polled) ==
  /\ status = "FAILED" /\ s \in Held \cup {"sent"} =>
       \/ limit
       \/ k \in {"alkasr", "toros", "royal"}
       \/ k = "canonical" /\ said \in {"odd", "noid"}
  /\ status = "COMPLETED" =>
       \/ s \in {"delivered", "partial"}
       \/ k = "alkasr" /\ said = "absent" /\ broken = "none"
  /\ status = "PROCESSING" => polled \/ k \in {"xena", "brandone"}

\* PlacedAs of an order without a retry.
FirstPlaced(k, y, broken) ==
  LET missing == k = "xena" /\ y.success /\ ~y.id /\ y.uncertain /\ broken = "none"
      retried == ~y.id /\ (y.uncertain \/ (y.success /\ y.status = "Pending"))
  IN  IF (k = "coin" /\ ~y.presend /\ ~y.success) \/ missing THEN "MANUAL_REVIEW"
      ELSE IF retried THEN IF 1 >= MaxChecks THEN "MANUAL_REVIEW" ELSE "PROCESSING"
      ELSE IF y.uncertain THEN "PROCESSING"
      ELSE IF ~y.success THEN "FAILED"
      ELSE IF Internal(y.status) = "PARTIAL" THEN "COMPLETED" ELSE Internal(y.status)

\* The result of a placement gives rise to nothing else.
Founded(k, y, broken, said, s) ==
  /\ Justified(k, s, broken, said, FirstPlaced(k, y, broken), FALSE, y.id \/ y.lookup)
  /\ y.lookup => k = "canonical" /\ ~y.id
  /\ k = "coin" => ~y.id

\* Until the outcome is recorded the order is as it was created, and while the
\* request is under way the supplier has it.
Fresh ==
  /\ call.pc # "done" =>
       order = [status |-> "PROCESSING", id |-> FALSE, lookup |-> FALSE, retry |-> 0,
                limit |-> FALSE]
  /\ call.pc = "new" => sale = "none"
  /\ call.pc = "asked" => sale # "none"
  /\ call.pc \in {"new", "asked"} => call.broken = "none"
  /\ call.pc = "lookup" => adapter \in {"brandone", "canonical"}

\* A coin recharge has neither an id nor a course.
CoinIsOneShot ==
  adapter = "coin" => sale \in {"none", "sent", "refused", "delivered"} /\ ~order.id

\* An answer that has been returned and not yet recorded.
Answered ==
  call.pc = "returned" => Founded(adapter, result, call.broken, call.said, sale)

\* No order in processing has used up its checks.
Counted == order.status = "PROCESSING" => order.retry < MaxChecks

SInv ==
  /\ adapter \in Adapters /\ sale \in Sales /\ result \in Results /\ call \in Calls
  /\ order \in OrderDocs
  /\ order.lookup => adapter = "canonical" /\ ~order.id
  /\ Fresh /\ CoinIsOneShot /\ Answered /\ Counted
  /\ call.pc = "done" =>
       Justified(adapter, sale, call.broken, call.said, order.status, order.limit,
                 order.id \/ order.lookup)
-----------------------------------------------------------------------------
(* Its preservation *)

LEMMA InitJustified == SuppliersInit => SInv
BY MaxChecksAssumption
   DEF SuppliersInit, NewOrder, SInv, Fresh, CoinIsOneShot, Answered, Counted, OrderDocs, Calls,
       NoCall, Failure, Result, Results, ResultStatuses, Sales

LEMMA ResultTypes ==
  ASSUME NEW success \in BOOLEAN, NEW id \in BOOLEAN, NEW status \in ResultStatuses
  PROVE  /\ Result(success, id, status) \in Results
         /\ [Result(success, id, status) EXCEPT !.uncertain = TRUE] \in Results
BY DEF Result, Results

\* A result is returned: nothing else changes but the state of the sale.
LEMMA ReturnJustified ==
  ASSUME SInv, call.pc # "done",
         NEW y \in Results, NEW c \in Calls, NEW s \in Sales, c.pc = "returned",
         result' = y, call' = c, sale' = s, UNCHANGED <<adapter, order>>,
         adapter = "coin" => s \in {"none", "sent", "refused", "delivered"},
         Founded(adapter, y, c.broken, c.said, s)
  PROVE  SInv'
BY DEF SInv, Fresh, CoinIsOneShot, Answered, Counted

LEMMA PlaceJustified ==
  ASSUME SInv, NEW b \in BOOLEAN, Place(b)
  PROVE  SInv'
<1>1. CASE b
  BY <1>1
     DEF Place, SInv, Fresh, CoinIsOneShot, Answered, Counted, Calls, Sales
<1>2. CASE ~b
  <2> DEFINE y == [Failure EXCEPT !.presend = TRUE]
             c == [call EXCEPT !.pc = "returned"]
  <2>1. /\ y \in Results /\ ~y.success /\ y.presend /\ ~y.id /\ ~y.lookup /\ ~y.uncertain
        /\ c \in Calls /\ c.pc = "returned" /\ c.broken = call.broken /\ c.said = call.said
    BY DEF Failure, Result, Results, ResultStatuses, Calls, SInv
  <2>2. Founded(adapter, y, c.broken, c.said, "none")
    BY <2>1 DEF Founded, Justified, FirstPlaced, Held
  <2>3. /\ result' = y /\ call' = c /\ sale' = "none" /\ UNCHANGED <<adapter, order>>
        /\ call.pc # "done"
    BY <1>2 DEF Place, SInv, Fresh
  <2> HIDE DEF y, c
  <2> QED BY <2>1, <2>2, <2>3, ReturnJustified DEF Sales
<1> QED BY <1>1, <1>2

LEMMA DecisionJustified ==
  ASSUME SInv, NEW s \in Sales, SupplierDecides(s) \/ SaleEnds(s)
  PROVE  SInv'
BY DEF SupplierDecides, SaleEnds, SInv, Fresh, CoinIsOneShot, Answered, Counted, Founded, Justified,
       Sales, Held

\* What an adapter makes of a reply.
LEMMA PlacesJudged ==
  ASSUME NEW k \in Adapters, NEW r \in Replies, NEW s \in Sales, s \notin {"none", "sent"},
         k = "coin" => s \in {"refused", "delivered"},
         IF r.ok THEN s # "refused" /\ r.word \in Spoken(k, s)
         ELSE (s = "refused" \/ k = "coin") /\ ~r.id /\ r.word = "reject",
         ~Malformed(k, r)
  PROVE  /\ Places(k, r) \in Results
         /\ Founded(k, Places(k, r), "none", IF r.id THEN r.word ELSE "noid", s)
<1> USE MaxChecksAssumption DEF Founded, Justified, FirstPlaced, Internal, Result, Results, ResultStatuses, Failure,
    Spoken, Plain, Held, Sales, Replies, Words
<1>0. r.word \in Words /\ r.ok \in BOOLEAN /\ r.id \in BOOLEAN
  OBVIOUS
<1>1. CASE k = "alkasr"
  BY <1>0, <1>1 DEF Places, AlkasrPlaces, AlkasrStatus
<1>2. CASE k = "toros"
  BY <1>0, <1>2 DEF Places, TorosPlaces, TorosStatus, AlkasrStatus
<1>3. CASE k = "royal"
  BY <1>0, <1>3 DEF Places, RoyalPlaces, Raw
<1>4. CASE k = "brandone"
  BY <1>0, <1>4 DEF Places, BrandOnePlaces, BrandOneStatus, Malformed
<1>5. CASE k = "canonical"
  BY <1>0, <1>5 DEF Places, CanonicalPlaces, Raw
<1>6. CASE k = "xena"
  <2> DEFINE y == Places(k, r)
  <2>1. CASE r.word = "reject"
    <3>1. y = [success |-> FALSE, id |-> r.id, status |-> "Cancelled",
               uncertain |-> FALSE, presend |-> FALSE, lookup |-> FALSE]
      BY <1>6, <2>1 DEF Places, XenaPlaces
    <3>2. s \notin Held \cup {"sent"}
      BY <1>6, <2>1
    <3>3. y \in Results /\ ~y.success /\ ~y.uncertain /\ ~y.lookup /\ y.status = "Cancelled"
      BY <1>0, <3>1
    <3> HIDE DEF y
    <3>4. FirstPlaced(k, y, "none") = "FAILED"
      BY <1>6, <3>3
    <3> QED BY ONLY <1>6, <3>2, <3>3, <3>4 DEF y, Founded, Justified
  <2>2. CASE r.word # "reject"
    <3> DEFINE doubt == ~r.id \/ r.word = "unknown"
               st == XenaStatus(r.word)
    <3>1. y = [success |-> TRUE, id |-> r.id, status |-> st, uncertain |-> doubt,
               presend |-> FALSE, lookup |-> FALSE]
      BY <1>6, <2>2 DEF Places, XenaPlaces
    <3>2. /\ st \in {"Completed", "Pending", "Unknown"}
          /\ st = "Unknown" => doubt
          /\ st = "Completed" => s = "delivered"
          /\ doubt \in BOOLEAN /\ (~doubt => r.id)
      BY <1>0, <1>6, <2>2 DEF XenaStatus, BrandOneStatus
    <3> HIDE DEF y, st, doubt
    <3>3. /\ y \in Results /\ y.success /\ ~y.lookup
          /\ y.status \in {"Completed", "Pending", "Unknown"}
          /\ ~y.uncertain => y.status # "Unknown" /\ y.id
          /\ y.status = "Completed" => s = "delivered"
      BY ONLY <1>0, <3>1, <3>2 DEF Results, ResultStatuses
    <3>4. /\ FirstPlaced(k, y, "none") \in {"MANUAL_REVIEW", "PROCESSING", "COMPLETED"}
          /\ FirstPlaced(k, y, "none") = "COMPLETED" => y.status = "Completed"
      BY <1>6, <3>3
    <3> QED BY ONLY <1>6, <3>3, <3>4 DEF y, Founded, Justified
  <2> QED BY <2>1, <2>2
<1>7. CASE k = "coin"
  BY <1>0, <1>7 DEF Places, CoinPlaces, Doubt
<1> QED BY <1>1, <1>2, <1>3, <1>4, <1>5, <1>6, <1>7, AdaptersAssumption

\* What it makes of a request that broke.
LEMMA BreaksJudged ==
  ASSUME NEW k \in Adapters, NEW broken \in Breaks, NEW s \in Sales, NEW said,
         broken \in Declined => s = "refused", broken \in Unheard => s = "none",
         ~LooksUp(k, broken)
  PROVE  /\ BreaksTo(k, broken) \in Results
         /\ Founded(k, BreaksTo(k, broken), broken, said, s)
<1> USE MaxChecksAssumption DEF Founded, Justified, FirstPlaced, Internal, Result, Results, ResultStatuses, Failure,
    Held, Sales, Breaks, Declined, Unheard
<1>1. CASE k = "xena"
  BY <1>1 DEF BreaksTo, XenaBreaks, Doubt
<1>2. CASE k = "coin"
  BY <1>2 DEF BreaksTo, Doubt
<1>3. CASE k \notin {"xena", "coin"}
  BY <1>3, AdaptersAssumption DEF BreaksTo, LooksUp, Doubtful
<1> QED BY <1>1, <1>2, <1>3

\* What it makes of its own lookup.
LEMMA RecoveredJudged ==
  ASSUME NEW k \in {"brandone", "canonical"}, NEW s \in Sales, NEW broken, NEW word \in Words
  PROVE  /\ s \in Held \cup {"cancelled"} /\ word \in Spoken(k, s) =>
              /\ Recovered(k, word) \in Results
              /\ Founded(k, Recovered(k, word), broken, word, s)
         /\ Unrecovered(k) \in Results
         /\ \A said : Founded(k, Unrecovered(k), broken, said, s)
<1> USE MaxChecksAssumption DEF Founded, Justified, FirstPlaced, Internal, Result, Results, ResultStatuses,
    Held, Sales, Words
<1>1. s \in Held \cup {"cancelled"} /\ word \in Spoken(k, s) =>
        /\ Recovered(k, word) \in Results
        /\ Founded(k, Recovered(k, word), broken, word, s)
  BY DEF Recovered, BrandOneStatus, Raw, Spoken, Plain
<1>2. Unrecovered(k) \in Results
  BY DEF Unrecovered, Doubt
<1>3. ASSUME NEW said PROVE Founded(k, Unrecovered(k), broken, said, s)
  BY DEF Unrecovered, Doubt
<1> HIDE DEF Founded
<1> QED BY <1>1, <1>2, <1>3
LEMMA ReplyJustified ==
  ASSUME SInv, NEW r \in Replies, Reply(r)
  PROVE  SInv'
<1>1. CASE Malformed(adapter, r)
  BY <1>1 DEF Reply, Malformed, SInv, Fresh, CoinIsOneShot, Answered, Counted, Calls
<1>2. CASE ~Malformed(adapter, r)
  <2> DEFINE said == IF r.id THEN r.word ELSE "noid"
             c == [call EXCEPT !.pc = "returned", !.said = said]
  <2>1. /\ call.pc = "asked" /\ sale # "sent" /\ Truthful(r) /\ UNCHANGED <<adapter, sale, order>>
        /\ call' = c /\ result' = Places(adapter, r)
    BY <1>2 DEF Reply
  <2>2. /\ adapter \in Adapters /\ sale \in Sales /\ sale \notin {"none", "sent"}
        /\ adapter = "coin" => sale \in {"refused", "delivered"}
        /\ call.broken = "none" /\ call \in Calls
    BY <2>1 DEF SInv, Fresh, CoinIsOneShot
  <2>3. Places(adapter, r) \in Results /\ Founded(adapter, Places(adapter, r), "none", said, sale)
    BY <1>2, <2>1, <2>2, PlacesJudged DEF Truthful
  <2>4. c \in Calls /\ c.pc = "returned" /\ c.broken = "none" /\ c.said = said
    BY <2>2 DEF Calls, Replies
  <2> HIDE DEF c, said
  <2> QED BY <2>1, <2>2, <2>3, <2>4, ReturnJustified
<1> QED BY <1>1, <1>2

LEMMA BreakJustified ==
  ASSUME SInv, NEW broken \in Breaks, Break(broken)
  PROVE  SInv'
<1>1. CASE LooksUp(adapter, broken)
  BY <1>1 DEF Break, LooksUp, SInv, Fresh, CoinIsOneShot, Answered, Counted, Calls, Sales
<1>2. CASE ~LooksUp(adapter, broken)
  <2> DEFINE s == IF broken \in Unheard THEN "none" ELSE sale
             c == [call EXCEPT !.pc = "returned", !.broken = broken]
  <2>1. /\ call.pc = "asked" /\ UNCHANGED <<adapter, order>>
        /\ sale' = s /\ call' = c /\ result' = BreaksTo(adapter, broken)
    BY <1>2 DEF Break
  <2>2. /\ broken \in Declined => s = "refused"
        /\ broken \in Unheard => s = "none"
    BY DEF Break, Declined, Unheard
  <2>3. /\ adapter \in Adapters /\ s \in Sales
        /\ adapter = "coin" => s \in {"none", "sent", "refused", "delivered"}
    BY DEF SInv, CoinIsOneShot, Sales
  <2>4. c \in Calls /\ c.pc = "returned" /\ c.broken = broken
    BY DEF Calls, SInv
  <2> HIDE DEF c, s
  <2>5. /\ BreaksTo(adapter, broken) \in Results
        /\ Founded(adapter, BreaksTo(adapter, broken), broken, c.said, s)
    BY <1>2, <2>2, <2>3, BreaksJudged
  <2> QED BY <2>1, <2>3, <2>4, <2>5, ReturnJustified
<1> QED BY <1>1, <1>2

LEMMA RecoverJustified ==
  ASSUME SInv, NEW word \in Words, Recover(word) \/ RecoverInVain
  PROVE  SInv'
<1>1. /\ call.pc = "lookup" /\ UNCHANGED <<adapter, sale, order>>
      /\ adapter \in {"brandone", "canonical"} /\ adapter \in Adapters /\ sale \in Sales
      /\ call \in Calls
  BY DEF Recover, RecoverInVain, SInv, Fresh
<1>2. CASE Recover(word)
  <2> DEFINE c == [call EXCEPT !.pc = "returned", !.said = word]
  <2>1. c \in Calls /\ c.pc = "returned" /\ c.broken = call.broken /\ c.said = word
    BY <1>1 DEF Calls
  <2>2. /\ Recovered(adapter, word) \in Results
        /\ Founded(adapter, Recovered(adapter, word), call.broken, word, sale)
    BY <1>1, <1>2, RecoveredJudged DEF Recover
  <2>3. result' = Recovered(adapter, word) /\ call' = c
    BY <1>2 DEF Recover
  <2> HIDE DEF c
  <2> QED BY <1>1, <2>1, <2>2, <2>3, ReturnJustified
<1>3. CASE RecoverInVain
  <2> DEFINE c == [call EXCEPT !.pc = "returned"]
  <2>1. c \in Calls /\ c.pc = "returned" /\ c.broken = call.broken /\ c.said = call.said
    BY <1>1 DEF Calls
  <2>2. /\ Unrecovered(adapter) \in Results
        /\ Founded(adapter, Unrecovered(adapter), call.broken, call.said, sale)
    BY <1>1, RecoveredJudged
  <2>3. result' = Unrecovered(adapter) /\ call' = c
    BY <1>3 DEF RecoverInVain
  <2> HIDE DEF c
  <2> QED BY <1>1, <2>1, <2>2, <2>3, ReturnJustified
<1> QED BY <1>2, <1>3

\* The outcome is recorded as it was judged.
LEMMA RecordJustified ==
  ASSUME SInv, Record
  PROVE  SInv'
<1> DEFINE st == FirstPlaced(adapter, result, call.broken)
<1>1. /\ call.pc = "returned" /\ call' = [call EXCEPT !.pc = "done"]
      /\ UNCHANGED <<adapter, sale, result>>
      /\ Founded(adapter, result, call.broken, call.said, sale)
      /\ result \in Results /\ call \in Calls /\ order \in OrderDocs
      /\ order.retry = 0 /\ ~order.limit
  BY DEF Record, SInv, Fresh, Answered
<1>2. PlacedAs(adapter, result) = st
  BY <1>1 DEF PlacedAs, FirstPlaced
<1> HIDE DEF st
<1>3. /\ order'.status = st /\ order'.id = result.id /\ order'.lookup = result.lookup
      /\ order'.retry = (IF result.id THEN 0 ELSE 1) /\ order'.limit = FALSE
      /\ order' = [status |-> st, id |-> result.id, lookup |-> result.lookup,
                   retry |-> (IF result.id THEN 0 ELSE 1), limit |-> FALSE]
  <2>1. order' = [order EXCEPT !.status = st, !.id = result.id, !.lookup = result.lookup,
                               !.retry = IF result.id THEN @ ELSE @ + 1]
    BY <1>2 DEF Record
  <2>2. CASE result.id
    <3>1. order' = [order EXCEPT !.status = st, !.id = result.id, !.lookup = result.lookup]
      BY <1>1, <2>1, <2>2 DEF OrderDocs
    <3> QED BY <1>1, <2>2, <3>1 DEF OrderDocs
  <2>3. CASE ~result.id
    <3>1. order' = [order EXCEPT !.status = st, !.id = result.id, !.lookup = result.lookup,
                                 !.retry = 1]
      BY <1>1, <2>1, <2>3 DEF OrderDocs
    <3> QED BY <1>1, <2>3, <3>1 DEF OrderDocs
  <2> QED BY <2>2, <2>3
<1>4. /\ st \in {"PROCESSING", "COMPLETED", "FAILED", "MANUAL_REVIEW"}
      /\ st = "PROCESSING" /\ ~result.id => 1 < MaxChecks
  BY <1>1, MaxChecksAssumption DEF st, FirstPlaced, Internal, Results, ResultStatuses
<1>5. order' \in OrderDocs
  BY <1>1, <1>3, <1>4, MaxChecksAssumption DEF OrderDocs, Results
<1>6. call' \in Calls /\ call'.pc = "done" /\ call'.broken = call.broken /\ call'.said = call.said
  BY <1>1 DEF Calls
<1>7. Justified(adapter, sale, call.broken, call.said, st, FALSE, result.id \/ result.lookup)
  BY <1>1 DEF Founded, st
<1>8. /\ result.lookup => adapter = "canonical" /\ ~result.id
      /\ adapter = "coin" => ~result.id /\ sale \in {"none", "sent", "refused", "delivered"}
      /\ adapter \in Adapters /\ sale \in Sales
  BY <1>1 DEF Founded, SInv, CoinIsOneShot
<1>9. Fresh' /\ CoinIsOneShot' /\ Answered'
  BY <1>1, <1>3, <1>6, <1>8 DEF Fresh, CoinIsOneShot, Answered
<1>10. Counted'
  BY <1>3, <1>4, MaxChecksAssumption DEF Counted
<1> HIDE DEF Justified
<1> QED BY <1>1, <1>3, <1>5, <1>6, <1>7, <1>8, <1>9, <1>10 DEF SInv
\* Outcomes after the placement: only an order in processing is touched.
LEMMA LookUpJustified ==
  ASSUME SInv, NEW found \in BOOLEAN, LookUp(found)
  PROVE  SInv'
<1>1. /\ call.pc = "done" /\ order.status = "PROCESSING" /\ order.lookup /\ ~order.id
      /\ UNCHANGED <<adapter, sale, call, result>> /\ adapter = "canonical"
      /\ order \in OrderDocs /\ order.retry < MaxChecks /\ order.retry + 1 \in 0 .. MaxChecks
  BY MaxChecksAssumption DEF LookUp, SInv, Counted, OrderDocs
<1>2. CASE found
  <2>1. order' = [order EXCEPT !.id = TRUE, !.lookup = FALSE]
    BY <1>2 DEF LookUp
  <2>2. /\ order' \in OrderDocs /\ order'.id /\ ~order'.lookup /\ order'.status = "PROCESSING"
        /\ order'.retry = order.retry
    BY <1>1, <2>1 DEF OrderDocs
  <2> QED BY <1>1, <2>2 DEF SInv, Fresh, CoinIsOneShot, Answered, Counted, Justified
<1>3. CASE ~found
  <2> DEFINE st == IF order.retry + 1 >= MaxChecks THEN "MANUAL_REVIEW" ELSE "PROCESSING"
  <2>1. order' = [order EXCEPT !.retry = order.retry + 1, !.status = st]
    BY <1>1, <1>3 DEF LookUp, OrderDocs
  <2>2. /\ st \in {"MANUAL_REVIEW", "PROCESSING"}
        /\ st = "PROCESSING" => order.retry + 1 < MaxChecks
    BY <1>1, MaxChecksAssumption DEF OrderDocs
  <2> HIDE DEF st
  <2>3. /\ order' \in OrderDocs /\ ~order'.id /\ order'.lookup /\ order'.status = st
        /\ order'.retry = order.retry + 1
    BY <1>1, <2>1, <2>2 DEF OrderDocs
  <2> QED BY <1>1, <2>2, <2>3 DEF SInv, Fresh, CoinIsOneShot, Answered, Counted, Justified
<1> QED BY <1>2, <1>3

\* What a status check says of the sale.
LEMMA ChecksJudged ==
  ASSUME NEW k \in Adapters \ {"coin"}, NEW s \in Sales \ {"sent"}, NEW word \in Spoken(k, s)
  PROVE  LET y == Checked(k, word)
         IN  /\ y \in Results
             /\ ~y.uncertain /\ y.status = "Completed" => s = "delivered"
             /\ ~y.uncertain /\ y.status \in {"Cancelled", "Unknown"} =>
                  s \notin Held \cup {"sent"} \/ k \in {"alkasr", "toros", "royal"}
<1> USE DEF Result, Results, ResultStatuses, Spoken, Plain, Held, Sales, Words
<1>0. word \in Words
  OBVIOUS
<1>1. CASE k = "alkasr"
  BY <1>0, <1>1 DEF Checked, AlkasrChecks, AlkasrStatus
<1>2. CASE k = "toros"
  BY <1>0, <1>2 DEF Checked, TorosChecks, TorosStatus, AlkasrStatus
<1>3. CASE k = "royal"
  BY <1>0, <1>3 DEF Checked, RoyalChecks, Raw
<1>4. CASE k = "brandone"
  BY <1>0, <1>4 DEF Checked, BrandOneChecks, BrandOneStatus
<1>5. CASE k = "canonical"
  BY <1>0, <1>5 DEF Checked, CanonicalChecks, Raw
<1>6. CASE k = "xena"
  <2> DEFINE doubt == word = "unknown"
             st == XenaStatus(word)
             y == Checked(k, word)
  <2>1. y = [success |-> TRUE, id |-> TRUE, status |-> st, uncertain |-> doubt,
             presend |-> FALSE, lookup |-> FALSE]
    BY <1>6 DEF Checked, XenaChecks
  <2>2. /\ st \in {"Completed", "Pending", "Unknown", "Cancelled"}
        /\ st = "Unknown" => doubt
        /\ st = "Completed" => s = "delivered"
        /\ st = "Cancelled" => s \notin Held \cup {"sent"}
        /\ doubt \in BOOLEAN
    BY <1>0, <1>6 DEF XenaStatus, BrandOneStatus
  <2> HIDE DEF y, st, doubt
  <2>3. y \in Results /\ y.status = st /\ y.uncertain = doubt
    BY ONLY <2>1, <2>2 DEF Results, ResultStatuses
  <2> QED BY ONLY <2>2, <2>3 DEF y
<1> QED BY <1>1, <1>2, <1>3, <1>4, <1>5, <1>6, AdaptersAssumption

LEMMA CheckJustified ==
  ASSUME SInv, NEW word \in Words, Check(word)
  PROVE  SInv'
<1> DEFINE y == Checked(adapter, word)
           c == [call EXCEPT !.said = word]
<1>1. /\ call.pc = "done" /\ order.status = "PROCESSING" /\ order.id /\ sale # "sent"
      /\ UNCHANGED <<adapter, sale>>
      /\ adapter \in Adapters \ {"coin"} /\ sale \in Sales \ {"sent"}
      /\ order \in OrderDocs /\ order.retry < MaxChecks /\ order.retry + 1 \in 0 .. MaxChecks
      /\ ~order.lookup /\ call \in Calls /\ word \in Spoken(adapter, sale)
  BY MaxChecksAssumption DEF Check, SInv, Counted, CoinIsOneShot, OrderDocs
<1>2. result' = y /\ order' = CheckedAs(order, y) /\ call' = c
  BY DEF Check
<1>3. /\ y \in Results
      /\ ~y.uncertain /\ y.status = "Completed" => sale = "delivered"
      /\ ~y.uncertain /\ y.status \in {"Cancelled", "Unknown"} =>
           sale \notin Held \cup {"sent"} \/ adapter \in {"alkasr", "toros", "royal"}
  BY <1>1, ChecksJudged
<1>4. c \in Calls /\ c.pc = "done"
  BY <1>1 DEF Calls
<1> HIDE DEF y, c
<1>5. /\ order' \in OrderDocs /\ order'.id /\ ~order'.lookup
      /\ order'.status = "FAILED" =>
           order'.limit \/ (~y.uncertain /\ y.status \in {"Cancelled", "Unknown"})
      /\ order'.status = "COMPLETED" => ~y.uncertain /\ y.status = "Completed"
      /\ order'.status = "PROCESSING" => order'.retry < MaxChecks
  <2>1. CASE ~y.uncertain /\ y.status = "Odd"
    BY <1>1, <1>2, <2>1 DEF CheckedAs
  <2>2. CASE ~y.uncertain /\ y.status # "Odd" /\ Internal(y.status) # "PROCESSING"
    <3>1. order' = [order EXCEPT !.status = Internal(y.status)]
      BY <1>2, <2>2 DEF CheckedAs
    <3>2. /\ Internal(y.status) \in {"COMPLETED", "PARTIAL", "FAILED"}
          /\ Internal(y.status) = "COMPLETED" => y.status = "Completed"
          /\ Internal(y.status) = "FAILED" => y.status \in {"Cancelled", "Unknown"}
      BY <1>3, <2>2 DEF Internal, Results, ResultStatuses
    <3> QED BY <1>1, <2>2, <3>1, <3>2 DEF OrderDocs
  <2>3. CASE (y.uncertain \/ Internal(y.status) = "PROCESSING") /\ order.retry + 1 < MaxChecks
    <3>1. order' = [order EXCEPT !.retry = order.retry + 1]
      BY <1>2, <2>3 DEF CheckedAs, Internal
    <3> QED BY <1>1, <2>3, <3>1 DEF OrderDocs
  <2>4. CASE (y.uncertain \/ Internal(y.status) = "PROCESSING") /\ ~(order.retry + 1 < MaxChecks)
    <3>1. order' = [order EXCEPT !.retry = order.retry + 1, !.limit = TRUE,
                      !.status = IF y.uncertain THEN "MANUAL_REVIEW" ELSE "FAILED"]
      BY <1>1, <1>2, <2>4 DEF CheckedAs, Internal, OrderDocs
    <3> QED BY <1>1, <3>1 DEF OrderDocs
  <2> QED BY <2>1, <2>2, <2>3, <2>4
<1>6. Justified(adapter, sale, c.broken, c.said, order'.status, order'.limit, TRUE)
  BY <1>3, <1>5 DEF Justified
<1> QED BY <1>1, <1>2, <1>3, <1>4, <1>5, <1>6
     DEF SInv, Fresh, CoinIsOneShot, Answered, Counted, Justified

LEMMA NextJustified == SInv /\ [SuppliersNext]_supplierVars => SInv'
<1> SUFFICES ASSUME SInv, [SuppliersNext]_supplierVars PROVE SInv'
  OBVIOUS
<1>1. CASE UNCHANGED supplierVars
  BY <1>1 DEF supplierVars, SInv, Fresh, CoinIsOneShot, Answered, Counted
<1>2. CASE RecoverInVain
  BY <1>2, RecoverJustified DEF Words
<1> QED BY <1>1, <1>2, PlaceJustified, LookUpJustified, DecisionJustified, ReplyJustified,
           BreakJustified, RecoverJustified, CheckJustified, RecordJustified DEF SuppliersNext

LEMMA SInvIsTyped == SInv => SuppliersTypeOK
BY DEF SInv, SuppliersTypeOK, Calls, OrderDocs

LEMMA SuppliersInvariant == SuppliersSpec => []SInv
BY InitJustified, NextJustified, PTL DEF SuppliersSpec

\* Whatever a supplier says or does not say, results, calls and orders keep to
\* their types, and only CanonicalB2B's lost placements are marked for a lookup.
THEOREM SuppliersTypesHold == SuppliersSpec => []SuppliersTypeOK
BY SInvIsTyped, SuppliersInvariant, PTL

\* No order fails while its supplier holds it, but for the reasons that
\* NoRefundOfASale names.
THEOREM SalesAreNotRefunded == SuppliersSpec => []NoRefundOfASale
<1>1. SInv => NoRefundOfASale
  BY DEF SInv, Fresh, NoRefundOfASale, Justified
<1> QED BY <1>1, SuppliersInvariant, PTL

\* Only what was delivered, in part at least, is completed, but for Alkasr's bare
\* OK.
THEOREM CompletionsWereDelivered == SuppliersSpec => []CompletedIsDelivered
<1>1. SInv => CompletedIsDelivered
  BY DEF SInv, Fresh, CompletedIsDelivered, Justified
<1> QED BY <1>1, SuppliersInvariant, PTL

\* Every recorded order that goes on is one the poller selects, but for
\* BrandOneCard.
THEOREM WaitingOrdersArePolled == SuppliersSpec => []WaitingIsPolled
<1>1. SInv => WaitingIsPolled
  BY DEF SInv, WaitingIsPolled, Justified
<1> QED BY <1>1, SuppliersInvariant, PTL
-----------------------------------------------------------------------------
(* The adapters against OrderFulfillment *)

\* AsAnswer and EngineKind, on values.
AnswerOf(k, y, broken) ==
  IF y.lookup THEN "unplaced"
  ELSE IF y.uncertain
       THEN IF y.id \/ ~y.success THEN "unknown"
            ELSE IF k = "xena" /\ broken = "none" THEN "missing" ELSE "lost"
  ELSE IF ~y.success THEN IF y.id THEN "cancelled" ELSE "rejected"
  ELSE CASE y.status = "Pending" -> IF y.id THEN "working" ELSE "lost"
         [] y.status = "Completed" -> "delivered"
         [] y.status = "Partial" -> "partial"
         [] OTHER -> "unmapped"

\* The answers that say nothing of the sale.
Vague(k) ==
  CASE k = "xena" -> {"lost", "missing"} [] k = "coin" -> {"unknown"}
    [] k = "canonical" -> {"unplaced"} [] OTHER -> {"lost", "rejected"}

\* What the engine reckons with when it is given that answer for a sale at s.
Foreseen(k, s, st, id) ==
  \/ ~id /\ st \in Vague(k)
  \/ ~id /\ st = "rejected" /\ s \in {"none", "refused", "cancelled"}
  \/ ~id /\ st = "delivered" /\ s = "delivered" /\ k = "coin"
  \/ /\ id /\ k # "coin" /\ s \in Held \cup {"cancelled"}
     /\ st \in {s, "working", "unmapped"} \/ (k = "xena" /\ st = "unknown")

Heard(k, s, y, broken, said) ==
  \/ Foreseen(k, s, AnswerOf(k, y, broken), y.id)
  \/ k = "alkasr" /\ said = "absent"
  \/ k = "canonical" /\ said = "noid"

HInv == SInv /\ (call.pc = "returned" => Heard(adapter, sale, result, call.broken, call.said))

LEMMA ForeseenIsTold ==
  ASSUME adapter \in Adapters, sale \in Sales, NEW st, NEW id \in BOOLEAN,
         Foreseen(adapter, sale, st, id), adapter = "coin" => sale # "cancelled"
  PROVE  Engine!Reply(st, id) \in Tellable
<1> DEFINE now == IF sale \in {"sent", "refused"} THEN "none" ELSE sale
           before == IF adapter # "coin" /\ sale \in Held \cup {"cancelled"} THEN {"working"} ELSE {}
           states == {now} \cup before \cup (IF sale = "cancelled" THEN {"none"} ELSE {})
<1>1. ASSUME NEW s \in states, Engine!Reply(st, id) \in Engine!PlaceReplies(EngineKind, s)
      PROVE  Engine!Reply(st, id) \in Tellable
  BY <1>1 DEF Tellable
<1>2. CASE ~id /\ st \in Vague(adapter)
  <2>1. st \in Engine!Ambiguous(EngineKind)
    BY <1>2, AdaptersAssumption DEF Vague, Engine!Ambiguous, EngineKind
  <2>2. \E s \in states : s \in {"none", "working"} \/ adapter = "coin"
    BY DEF Sales, Held
  <2> QED BY <1>1, <1>2, <2>1, <2>2 DEF Engine!PlaceReplies, EngineKind
<1>3. CASE ~id /\ st = "rejected" /\ sale \in {"none", "refused", "cancelled"}
  <2>1. "none" \in states
    BY <1>3
  <2> QED BY <1>1, <1>3, <2>1 DEF Engine!PlaceReplies
<1>4. CASE ~id /\ st = "delivered" /\ sale = "delivered" /\ adapter = "coin"
  <2>1. "delivered" \in states /\ EngineKind = "coin"
    BY <1>4 DEF EngineKind
  <2> QED BY <1>1, <1>4, <2>1 DEF Engine!PlaceReplies
<1>5. CASE /\ id /\ adapter # "coin" /\ sale \in Held \cup {"cancelled"}
           /\ st \in {sale, "working", "unmapped"} \/ (adapter = "xena" /\ st = "unknown")
  <2>1. sale \in states /\ "working" \in states /\ sale # "none"
    BY <1>5 DEF Held
  <2>2. EngineKind # "coin" /\ (adapter = "xena" => EngineKind = "xena")
    BY <1>5 DEF EngineKind
  <2> QED BY <1>1, <1>5, <2>1, <2>2 DEF Engine!PlaceReplies
<1> QED BY <1>2, <1>3, <1>4, <1>5 DEF Foreseen

LEMMA PlacesForeseen ==
  ASSUME NEW k \in Adapters, NEW r \in Replies, NEW s \in Sales, s \notin {"none", "sent"},
         k = "coin" => s \in {"refused", "delivered"},
         IF r.ok THEN s # "refused" /\ r.word \in Spoken(k, s)
         ELSE (s = "refused" \/ k = "coin") /\ ~r.id /\ r.word = "reject",
         ~Malformed(k, r)
  PROVE  Heard(k, s, Places(k, r), "none", IF r.id THEN r.word ELSE "noid")
<1> USE DEF Heard, Foreseen, AnswerOf, Vague, Result, Failure, Spoken, Plain, Held, Sales, Replies,
            Words
<1>0. r.word \in Words /\ r.ok \in BOOLEAN /\ r.id \in BOOLEAN
  OBVIOUS
<1>1. CASE k = "alkasr"
  BY <1>0, <1>1 DEF Places, AlkasrPlaces, AlkasrStatus
<1>2. CASE k = "toros"
  BY <1>0, <1>2 DEF Places, TorosPlaces, TorosStatus, AlkasrStatus
<1>3. CASE k = "royal"
  BY <1>0, <1>3 DEF Places, RoyalPlaces, Raw
<1>4. CASE k = "brandone"
  BY <1>0, <1>4 DEF Places, BrandOnePlaces, BrandOneStatus, Malformed
<1>5. CASE k = "canonical"
  BY <1>0, <1>5 DEF Places, CanonicalPlaces, Raw
<1>6. CASE k = "xena"
  BY <1>0, <1>6 DEF Places, XenaPlaces, XenaStatus, BrandOneStatus
<1>7. CASE k = "coin"
  BY <1>0, <1>7 DEF Places, CoinPlaces, Doubt
<1> QED BY <1>1, <1>2, <1>3, <1>4, <1>5, <1>6, <1>7, AdaptersAssumption

LEMMA BreaksForeseen ==
  ASSUME NEW k \in Adapters, NEW broken \in Breaks, NEW s \in Sales, NEW said,
         broken \in Declined => s = "refused", broken \in Unheard => s = "none",
         ~LooksUp(k, broken)
  PROVE  Heard(k, s, BreaksTo(k, broken), broken, said)
<1> USE DEF Heard, Foreseen, AnswerOf, Vague, Result, Failure, Breaks, Declined, Unheard
<1>1. CASE k = "xena"
  BY <1>1 DEF BreaksTo, XenaBreaks, Doubt
<1>2. CASE k = "coin"
  BY <1>2 DEF BreaksTo, Doubt
<1>3. CASE k \notin {"xena", "coin"}
  BY <1>3, AdaptersAssumption DEF BreaksTo, LooksUp, Doubtful
<1> QED BY <1>1, <1>2, <1>3

LEMMA RecoveredForeseen ==
  ASSUME NEW k \in {"brandone", "canonical"}, NEW s \in Sales, NEW broken, NEW word \in Words
  PROVE  /\ s \in Held \cup {"cancelled"} /\ word \in Spoken(k, s) =>
              Heard(k, s, Recovered(k, word), broken, word)
         /\ \A said : Heard(k, s, Unrecovered(k), broken, said)
<1> USE DEF Heard, Foreseen, AnswerOf, Vague, Result, Held, Sales, Words
<1>1. s \in Held \cup {"cancelled"} /\ word \in Spoken(k, s) =>
        Heard(k, s, Recovered(k, word), broken, word)
  BY DEF Recovered, BrandOneStatus, Raw, Spoken, Plain
<1>2. ASSUME NEW said PROVE Heard(k, s, Unrecovered(k), broken, said)
  BY DEF Unrecovered, Doubt
<1> HIDE DEF Heard
<1> QED BY <1>1, <1>2

\* The supplier's later decisions make no answer unforeseen.
LEMMA DecisionHeard ==
  ASSUME HInv, NEW s \in Sales, SupplierDecides(s) \/ SaleEnds(s)
  PROVE  HInv'
<1>1. SInv'
  BY DecisionJustified DEF HInv
<1>2. /\ \/ sale = "sent"
         \/ sale = "working" /\ s \in {"delivered", "partial", "cancelled"}
      /\ sale' = s /\ UNCHANGED <<adapter, call, result>>
  BY DEF SupplierDecides, SaleEnds
<1>3. ASSUME NEW k, NEW st, NEW id, Foreseen(k, sale, st, id)
      PROVE  Foreseen(k, s, st, id)
  BY <1>2, <1>3 DEF Foreseen, Held
<1> HIDE DEF Foreseen
<1>4. ASSUME NEW k, NEW y, NEW broken, NEW said, Heard(k, sale, y, broken, said)
      PROVE  Heard(k, s, y, broken, said)
  BY <1>3, <1>4 DEF Heard
<1> HIDE DEF Heard, SInv
<1> QED BY <1>1, <1>2, <1>4 DEF HInv

LEMMA ReplyHeard ==
  ASSUME HInv, NEW r \in Replies, Reply(r)
  PROVE  HInv'
<1>1. SInv'
  BY ReplyJustified DEF HInv
<1>2. CASE Malformed(adapter, r)
  BY <1>1, <1>2 DEF Reply, HInv, SInv, Calls
<1>3. CASE ~Malformed(adapter, r)
  <2> DEFINE said == IF r.id THEN r.word ELSE "noid"
  <2>1. /\ call.pc = "asked" /\ sale # "sent" /\ Truthful(r) /\ UNCHANGED <<adapter, sale>>
        /\ call' = [call EXCEPT !.pc = "returned", !.said = said]
        /\ result' = Places(adapter, r)
    BY <1>3 DEF Reply
  <2>2. /\ adapter \in Adapters /\ sale \in Sales /\ sale \notin {"none", "sent"}
        /\ adapter = "coin" => sale \in {"refused", "delivered"}
        /\ call.broken = "none" /\ call \in Calls
    BY <2>1 DEF HInv, SInv, Fresh, CoinIsOneShot
  <2>3. Heard(adapter, sale, Places(adapter, r), "none", said)
    BY <1>3, <2>1, <2>2, PlacesForeseen DEF Truthful
  <2>4. call'.broken = "none" /\ call'.said = said
    BY <2>1, <2>2 DEF Calls
  <2> HIDE DEF said, Heard, SInv
  <2> QED BY <1>1, <2>1, <2>3, <2>4 DEF HInv
<1> QED BY <1>2, <1>3

LEMMA BreakHeard ==
  ASSUME HInv, NEW broken \in Breaks, Break(broken)
  PROVE  HInv'
<1>1. SInv' /\ SInv
  BY BreakJustified DEF HInv
<1>2. CASE LooksUp(adapter, broken)
  BY <1>1, <1>2 DEF Break, HInv, SInv, Calls
<1>3. CASE ~LooksUp(adapter, broken)
  <2>1. /\ UNCHANGED adapter
        /\ call' = [call EXCEPT !.pc = "returned", !.broken = broken]
        /\ result' = BreaksTo(adapter, broken)
    BY <1>3 DEF Break
  <2>2. /\ broken \in Declined => sale' = "refused"
        /\ broken \in Unheard => sale' = "none"
    BY DEF Break, Declined, Unheard
  <2>3. adapter \in Adapters /\ sale' \in Sales /\ call'.broken = broken
    BY <1>1, <2>1 DEF SInv, Calls
  <2>4. Heard(adapter, sale', BreaksTo(adapter, broken), broken, call'.said)
    BY <1>3, <2>2, <2>3, BreaksForeseen
  <2> HIDE DEF Heard, SInv
  <2> QED BY <1>1, <2>1, <2>3, <2>4 DEF HInv
<1> QED BY <1>2, <1>3

LEMMA RecoverHeard ==
  ASSUME HInv, NEW word \in Words, Recover(word) \/ RecoverInVain
  PROVE  HInv'
<1>1. SInv' /\ SInv
  BY RecoverJustified DEF HInv
<1>2. /\ adapter \in {"brandone", "canonical"} /\ sale \in Sales /\ call \in Calls
      /\ UNCHANGED <<adapter, sale>> /\ call'.broken = call.broken
  BY <1>1 DEF Recover, RecoverInVain, SInv, Fresh, Calls
<1>3. CASE Recover(word)
  <2>1. result' = Recovered(adapter, word) /\ call'.said = word
    BY <1>2, <1>3 DEF Recover, Calls
  <2>2. Heard(adapter, sale, Recovered(adapter, word), call.broken, word)
    BY <1>2, <1>3, RecoveredForeseen DEF Recover
  <2> HIDE DEF Heard, SInv
  <2> QED BY <1>1, <1>2, <2>1, <2>2 DEF HInv
<1>4. CASE RecoverInVain
  <2>1. result' = Unrecovered(adapter)
    BY <1>4 DEF RecoverInVain
  <2>2. Heard(adapter, sale, Unrecovered(adapter), call.broken, call'.said)
    BY <1>2, RecoveredForeseen
  <2> HIDE DEF Heard, SInv
  <2> QED BY <1>1, <1>2, <2>1, <2>2 DEF HInv
<1> QED BY <1>3, <1>4

LEMMA PlaceHeard ==
  ASSUME HInv, NEW b \in BOOLEAN, Place(b)
  PROVE  HInv'
<1>1. SInv' /\ SInv
  BY PlaceJustified DEF HInv
<1>2. CASE b
  BY <1>1, <1>2 DEF Place, HInv, SInv, Calls
<1>3. CASE ~b
  <2>1. /\ result' = [Failure EXCEPT !.presend = TRUE] /\ UNCHANGED <<adapter, sale>>
        /\ sale = "none"
    BY <1>1, <1>3 DEF Place, SInv, Fresh
  <2>2. ~result'.success /\ ~result'.id /\ ~result'.lookup /\ ~result'.uncertain
    BY <2>1 DEF Failure, Result
  <2>3. Heard(adapter, sale, result', call'.broken, call'.said)
    BY <2>1, <2>2 DEF Heard, Foreseen, AnswerOf
  <2> HIDE DEF Heard, SInv
  <2> QED BY <1>1, <2>1, <2>3 DEF HInv
<1> QED BY <1>2, <1>3

LEMMA NextHeard == HInv /\ [SuppliersNext]_supplierVars => HInv'
<1> SUFFICES ASSUME HInv, [SuppliersNext]_supplierVars PROVE HInv'
  OBVIOUS
<1>1. SInv' /\ SInv
  BY NextJustified DEF HInv
<1>2. ASSUME UNCHANGED supplierVars PROVE HInv'
  <2>1. UNCHANGED <<adapter, sale, call, result>>
    BY <1>2 DEF supplierVars
  <2> HIDE DEF Heard, SInv
  <2> QED BY <1>1, <2>1 DEF HInv
<1>3. ASSUME Record \/ (\E b \in BOOLEAN : LookUp(b)) \/ (\E word \in Words : Check(word))
      PROVE  HInv'
  BY <1>1, <1>3 DEF HInv, SInv, Calls, Record, LookUp, Check
<1>4. ASSUME RecoverInVain PROVE HInv'
  BY <1>4, RecoverHeard DEF Words
<1> QED BY <1>2, <1>3, <1>4, PlaceHeard, DecisionHeard, ReplyHeard, BreakHeard, RecoverHeard
        DEF SuppliersNext

\* What OrderFulfillment is checked and proved for is what the adapters do: every
\* result of a placement is an answer that its PlaceReplies holds for that state of
\* the sale, but for the two replies that ForeseenAnswers names.
THEOREM AnswersAreForeseen == SuppliersSpec => []ForeseenAnswers
<1>1. SuppliersInit => HInv
  BY InitJustified DEF HInv, SuppliersInit, NoCall
<1>2. HInv => ForeseenAnswers
  <2> SUFFICES ASSUME HInv, call.pc = "returned" PROVE ForeseenAnswers
    BY DEF ForeseenAnswers
  <2> DEFINE st == AnswerOf(adapter, result, call.broken)
  <2>1. /\ adapter \in Adapters /\ sale \in Sales /\ result.id \in BOOLEAN
        /\ adapter = "coin" => sale # "cancelled"
    BY DEF HInv, SInv, CoinIsOneShot, Results
  <2>2. AsAnswer(result) = Engine!Reply(st, result.id)
    BY DEF AsAnswer, AnswerOf
  <2>3. Heard(adapter, sale, result, call.broken, call.said)
    BY DEF HInv
  <2> HIDE DEF st
  <2>4. Foreseen(adapter, sale, st, result.id) => Engine!Reply(st, result.id) \in Tellable
    BY <2>1, ForeseenIsTold
  <2> QED BY <2>2, <2>3, <2>4 DEF Heard, ForeseenAnswers, st
<1> QED BY <1>1, <1>2, NextHeard, PTL DEF SuppliersSpec
=============================================================================
