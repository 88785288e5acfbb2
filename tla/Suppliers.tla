----------------------------- MODULE Suppliers ------------------------------
(***************************************************************************)
(* The provider adapters: how each of them turns what its supplier says,   *)
(* or does not say, into the result that the fulfilment acts on.  One      *)
(* order is placed and checked; the supplier may take it without our ever  *)
(* hearing of it.  A call of placeOrder that breaks and is looked up again *)
(* by reference takes a step for each request.                             *)
(***************************************************************************)
EXTENDS Integers, FiniteSets

CONSTANTS
  Adapters,  \* the adapters in use
  MaxChecks  \* MAX_RETRY_COUNT

ASSUME AdaptersAssumption ==
  Adapters \subseteq {"alkasr", "toros", "royal", "brandone", "canonical", "xena", "coin"}
ASSUME MaxChecksAssumption == MaxChecks \in Nat \ {0}

VARIABLES
  adapter,  \* the adapter of the order's provider
  sale,     \* what the supplier has made of the request
  call,     \* the request under way
  result,   \* what the adapter returned
  order     \* the order document

supplierVars == <<adapter, sale, call, result, order>>

-----------------------------------------------------------------------------
(* What suppliers say *)

Held == {"working", "delivered", "partial"}
Sales == {"none", "sent", "refused", "cancelled"} \cup Held

\* The words of a status, as far as adapters tell them apart: odd is none of
\* theirs, absent none at all, unknown a word of Xena.
Words == {"done", "wait", "reject", "partial", "odd", "absent", "unknown"}
Replies == [ok: BOOLEAN, id: BOOLEAN, word: Words]

\* How a request breaks.  explicit: a 5xx whose body has code 111 or 130.
Breaks == {"nohost", "unsent", "refused", "busy", "explicit",
           "timeout", "reset", "server", "gateway"}
Unheard == {"nohost", "unsent"}
Declined == {"refused", "busy", "explicit"}

Plain(s) ==
  CASE s = "delivered" -> {"done"} [] s = "working" -> {"wait"} [] s = "partial" -> {"partial"}
    [] OTHER -> {"reject"}

\* The words a supplier of this kind may use for a sale in this state.
Spoken(kind, s) ==
  Plain(s) \cup (IF kind = "xena" THEN {"unknown"} ELSE {}) \cup {"odd", "absent"}

-----------------------------------------------------------------------------
(* Results of adapters *)

ResultStatuses == {"Completed", "Pending", "Cancelled", "Partial", "Odd", "Unknown"}
Results == [success: BOOLEAN, id: BOOLEAN, status: ResultStatuses, uncertain: BOOLEAN,
            presend: BOOLEAN, lookup: BOOLEAN]

Result(success, id, status) ==
  [success |-> success, id |-> id, status |-> status, uncertain |-> FALSE,
   presend |-> FALSE, lookup |-> FALSE]
Doubt(id, status) == [Result(TRUE, id, status) EXCEPT !.uncertain = TRUE]
Failure == Result(FALSE, FALSE, "Cancelled")

\* A status that is passed on, for statusMapper to understand or not.
Raw(word) ==
  CASE word = "done" -> "Completed" [] word \in {"wait", "absent"} -> "Pending"
    [] word = "reject" -> "Cancelled" [] word = "partial" -> "Partial" [] OTHER -> "Odd"

AlkasrStatus(word) ==
  CASE word = "done" -> "Completed" [] word = "wait" -> "Pending" [] OTHER -> "Cancelled"

TorosStatus(word) == IF word = "absent" THEN "Pending" ELSE AlkasrStatus(word)

\* Mutant: whatever is no refusal is a success.
BrandOneStatusUnlessRefused(word) == IF word = "reject" THEN "Cancelled" ELSE "Completed"

BrandOneStatus(word) ==
  CASE word = "done" -> "Completed" [] word = "reject" -> "Cancelled" [] OTHER -> "Pending"

XenaStatus(word) == IF word = "unknown" THEN "Unknown" ELSE BrandOneStatus(word)

\* A reply without a status of the order has one of the request: OK.
AlkasrPlaces(r) ==
  LET status == IF r.word = "absent" THEN "Completed" ELSE AlkasrStatus(r.word)
  IN IF ~r.ok \/ status = "Cancelled" \/ ~r.id THEN Failure ELSE Result(TRUE, TRUE, status)

TorosPlaces(r) == IF ~r.ok \/ ~r.id THEN Failure ELSE Result(TRUE, TRUE, TorosStatus(r.word))

RoyalPlaces(r) == IF ~r.ok \/ ~r.id THEN Failure ELSE Result(TRUE, TRUE, Raw(r.word))

BrandOnePlaces(r) == IF ~r.ok THEN Failure ELSE Result(TRUE, TRUE, BrandOneStatus(r.word))

CanonicalPlaces(r) == IF ~r.ok \/ ~r.id THEN Failure ELSE Result(TRUE, TRUE, Raw(r.word))

XenaPlaces(r) ==
  IF r.word = "reject" THEN Result(FALSE, r.id, "Cancelled")
  ELSE [Result(TRUE, r.id, XenaStatus(r.word)) EXCEPT !.uncertain = ~r.id \/ r.word = "unknown"]

\* Neither an id nor a status: code 200 is the sale.
CoinPlaces(r) ==
  IF r.ok THEN Result(TRUE, FALSE, "Completed")
  ELSE [Doubt(FALSE, "Unknown") EXCEPT !.success = FALSE]

Places(kind, r) ==
  CASE kind = "alkasr" -> AlkasrPlaces(r) [] kind = "toros" -> TorosPlaces(r)
    [] kind = "royal" -> RoyalPlaces(r) [] kind = "brandone" -> BrandOnePlaces(r)
    [] kind = "canonical" -> CanonicalPlaces(r) [] kind = "xena" -> XenaPlaces(r)
    [] kind = "coin" -> CoinPlaces(r)

\* Mutant: an HTTP error is an answer.
DoubtfulToTimeouts(broken) == broken \in {"unsent", "timeout", "reset"}

\* CanonicalB2B's uncertain(error).
Doubtful(broken) == broken \in {"unsent", "timeout", "reset", "server", "gateway"}

\* Mutant: only what is uncertain is kept, not what is retryable.
XenaBreaksUncertain(broken) ==
  IF broken \in {"timeout", "busy", "gateway"} THEN Doubt(FALSE, "Pending") ELSE Failure

\* Xena's interceptor and catch block: uncertain or retryable.
XenaBreaks(broken) ==
  IF broken \in {"timeout", "busy", "gateway"} THEN Doubt(FALSE, "Pending")
  ELSE IF broken \in {"reset", "nohost", "server", "explicit"} THEN Result(TRUE, FALSE, "Pending")
  ELSE Failure

\* Alkasr, Toros and Royal Crown catch every error as a cancelled order.
BreaksTo(kind, broken) ==
  CASE kind = "xena" -> XenaBreaks(broken)
    [] kind = "coin" -> [Doubt(FALSE, "Unknown") EXCEPT !.success = FALSE]
    [] OTHER -> Failure

\* The placements that are looked up by reference before anything is returned.
LooksUp(kind, broken) == kind = "brandone" \/ (kind = "canonical" /\ Doubtful(broken))

\* BrandOneCard finds no reason to refuse a reply of status OK without an order id.
Malformed(kind, r) == kind = "brandone" /\ r.ok /\ ~r.id

Recovered(kind, word) ==
  Result(TRUE, TRUE, IF kind = "brandone" THEN BrandOneStatus(word) ELSE Raw(word))

\* Mutant: the mark for the poller is forgotten.
UnrecoveredUnmarked(kind) == Doubt(FALSE, "Pending")

\* A lookup without an answer: BrandOneCard says Pending, CanonicalB2B
\* PLACEMENT_UNCERTAIN, which is what the poller selects by.
Unrecovered(kind) == [Doubt(FALSE, "Pending") EXCEPT !.lookup = (kind = "canonical")]

AlkasrChecks(word) == Result(TRUE, TRUE, AlkasrStatus(word))
TorosChecks(word) == Result(TRUE, TRUE, TorosStatus(word))
RoyalChecks(word) == Result(TRUE, TRUE, Raw(word))
BrandOneChecks(word) == Result(TRUE, TRUE, BrandOneStatus(word))
CanonicalChecks(word) == Result(TRUE, TRUE, Raw(word))
XenaChecks(word) == [Result(TRUE, TRUE, XenaStatus(word)) EXCEPT !.uncertain = word = "unknown"]

Checked(kind, word) ==
  CASE kind = "alkasr" -> AlkasrChecks(word) [] kind = "toros" -> TorosChecks(word)
    [] kind = "royal" -> RoyalChecks(word) [] kind = "brandone" -> BrandOneChecks(word)
    [] kind = "canonical" -> CanonicalChecks(word) [] kind = "xena" -> XenaChecks(word)

-----------------------------------------------------------------------------
(* What the fulfilment makes of them *)

\* toInternalStatus; FAILED stands for a throw as well, which placement turns into it.
Internal(status) ==
  CASE status = "Completed" -> "COMPLETED" [] status = "Pending" -> "PROCESSING"
    [] status = "Partial" -> "PARTIAL" [] OTHER -> "FAILED"

\* executeOrder: a partial status of a placement counts as success, and one without
\* an id as a retry.
PlacedAs(kind, r) ==
  LET missing == kind = "xena" /\ r.success /\ ~r.id /\ r.uncertain /\ call.broken = "none"
      retried == ~r.id /\ (r.uncertain \/ (r.success /\ r.status = "Pending"))
  IN  IF (kind = "coin" /\ ~r.presend /\ ~r.success) \/ missing THEN "MANUAL_REVIEW"
      ELSE IF retried
           THEN IF order.retry + 1 >= MaxChecks THEN "MANUAL_REVIEW" ELSE "PROCESSING"
      ELSE IF r.uncertain THEN "PROCESSING"
      ELSE IF ~r.success THEN "FAILED"
      ELSE IF Internal(r.status) = "PARTIAL" THEN "COMPLETED" ELSE Internal(r.status)

\* processOrderStatusResult; an odd word is an error that changes nothing.
CheckedAs(doc, r) ==
  LET retry == doc.retry + 1
      counted == [doc EXCEPT !.retry = retry]
  IN  IF ~r.uncertain /\ r.status = "Odd" THEN doc
      ELSE IF ~r.uncertain /\ Internal(r.status) # "PROCESSING"
           THEN [doc EXCEPT !.status = Internal(r.status)]
      ELSE IF retry < MaxChecks THEN counted
      ELSE [counted EXCEPT !.status = IF r.uncertain THEN "MANUAL_REVIEW" ELSE "FAILED",
                           !.limit = TRUE]

-----------------------------------------------------------------------------
(* The actions *)

NoCall == [pc |-> "new", broken |-> "none", said |-> "nothing"]

\* A request that fails the adapter's own checks is never sent.
Place(valid) ==
  /\ call.pc = "new"
  /\ valid \/ adapter \notin {"toros", "royal"}
  /\ IF valid
       THEN /\ sale' = "sent" /\ call' = [call EXCEPT !.pc = "asked"] /\ UNCHANGED result
       ELSE /\ result' = [Failure EXCEPT !.presend = TRUE]
            /\ call' = [call EXCEPT !.pc = "returned"] /\ UNCHANGED sale
  /\ UNCHANGED <<adapter, order>>

\* The supplier decides, whether or not anybody still waits for it.
SupplierDecides(s) ==
  /\ sale = "sent"
  /\ s \in (IF adapter = "coin" THEN {"refused", "delivered"} ELSE {"refused"} \cup Held)
  /\ sale' = s /\ UNCHANGED <<adapter, call, result, order>>

SaleEnds(s) ==
  /\ sale = "working" /\ s \in {"delivered", "partial", "cancelled"}
  /\ sale' = s /\ UNCHANGED <<adapter, call, result, order>>

\* A reply says whether the request was taken, but for the coin recharge, whose
\* refusals say nothing; the id may be missing.
Truthful(r) ==
  IF r.ok THEN sale # "refused" /\ r.word \in Spoken(adapter, sale)
  ELSE (sale = "refused" \/ adapter = "coin") /\ ~r.id /\ r.word = "reject"

Reply(r) ==
  /\ call.pc = "asked" /\ sale # "sent" /\ Truthful(r)
  /\ IF Malformed(adapter, r)
       THEN call' = [call EXCEPT !.pc = "lookup"] /\ UNCHANGED result
       ELSE /\ call' = [call EXCEPT !.pc = "returned", !.said = IF r.id THEN r.word ELSE "noid"]
            /\ result' = Places(adapter, r)
  /\ UNCHANGED <<adapter, sale, order>>

\* A request that breaks has been declined, was never heard, or is anywhere.
Break(broken) ==
  /\ call.pc = "asked"
  /\ broken \in Declined => sale = "refused"
  /\ broken \in Unheard => sale = "sent"
  /\ sale' = IF broken \in Unheard THEN "none" ELSE sale
  /\ IF LooksUp(adapter, broken)
       THEN call' = [call EXCEPT !.pc = "lookup", !.broken = broken] /\ UNCHANGED result
       ELSE /\ call' = [call EXCEPT !.pc = "returned", !.broken = broken]
            /\ result' = BreaksTo(adapter, broken)
  /\ UNCHANGED <<adapter, order>>

\* checkOrderByReference of the adapter itself.
Recover(word) ==
  /\ call.pc = "lookup" /\ sale \in Held \cup {"cancelled"} /\ word \in Spoken(adapter, sale)
  /\ result' = Recovered(adapter, word)
  /\ call' = [call EXCEPT !.pc = "returned", !.said = word]
  /\ UNCHANGED <<adapter, sale, order>>

RecoverInVain ==
  /\ call.pc = "lookup"
  /\ result' = Unrecovered(adapter)
  /\ call' = [call EXCEPT !.pc = "returned"]
  /\ UNCHANGED <<adapter, sale, order>>

Record ==
  /\ call.pc = "returned"
  /\ order' = [order EXCEPT !.status = PlacedAs(adapter, result), !.id = result.id,
                            !.lookup = result.lookup,
                            !.retry = IF result.id THEN @ ELSE @ + 1]
  /\ call' = [call EXCEPT !.pc = "done"]
  /\ UNCHANGED <<adapter, sale, result>>

\* The poller's lookup of an order that is marked PLACEMENT_UNCERTAIN.
LookUp(found) ==
  /\ call.pc = "done" /\ order.status = "PROCESSING" /\ order.lookup /\ ~order.id
  /\ found => sale \in Held \cup {"cancelled"}
  /\ order' = IF found THEN [order EXCEPT !.id = TRUE, !.lookup = FALSE]
              ELSE [order EXCEPT !.retry = @ + 1,
                      !.status = IF order.retry + 1 >= MaxChecks THEN "MANUAL_REVIEW" ELSE @]
  /\ UNCHANGED <<adapter, sale, call, result>>

Check(word) ==
  /\ call.pc = "done" /\ order.status = "PROCESSING" /\ order.id
  /\ sale # "sent" /\ word \in Spoken(adapter, sale)
  /\ result' = Checked(adapter, word)
  /\ order' = CheckedAs(order, result')
  /\ call' = [call EXCEPT !.said = word]
  /\ UNCHANGED <<adapter, sale>>

-----------------------------------------------------------------------------
\* The order that executeOrder places.
NewOrder ==
  [status |-> "PROCESSING", id |-> FALSE, lookup |-> FALSE, retry |-> 0, limit |-> FALSE]

SuppliersInit ==
  /\ adapter \in Adapters /\ sale = "none" /\ call = NoCall /\ result = Failure
  /\ order = NewOrder

SuppliersNext ==
  \/ \E b \in BOOLEAN : Place(b) \/ LookUp(b)
  \/ \E s \in Sales : SupplierDecides(s) \/ SaleEnds(s)
  \/ \E r \in Replies : Reply(r)
  \/ \E broken \in Breaks : Break(broken)
  \/ \E word \in Words : Recover(word) \/ Check(word)
  \/ RecoverInVain \/ Record

SuppliersSpec == SuppliersInit /\ [][SuppliersNext]_supplierVars

-----------------------------------------------------------------------------
SuppliersTypeOK ==
  /\ adapter \in Adapters /\ sale \in Sales /\ result \in Results
  /\ call \in [pc: {"new", "asked", "lookup", "returned", "done"},
               broken: Breaks \cup {"none"}, said: Words \cup {"nothing", "noid"}]
  /\ order.status \in {"PROCESSING", "COMPLETED", "PARTIAL", "FAILED", "MANUAL_REVIEW"}
  /\ order.retry \in 0..MaxChecks
  /\ order.lookup => adapter = "canonical" /\ ~order.id

\* An order fails, and is refunded, while its supplier holds it, only at the retry
\* limit, through an adapter that takes any error for a refusal, or because of a
\* reply that the adapter has no word for: never by a request that just broke
\* off at BrandOneCard, CanonicalB2B, Xena or the coin recharge.
NoRefundOfASale ==
  order.status = "FAILED" /\ sale \in Held \cup {"sent"} =>
    \/ order.limit
    \/ adapter \in {"alkasr", "toros", "royal"}
    \/ adapter = "canonical" /\ call.said \in {"odd", "noid"}

\* An order is completed only when the supplier has delivered, in part at least; but
\* Alkasr's OK to the request stands for a status of the order that is missing.
CompletedIsDelivered ==
  order.status = "COMPLETED" =>
    \/ sale \in {"delivered", "partial"}
    \/ adapter = "alkasr" /\ call.said = "absent" /\ call.broken = "none"

\* An order that is left in processing is one that the poller selects, but for
\* BrandOneCard, whose lost placements it does not know for such.
WaitingIsPolled ==
  call.pc = "done" /\ order.status = "PROCESSING" =>
    order.id \/ order.lookup \/ adapter \in {"xena", "brandone"}
=============================================================================
