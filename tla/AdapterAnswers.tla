--------------------------- MODULE AdapterAnswers ---------------------------
(***************************************************************************)
(* The adapters against what OrderFulfillment expects of a provider: its   *)
(* operator PlaceReplies, in whose terms the adapters' results are put.    *)
(***************************************************************************)
EXTENDS Suppliers

\* Only PlaceReplies is used: the state of the engine does not matter.
Engine == INSTANCE OrderFulfillment WITH
  Orders <- {}, Kinds <- {}, Admins <- {}, Pollers <- {"poller"}, BatchLimit <- 1,
  Charge <- 1, Quantity <- 2, MaxRetry <- MaxChecks,
  LostAcks <- FALSE, MaxRequests <- 0, MaxCrashes <- 0, MaxFaults <- 0,
  kind <- adapter, order <- order, held <- 0, sale <- sale, task <- call,
  ahead <- {}, shared <- {}, requests <- 0, crashes <- 0, faults <- 0

\* BrandOneCard has a reference lookup, but its orders are not marked for it.
EngineKind ==
  CASE adapter \in {"xena", "coin"} -> adapter [] adapter = "canonical" -> "reference"
    [] OTHER -> "plain"

\* A result as an answer: what it says of the sale, or why it says nothing.
AsAnswer(r) ==
  Engine!Reply(
    IF r.lookup THEN "unplaced"
    ELSE IF r.uncertain
         THEN IF r.id \/ ~r.success THEN "unknown"
              ELSE IF adapter = "xena" /\ call.broken = "none" THEN "missing" ELSE "lost"
    ELSE IF ~r.success THEN IF r.id THEN "cancelled" ELSE "rejected"
    ELSE CASE r.status = "Pending" -> IF r.id THEN "working" ELSE "lost"
           [] r.status = "Completed" -> "delivered"
           [] r.status = "Partial" -> "partial"
           [] OTHER -> "unmapped",
    r.id)

\* What the engine may be told of a sale: also what was true while it was under way.
Tellable ==
  LET now == IF sale \in {"sent", "refused"} THEN "none" ELSE sale
      before == IF adapter # "coin" /\ sale \in Held \cup {"cancelled"} THEN {"working"} ELSE {}
  IN UNION {Engine!PlaceReplies(EngineKind, s) : s \in {now} \cup before \cup
              (IF sale = "cancelled" THEN {"none"} ELSE {})}

\* Every result of a placement is one that OrderFulfillment reckons with for that
\* state of the sale, so that its checks cover what the adapters do, but for two
\* replies: to Alkasr, a sale without a status is complete, and to CanonicalB2B,
\* one without an id is refused.
ForeseenAnswers ==
  call.pc = "returned" =>
    \/ AsAnswer(result) \in Tellable
    \/ adapter = "alkasr" /\ call.said = "absent"
    \/ adapter = "canonical" /\ call.said = "noid"
=============================================================================
