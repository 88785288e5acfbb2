------------------------------ MODULE Catalog -------------------------------
(***************************************************************************)
(* What the shop offers: one product of a supplier, mirrored by the        *)
(* provider sync into a ProviderProduct, published as products that carry  *)
(* a price of their own, and checked against the supplier's price list     *)
(* when a customer orders.  Each server process (PM2 starts one per core)  *)
(* has its own sync lock and its own price cache; a handler is a member of *)
(* Staff at home in one process, and one step is one database operation or *)
(* one answer of the supplier.                                             *)
(***************************************************************************)
EXTENDS Integers, FiniteSets

CONSTANTS
  Staff, Processes, \* handlers at work at once, server processes
  Products,         \* product documents there is room for
  Prices,           \* what the supplier may charge
  Markups,          \* markupType and markupValue of products
  MaxJobs,          \* bound on the handlers of a behaviour
  MaxEditions,      \* bound on the changes of the supplier's price list
  None              \* no document, no value

ASSUME PricesAssumption == Prices \subseteq Nat \ {0}
ASSUME MarkupsAssumption == Markups \subseteq [type: {"fixed", "percentage"}, value: Nat]
ASSUME CatalogBounds == MaxJobs \in Nat /\ MaxEditions \in Nat

VARIABLES
  supply,    \* the supplier's price list: the price of the product, the edition
  provider,  \* the provider document: there, active
  raw,       \* the ProviderProduct, None when there is none
  product,   \* the products, None where there is none
  lock,      \* _syncLocks of each process
  cached,    \* _cache of each process: a price list, None when there is none
  open,      \* the processes that take requests
  home,      \* the process of each handler
  work,      \* the handlers
  started,   \* how many have begun
  torn       \* history: a product was saved over a price written since it was read

catalogVars == <<supply, provider, raw, product, lock, cached, open, home, work, started, torn>>

-----------------------------------------------------------------------------
Modes == {"manual", "sync"}
Lists == [price: Prices \cup {None}, edition: 0..MaxEditions]
ProviderDocs == [there: BOOLEAN, active: BOOLEAN]
RawDocs == [price: Prices, active: BOOLEAN]

\* cost is providerPrice.  byHand (history): base is a price an administrator named.
ProductDocs == [base: Nat, cost: Prices \cup {None}, mode: Modes, markup: Markups,
                linked: BOOLEAN, active: BOOLEAN, byHand: BOOLEAN]

ASSUME NoneAssumption == None \notin Prices \cup ProductDocs

Working(op, pc, ref, doc, seen) == [op |-> op, pc |-> pc, ref |-> ref, doc |-> doc, seen |-> seen]
Resting == Working("none", "none", None, None, None)

Starts(s, read) ==
  /\ work[s] = Resting /\ started < MaxJobs /\ home[s] \in open
  /\ work' = [work EXCEPT ![s] = read]
  /\ started' = started + 1

Reached(s, op, pc) == work[s].op = op /\ work[s].pc = pc
Proceed(s, pc) == work' = [work EXCEPT ![s].pc = pc]
Ends(s) == work' = [work EXCEPT ![s] = Resting]
KeepShop == UNCHANGED <<supply, lock, cached, open, home, torn>>

\* computeMarkup.  The code keeps 50 decimals; prices and percentages are such that
\* none are needed.
Final(price, markup) ==
  IF markup.type = "fixed" THEN price + markup.value
                           ELSE (price * (100 + markup.value)) \div 100

\* The fields that a price calculation from the provider's price fills.
Calculated(doc, price) == [doc EXCEPT !.cost = price, !.base = Final(price, doc.markup),
                                      !.byHand = FALSE]

-----------------------------------------------------------------------------
(* The price check of an order: providerPriceCache and the verification *)

StartOrder(s, g) ==
  /\ product[g] # None /\ product[g].active
  /\ Starts(s, Working("order", "check", g, product[g], None))
  /\ KeepShop /\ UNCHANGED <<provider, raw, product>>

\* Mutant: the comparison the wrong way round.
Fallen(doc, list) == list.price # None /\ doc.cost # None /\ list.price < doc.cost

\* The price has risen above the one the product was calculated from.
Risen(doc, list) == list.price # None /\ doc.cost # None /\ list.price > doc.cost

Judged(w, list) ==
  [w EXCEPT !.pc = IF Risen(w.doc, list) THEN "raise" ELSE "sell", !.seen = list]

\* Mutant: every cache miss asks the supplier.
NobodyAsks(s) == {}

\* _pending: the handler of this process that is asking the supplier.
Asking(s) == {t \in Staff : home[t] = home[s] /\ work[t].pc \in {"asking", "told"}}

\* A hit answers at once, and a price found risen is dropped; a miss joins the
\* fetch under way or begins one.  No check without a link and an active provider.
CheckPrice(s) ==
  /\ Reached(s, "order", "check")
  /\ LET list == cached[home[s]]
         checked == work[s].doc.linked /\ provider.active
     IN IF checked /\ list # None
          THEN /\ work' = [work EXCEPT ![s] = Judged(work[s], list)]
               /\ cached' = [cached EXCEPT ![home[s]] =
                               IF Risen(work[s].doc, list) THEN None ELSE list]
          ELSE /\ Proceed(s, IF ~checked THEN "sell"
                             ELSE IF Asking(s) = {} THEN "asking" ELSE "waiting")
               /\ UNCHANGED cached
  /\ UNCHANGED <<supply, provider, raw, product, lock, open, home, started, torn>>

\* The supplier makes up its answer, or there will be none.
SupplierAnswers(s, heard) ==
  /\ Reached(s, "order", "asking")
  /\ work' = [work EXCEPT ![s].pc = "told", ![s].seen = IF heard THEN supply ELSE None]
  /\ KeepShop /\ UNCHANGED <<provider, raw, product, started>>

Joined(s) == {s} \cup {t \in Staff : home[t] = home[s] /\ work[t].pc = "waiting"}

\* The list reaches the cache and those who wait for it; whoever finds a price
\* risen drops it again.
FetchArrives(s) ==
  /\ Reached(s, "order", "told") /\ work[s].seen # None
  /\ LET list == work[s].seen
     IN /\ work' = [t \in Staff |-> IF t \in Joined(s) THEN Judged(work[t], list) ELSE work[t]]
        /\ cached' = [cached EXCEPT ![home[s]] =
             IF \E t \in Joined(s) : Risen(work[t].doc, list) THEN None ELSE list]
  /\ UNCHANGED <<supply, provider, raw, product, lock, open, home, started, torn>>

\* The fetch fails: the orders go on without a check.  The promise that finally()
\* returned is rejected and nobody handles it: the process closes.
FetchFails(s) ==
  /\ Reached(s, "order", "told") /\ work[s].seen = None
  /\ work' = [t \in Staff |-> IF t \in Joined(s) THEN [work[t] EXCEPT !.pc = "sell"] ELSE work[t]]
  /\ open' = open \ {home[s]}
  /\ UNCHANGED <<supply, provider, raw, product, lock, cached, home, started, torn>>

\* A process, closing or not, ends with everything it held; PM2 restarts it.
Restart(p) ==
  /\ \E s \in Staff : home[s] = p /\ work[s] # Resting
  /\ work' = [s \in Staff |-> IF home[s] = p THEN Resting ELSE work[s]]
  /\ lock' = [lock EXCEPT ![p] = FALSE] /\ cached' = [cached EXCEPT ![p] = None]
  /\ open' = open \cup {p}
  /\ UNCHANGED <<supply, provider, raw, product, home, started, torn>>

\* _autoUpdateProductPrice, after the refusal, whatever the product is by now.
RaisePrice(s) ==
  /\ Reached(s, "order", "raise")
  /\ LET doc == work[s].doc
         fresh == Calculated(doc, work[s].seen.price)
     IN product' = [product EXCEPT ![work[s].ref].cost = fresh.cost,
                                   ![work[s].ref].base = fresh.base,
                                   ![work[s].ref].byHand = FALSE]
  /\ Ends(s)
  /\ KeepShop /\ UNCHANGED <<provider, raw, started>>

\* The order goes on with the product as it was read.
Sell(s) ==
  /\ Reached(s, "order", "sell") /\ Ends(s)
  /\ KeepShop /\ UNCHANGED <<provider, raw, product, started>>

TTLPasses(p) ==
  /\ cached[p] # None /\ cached' = [cached EXCEPT ![p] = None]
  /\ UNCHANGED <<supply, provider, raw, product, lock, open, home, work, started, torn>>

-----------------------------------------------------------------------------
(* The provider sync *)

\* By an administrator, or by the job, which takes active providers only.
StartSync(s, byJob) ==
  /\ ~lock[home[s]]
  /\ byJob => provider.active
  /\ Starts(s, Working("sync", "validate", None, None, None))
  /\ lock' = [lock EXCEPT ![home[s]] = TRUE]
  /\ UNCHANGED <<supply, provider, raw, product, cached, open, home, torn>>

\* Mutant: an early return that leaves the lock behind.
KeepsLock(s) == Ends(s) /\ UNCHANGED lock

\* The finally block.
Release(s) == Ends(s) /\ lock' = [lock EXCEPT ![home[s]] = FALSE]

ValidateProvider(s) ==
  /\ Reached(s, "sync", "validate")
  /\ IF provider.active THEN Proceed(s, "fetch") /\ UNCHANGED lock ELSE Release(s)
  /\ UNCHANGED <<supply, provider, raw, product, cached, open, home, started, torn>>

\* fetchProducts: a failure ends the sync; an empty list changes nothing.
FetchCatalogue(s, heard, empty) ==
  /\ Reached(s, "sync", "fetch")
  /\ IF ~heard \/ empty
       THEN Release(s)
       ELSE /\ work' = [work EXCEPT ![s].seen = supply,
                          ![s].pc = IF supply.price = None THEN "deactivate" ELSE "upsert"]
            /\ UNCHANGED lock
  /\ UNCHANGED <<supply, provider, raw, product, cached, open, home, started, torn>>

\* _upsertOne; a failed one counts as a product the supplier no longer has.
Upsert(s, fails) ==
  /\ Reached(s, "sync", "upsert")
  /\ raw' = IF fails THEN raw ELSE [price |-> work[s].seen.price, active |-> TRUE]
  /\ Proceed(s, IF fails THEN "deactivate" ELSE "find")
  /\ KeepShop /\ UNCHANGED <<provider, product, started>>

Deactivate(s) ==
  /\ Reached(s, "sync", "deactivate")
  /\ raw' = IF raw = None THEN None ELSE [raw EXCEPT !.active = FALSE]
  /\ Release(s)
  /\ UNCHANGED <<supply, provider, product, cached, open, home, started, torn>>

\* Product.find of those in sync mode: their markups as they are now.
FindSynced(s) ==
  /\ Reached(s, "sync", "find")
  /\ LET found == {g \in Products : product[g] # None /\ product[g].linked
                                                      /\ product[g].mode = "sync"}
     IN IF found = {}
          THEN Release(s)
          ELSE /\ work' = [work EXCEPT ![s].pc = "push",
                                       ![s].doc = [g \in found |-> product[g]]]
               /\ UNCHANGED lock
  /\ UNCHANGED <<supply, provider, raw, product, cached, open, home, started, torn>>

\* findByIdAndUpdate of one after the other, whatever they are by now.
PushPrice(s) ==
  /\ Reached(s, "sync", "push")
  /\ \E g \in DOMAIN work[s].doc :
       LET fresh == Calculated(work[s].doc[g], work[s].seen.price)
           others == DOMAIN work[s].doc \ {g}
       IN /\ product' = [product EXCEPT ![g].cost = fresh.cost, ![g].base = fresh.base,
                                        ![g].byHand = FALSE]
          /\ IF others = {}
               THEN Release(s)
               ELSE /\ work' = [work EXCEPT ![s].doc = [h \in others |-> work[s].doc[h]]]
                    /\ UNCHANGED lock
  /\ UNCHANGED <<supply, provider, raw, cached, open, home, started, torn>>

-----------------------------------------------------------------------------
(* Administration: publish, create, update and switch products; providers *)

Draft(mode, markup, base) ==
  LET doc == [base |-> base, cost |-> None, mode |-> mode, markup |-> markup,
              linked |-> FALSE, active |-> TRUE, byHand |-> TRUE]
  IN IF raw = None THEN doc
     ELSE IF mode = "sync" \/ markup.value > 0
       THEN [Calculated(doc, raw.price) EXCEPT !.linked = TRUE]
       ELSE [doc EXCEPT !.linked = TRUE, !.cost = raw.price]

\* publishFromProviderProduct: the provider and its product must be active, and
\* the product not published yet.
StartPublication(s, mode, markup, base) ==
  /\ raw # None /\ raw.active /\ provider.active
  /\ Starts(s, Working("publish", "unique", None, Draft(mode, markup, base), None))
  /\ KeepShop /\ UNCHANGED <<provider, raw, product>>

CheckUnpublished(s) ==
  /\ Reached(s, "publish", "unique")
  /\ IF \E g \in Products : product[g] # None /\ product[g].linked
       THEN Ends(s)
       ELSE Proceed(s, "insert")
  /\ KeepShop /\ UNCHANGED <<provider, raw, product, started>>

\* createProduct: any link, without those checks.
StartProduct(s, mode, markup, base) ==
  /\ Starts(s, Working("publish", "insert", None, Draft(mode, markup, base), None))
  /\ KeepShop /\ UNCHANGED <<provider, raw, product>>

InsertProduct(s, g) ==
  /\ Reached(s, "publish", "insert") /\ product[g] = None
  /\ product' = [product EXCEPT ![g] = work[s].doc]
  /\ Ends(s)
  /\ KeepShop /\ UNCHANGED <<provider, raw, started>>

\* updateProduct, by what the request names (None: not named).  A markup, or the
\* change to sync mode, is calculated from the provider's price; otherwise the base
\* price is the administrator's, also in sync mode.
Repriced(doc, mode, markup, base) ==
  LET next == [doc EXCEPT !.mode = mode, !.markup = IF markup = None THEN @ ELSE markup]
      changed == markup # None \/ (mode = "sync" /\ doc.mode # "sync")
  IN IF changed /\ doc.linked /\ raw # None THEN Calculated(next, raw.price)
     ELSE IF base # None THEN [next EXCEPT !.base = base, !.byHand = TRUE]
     ELSE next

\* enableManualPrice: the provider's price and an adjustment.
Adjusted(doc, adjustment) ==
  [Calculated(doc, raw.price) EXCEPT !.base = raw.price + adjustment, !.byHand = TRUE]

\* A changed providerProduct takes the price of the new one.
Relinked(doc) == [Calculated(doc, raw.price) EXCEPT !.linked = TRUE]

StartUpdate(s, g, next) ==
  /\ Starts(s, Working("update", "save", g, product[g], next))
  /\ KeepShop /\ UNCHANGED <<provider, raw, product>>

\* Only what differs from the document that was read is saved.
SaveProduct(s) ==
  /\ Reached(s, "update", "save")
  /\ LET g == work[s].ref
         read == work[s].doc
         next == work[s].seen
     IN /\ product' = [product EXCEPT ![g] =
             [f \in DOMAIN read |-> IF next[f] # read[f] THEN next[f] ELSE product[g][f]]]
        /\ torn' = (torn \/ [read EXCEPT !.active = TRUE] # [product[g] EXCEPT !.active = TRUE])
  /\ Ends(s)
  /\ UNCHANGED <<supply, provider, raw, lock, cached, open, home, started>>

\* toggleProvider and updateProvider: read, then save the flag; when the document
\* is gone by then, the save fails.
StartToggle(s) ==
  /\ provider.there
  /\ Starts(s, Working("toggle", "save", None, ~provider.active, None))
  /\ KeepShop /\ UNCHANGED <<provider, raw, product>>

\* Mutant: the save creates the document anew.
UpsertProvider(s) ==
  /\ Reached(s, "toggle", "save")
  /\ provider' = [provider EXCEPT !.active = work[s].doc]
  /\ Ends(s)
  /\ KeepShop /\ UNCHANGED <<raw, product, started>>

SaveProvider(s) ==
  /\ Reached(s, "toggle", "save")
  /\ provider' = [provider EXCEPT !.active = work[s].doc /\ provider.there]
  /\ Ends(s)
  /\ KeepShop /\ UNCHANGED <<raw, product, started>>

StartDeletion(s) ==
  /\ provider.there
  /\ Starts(s, Working("delete", "detach", None, None, None))
  /\ KeepShop /\ UNCHANGED <<provider, raw, product>>

Detached(doc) == [doc EXCEPT !.linked = FALSE, !.mode = "manual", !.cost = None]

DetachProducts(s) ==
  /\ Reached(s, "delete", "detach")
  /\ product' = [g \in Products |-> IF product[g] # None /\ product[g].linked
                                      THEN Detached(product[g]) ELSE product[g]]
  /\ Proceed(s, "remove")
  /\ KeepShop /\ UNCHANGED <<provider, raw, started>>

\* The provider's own products stay behind.
RemoveProvider(s) ==
  /\ Reached(s, "delete", "remove")
  /\ provider' = [there |-> FALSE, active |-> FALSE]
  /\ Ends(s)
  /\ KeepShop /\ UNCHANGED <<raw, product, started>>

PriceListChanges(price) ==
  /\ supply.edition < MaxEditions /\ price # supply.price
  /\ supply' = [price |-> price, edition |-> supply.edition + 1]
  /\ UNCHANGED <<provider, raw, product, lock, cached, open, home, work, started, torn>>

-----------------------------------------------------------------------------
CatalogInit ==
  /\ supply \in [price: Prices, edition: {0}]
  /\ provider \in {doc \in ProviderDocs : doc.there}
  /\ raw = None \/ raw = [price |-> supply.price, active |-> TRUE]
  /\ \E m \in Markups :
       product \in [Products -> {None} \cup
         IF raw = None THEN {}
         ELSE {[base |-> Final(raw.price, m), cost |-> raw.price, mode |-> "sync", markup |-> m,
                linked |-> TRUE, active |-> TRUE, byHand |-> FALSE]}]
  /\ lock = [p \in Processes |-> FALSE] /\ cached = [p \in Processes |-> None]
  /\ open = Processes /\ home \in [Staff -> Processes]
  /\ work = [s \in Staff |-> Resting] /\ started = 0 /\ torn = FALSE

\* What a request may change in a product it has read.
Updates(doc) ==
  {Repriced(doc, mode, markup, base) : mode \in Modes, markup \in Markups \cup {None},
                                       base \in Prices \cup {None}}
    \cup {[doc EXCEPT !.active = ~doc.active]}
    \cup IF raw # None /\ doc.linked THEN {Adjusted(doc, m.value) : m \in Markups} ELSE {}
    \cup IF raw # None /\ ~doc.linked THEN {Relinked(doc)} ELSE {}

OrderStep(s) ==
  \/ \E g \in Products : StartOrder(s, g)
  \/ \E b \in BOOLEAN : SupplierAnswers(s, b)
  \/ CheckPrice(s) \/ FetchArrives(s) \/ FetchFails(s) \/ RaisePrice(s) \/ Sell(s)

SyncStep(s) ==
  \/ \E b \in BOOLEAN : StartSync(s, b) \/ Upsert(s, b)
  \/ \E heard, empty \in BOOLEAN : FetchCatalogue(s, heard, empty)
  \/ ValidateProvider(s) \/ Deactivate(s) \/ FindSynced(s) \/ PushPrice(s)

AdminStep(s) ==
  \/ \E mode \in Modes, markup \in Markups, base \in Prices :
       StartPublication(s, mode, markup, base) \/ StartProduct(s, mode, markup, base)
  \/ CheckUnpublished(s) \/ (\E g \in Products : InsertProduct(s, g))
  \/ \E g \in {g \in Products : product[g] # None} :
       \E next \in Updates(product[g]) : StartUpdate(s, g, next)
  \/ SaveProduct(s) \/ StartToggle(s) \/ SaveProvider(s)
  \/ StartDeletion(s) \/ DetachProducts(s) \/ RemoveProvider(s)

CatalogNext ==
  \/ \E s \in Staff : OrderStep(s) \/ SyncStep(s) \/ AdminStep(s)
  \/ \E p \in Processes : TTLPasses(p) \/ Restart(p)
  \/ \E price \in Prices \cup {None} : PriceListChanges(price)

CatalogSpec == CatalogInit /\ [][CatalogNext]_catalogVars

-----------------------------------------------------------------------------
CatalogTypeOK ==
  /\ supply \in Lists
  /\ provider \in ProviderDocs /\ (provider.active => provider.there)
  /\ raw \in RawDocs \cup {None}
  /\ product \in [Products -> ProductDocs \cup {None}]
  /\ lock \in [Processes -> BOOLEAN] /\ cached \in [Processes -> Lists \cup {None}]
  /\ open \subseteq Processes /\ home \in [Staff -> Processes]
  /\ DOMAIN work = Staff /\ started \in 0..MaxJobs /\ torn \in BOOLEAN

\* The lock of a process is held exactly while one sync of it is at work: no way
\* out of syncProviderProducts leaves it behind, none runs without it.
LockIsASync ==
  \A p \in Processes :
    Cardinality({s \in Staff : home[s] = p /\ work[s].op = "sync"}) = IF lock[p] THEN 1 ELSE 0

\* A price list is never replaced by an older one in the cache: fetches of one
\* process do not overtake each other (_pending).
CacheNeverGoesBack ==
  [][\A p \in Processes : cached[p] # None /\ cached'[p] # None
       => cached'[p].edition >= cached[p].edition]_catalogVars

\* No order that knows the supplier's price is sold below it, unless the price is
\* one an administrator named or an update was saved over a newer price.
SoldAboveCost ==
  [][\A s \in Staff :
       /\ Reached(s, "order", "sell") /\ work'[s] = Resting
       /\ work[s].seen # None /\ work[s].seen.price # None
       /\ ~work[s].doc.byHand /\ ~torn
       => work[s].doc.base >= work[s].seen.price]_catalogVars

=============================================================================
