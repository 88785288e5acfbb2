---------------------------- MODULE CatalogProofs ----------------------------
(***************************************************************************)
(* Proofs about Catalog for any number of handlers, processes, products    *)
(* and changes of the price list.                                          *)
(***************************************************************************)
EXTENDS Catalog, FiniteSetTheorems, TLAPS

-----------------------------------------------------------------------------
(* The invariant *)

\* A price that was calculated is not below the one it was calculated from.
Fair(doc) == doc.linked /\ ~doc.byHand => doc.cost # None /\ doc.base >= doc.cost

OrderWork(w) ==
  /\ w.op = "order" /\ w.pc \in {"check", "asking", "waiting", "told", "raise", "sell"}
  /\ w.ref \in Products /\ w.doc \in ProductDocs
  /\ w.seen \in Lists \cup {None}
  /\ w.pc \in {"asking", "waiting", "told"} => w.doc.linked
  /\ w.pc \in {"check", "asking", "waiting"} => w.seen = None
  /\ w.pc = "raise" => w.seen \in Lists /\ w.seen.price # None
  /\ w.pc = "sell" /\ w.seen # None => w.doc.linked /\ w.seen \in Lists /\ ~Risen(w.doc, w.seen)

\* What the sync has read: the price, and the products it is about to write.
SyncWork(w) ==
  /\ w.op = "sync" /\ w.pc \in {"validate", "fetch", "deactivate", "upsert", "find", "push"}
  /\ w.pc \in {"upsert", "find", "push"} => w.seen \in Lists /\ w.seen.price \in Prices
  /\ w.pc = "push" => DOMAIN w.doc \subseteq Products
                      /\ \A g \in DOMAIN w.doc : w.doc[g] \in ProductDocs

AdminWork(w) ==
  \/ w.op = "publish" /\ w.pc \in {"unique", "insert"} /\ w.doc \in ProductDocs
  \/ /\ w.op = "update" /\ w.pc = "save" /\ w.ref \in Products
     /\ w.doc \in ProductDocs /\ w.seen \in ProductDocs
  \/ w.op = "toggle" /\ w.pc = "save" /\ w.doc \in BOOLEAN
  \/ w.op = "delete" /\ w.pc \in {"detach", "remove"}

IsWork(w) ==
  /\ w = Working(w.op, w.pc, w.ref, w.doc, w.seen)
  /\ w = Resting \/ OrderWork(w) \/ SyncWork(w) \/ AdminWork(w)

\* Documents that a handler read, or is about to save.
FairWork(w) ==
  /\ w.op \in {"order", "publish", "update"} => Fair(w.doc)
  /\ w.op = "update" => Fair(w.seen)

\* An order that works with a product knows one that is there.
Refers(w) == w.op \in {"order", "update"} => product[w.ref] # None
Pushes(w) == w.op = "sync" /\ w.pc = "push" => \A g \in DOMAIN w.doc : product[g] # None

Asks(w) == w.pc \in {"asking", "told"}

\* At most one handler of a process holds its lock or asks the supplier, and
\* until the answer is in, the cache of that process stays empty.
Exclusive ==
  /\ \A p \in Processes : lock[p] <=> \E s \in Staff : home[s] = p /\ work[s].op = "sync"
  /\ \A s, t \in Staff : home[s] = home[t] /\ work[s].op = "sync" /\ work[t].op = "sync" => s = t
  /\ \A s, t \in Staff : home[s] = home[t] /\ Asks(work[s]) /\ Asks(work[t]) => s = t
  /\ \A s \in Staff : Asks(work[s]) => cached[home[s]] = None

\* No update has been saved over a price that it had not read.
Priced ==
  ~torn => /\ \A g \in Products : product[g] # None => Fair(product[g])
           /\ \A s \in Staff : FairWork(work[s])

CInv ==
  /\ CatalogTypeOK /\ work = [s \in Staff |-> work[s]]
  /\ \A s \in Staff : IsWork(work[s]) /\ Refers(work[s]) /\ Pushes(work[s])
  /\ Exclusive /\ Priced

-----------------------------------------------------------------------------
(* Documents and prices *)

LEMMA FinalIsAbove ==
  ASSUME NEW price \in Prices, NEW m \in Markups
  PROVE  Final(price, m) \in Nat /\ Final(price, m) >= price
<1>1. price \in Nat /\ m.value \in Nat
  BY PricesAssumption, MarkupsAssumption
<1>2. CASE m.type = "fixed"
  BY <1>1, <1>2 DEF Final
<1>3. CASE m.type # "fixed"
  <2> DEFINE n == price * (100 + m.value)
             part == price * m.value
  <2>1. part \in Nat
    BY <1>1
  <2>2. n = 100 * price + part
    BY <1>1
  <2> HIDE DEF part, n
  <2>3. n \div 100 \in Nat /\ n \div 100 >= price
    BY <1>1, <2>1, <2>2
  <2> QED BY <1>3, <2>3 DEF Final, n
<1> QED BY <1>2, <1>3

LEMMA CalculatedIsFair ==
  ASSUME NEW doc \in ProductDocs, NEW price \in Prices
  PROVE  LET fresh == Calculated(doc, price)
         IN  /\ fresh \in ProductDocs /\ Fair(fresh)
             /\ fresh.cost = price /\ fresh.base \in Nat /\ fresh.base >= price
             /\ ~fresh.byHand
             /\ \A l \in BOOLEAN : [fresh EXCEPT !.linked = l] \in ProductDocs
                                   /\ Fair([fresh EXCEPT !.linked = l])
<1> DEFINE b == Final(price, doc.markup)
           fresh == Calculated(doc, price)
<1>1. b \in Nat /\ b >= price
  BY FinalIsAbove DEF ProductDocs
<1>2. fresh = [doc EXCEPT !.cost = price, !.base = b, !.byHand = FALSE]
  BY DEF Calculated
<1> HIDE DEF b, fresh
<1>3. price # None
  BY NoneAssumption
<1>4. /\ fresh \in ProductDocs /\ fresh.cost = price /\ fresh.base = b /\ ~fresh.byHand
  BY <1>1, <1>2 DEF ProductDocs
<1>5. ASSUME NEW l \in BOOLEAN
      PROVE  [fresh EXCEPT !.linked = l] \in ProductDocs /\ Fair([fresh EXCEPT !.linked = l])
  BY <1>1, <1>3, <1>4 DEF ProductDocs, Fair
<1>6. Fair(fresh)
  BY <1>1, <1>3, <1>4 DEF Fair
<1> QED BY <1>1, <1>4, <1>5, <1>6 DEF fresh

\* A document that a calculation is written into.
LEMMA WrittenIsFair ==
  ASSUME NEW doc \in ProductDocs, NEW from \in ProductDocs, NEW price \in Prices
  PROVE  LET fresh == Calculated(from, price)
             new == [doc EXCEPT !.cost = fresh.cost, !.base = fresh.base, !.byHand = FALSE]
         IN  new \in ProductDocs /\ Fair(new)
<1> DEFINE fresh == Calculated(from, price)
           new == [doc EXCEPT !.cost = fresh.cost, !.base = fresh.base, !.byHand = FALSE]
<1>1. fresh.cost = price /\ fresh.base \in Nat /\ fresh.base >= price
  BY CalculatedIsFair
<1> HIDE DEF fresh
<1>2. price # None
  BY NoneAssumption
<1>3. new \in ProductDocs /\ Fair(new)
  BY <1>1, <1>2 DEF ProductDocs, Fair
<1> QED BY <1>3 DEF fresh

LEMMA DraftIsFair ==
  ASSUME raw \in RawDocs \cup {None},
         NEW mode \in Modes, NEW markup \in Markups, NEW base \in Prices
  PROVE  Draft(mode, markup, base) \in ProductDocs /\ Fair(Draft(mode, markup, base))
<1> DEFINE doc == [base |-> base, cost |-> None, mode |-> mode, markup |-> markup,
                   linked |-> FALSE, active |-> TRUE, byHand |-> TRUE]
<1>1. doc \in ProductDocs /\ Fair(doc)
  BY PricesAssumption DEF ProductDocs, Fair
<1>2. ASSUME raw # None
      PROVE  /\ raw.price \in Prices
             /\ [Calculated(doc, raw.price) EXCEPT !.linked = TRUE] \in ProductDocs
             /\ Fair([Calculated(doc, raw.price) EXCEPT !.linked = TRUE])
  <2>1. raw.price \in Prices
    BY <1>2 DEF RawDocs
  <2> HIDE DEF doc
  <2> QED BY <1>1, <2>1, CalculatedIsFair
<1>3. ASSUME raw # None
      PROVE  /\ [doc EXCEPT !.linked = TRUE, !.cost = raw.price] \in ProductDocs
             /\ Fair([doc EXCEPT !.linked = TRUE, !.cost = raw.price])
  BY <1>2, <1>3, PricesAssumption DEF ProductDocs, Fair
<1> QED BY <1>1, <1>2, <1>3 DEF Draft

LEMMA RepricedIsFair ==
  ASSUME raw \in RawDocs \cup {None},
         NEW doc \in ProductDocs, NEW mode \in Modes, NEW markup \in Markups \cup {None},
         NEW base \in Prices \cup {None}
  PROVE  /\ Repriced(doc, mode, markup, base) \in ProductDocs
         /\ Fair(doc) => Fair(Repriced(doc, mode, markup, base))
<1> DEFINE mk == IF markup = None THEN doc.markup ELSE markup
           next == [doc EXCEPT !.mode = mode, !.markup = mk]
           changed == markup # None \/ (mode = "sync" /\ doc.mode # "sync")
<1>0. mk \in Markups
  BY DEF ProductDocs
<1>1. next = [doc EXCEPT !.mode = mode, !.markup = IF markup = None THEN @ ELSE markup]
  BY DEF ProductDocs
<1> HIDE DEF mk
<1>2. next \in ProductDocs /\ (Fair(doc) => Fair(next))
  BY <1>0 DEF ProductDocs, Fair
<1>3. ASSUME base # None
      PROVE  /\ [next EXCEPT !.base = base, !.byHand = TRUE] \in ProductDocs
             /\ Fair([next EXCEPT !.base = base, !.byHand = TRUE])
  <2>1. base \in Nat
    BY <1>3, PricesAssumption
  <2> HIDE DEF next
  <2> QED BY <1>2, <2>1 DEF ProductDocs, Fair
<1>4. ASSUME raw # None
      PROVE  Calculated(next, raw.price) \in ProductDocs /\ Fair(Calculated(next, raw.price))
  <2>1. raw.price \in Prices
    BY <1>4 DEF RawDocs
  <2> HIDE DEF next
  <2> QED BY <1>2, <2>1, CalculatedIsFair
<1>5. Repriced(doc, mode, markup, base) =
        IF changed /\ doc.linked /\ raw # None THEN Calculated(next, raw.price)
        ELSE IF base # None THEN [next EXCEPT !.base = base, !.byHand = TRUE] ELSE next
  BY <1>1 DEF Repriced
<1> HIDE DEF next, changed
<1> QED BY <1>2, <1>3, <1>4, <1>5

\* Every update that an administrator may ask for.
LEMMA UpdateIsFair ==
  ASSUME raw \in RawDocs \cup {None}, NEW doc \in ProductDocs, NEW next \in Updates(doc)
  PROVE  next \in ProductDocs /\ (Fair(doc) => Fair(next))
<1>1. ASSUME NEW mode \in Modes, NEW markup \in Markups \cup {None},
             NEW base \in Prices \cup {None}, next = Repriced(doc, mode, markup, base)
      PROVE  next \in ProductDocs /\ (Fair(doc) => Fair(next))
  BY <1>1, RepricedIsFair
<1>2. ASSUME next = [doc EXCEPT !.active = ~doc.active]
      PROVE  next \in ProductDocs /\ (Fair(doc) => Fair(next))
  BY <1>2 DEF ProductDocs, Fair
<1>3. ASSUME raw # None, NEW m \in Markups, next = Adjusted(doc, m.value)
      PROVE  next \in ProductDocs /\ (Fair(doc) => Fair(next))
  <2>0. raw.price \in Prices /\ m.value \in Nat
    BY <1>3, MarkupsAssumption DEF RawDocs
  <2>1. raw.price \in Prices /\ raw.price + m.value \in Nat
    <3>1. \A x \in Prices, y \in Nat : x + y \in Nat
      BY PricesAssumption
    <3> QED BY <2>0, <3>1
  <2>2. Calculated(doc, raw.price) \in ProductDocs
    BY <2>1, CalculatedIsFair
  <2> QED BY <1>3, <2>1, <2>2 DEF Adjusted, ProductDocs, Fair
<1>4. ASSUME raw # None, next = Relinked(doc)
      PROVE  next \in ProductDocs /\ (Fair(doc) => Fair(next))
  <2>1. raw.price \in Prices
    BY <1>4 DEF RawDocs
  <2> QED BY <1>4, <2>1, CalculatedIsFair DEF Relinked
<1> QED BY <1>1, <1>2, <1>3, <1>4 DEF Updates

-----------------------------------------------------------------------------
(* Steps of one handler *)

LEMMA RestingIsWork ==
  /\ IsWork(Resting) /\ ~Asks(Resting) /\ Resting.op = "none" /\ FairWork(Resting)
  /\ Resting.pc = "none"
BY DEF IsWork, Working, Resting, Working, Asks, FairWork

\* A handler does something: whatever else there is stays as it was.
LEMMA StepKeeps ==
  ASSUME CInv, NEW s \in Staff, NEW w, IsWork(w), work' = [work EXCEPT ![s] = w],
         CatalogTypeOK', Exclusive',
         \A g \in Products : product[g] # None => product'[g] # None,
         w.op \in {"order", "update"} => product'[w.ref] # None,
         w.op = "sync" /\ w.pc = "push" => \A g \in DOMAIN w.doc : product'[g] # None,
         ~torn' => /\ ~torn /\ FairWork(w)
                   /\ \A g \in Products : product'[g] # None => Fair(product'[g])
  PROVE  CInv'
<1>1. /\ work' = [t \in Staff |-> work'[t]]
      /\ \A t \in Staff : work'[t] = IF t = s THEN w ELSE work[t]
  BY DEF CInv
<1>2. ASSUME NEW t \in Staff
      PROVE  /\ IsWork(work'[t]) /\ (~torn' => FairWork(work'[t]))
             /\ work'[t].op \in {"order", "update"} => product'[work'[t].ref] # None
             /\ work'[t].op = "sync" /\ work'[t].pc = "push" =>
                   \A g \in DOMAIN work'[t].doc : product'[g] # None
  <2>1. CASE t = s
    BY <1>1, <2>1
  <2>2. CASE t # s
    <3>1. work'[t] = work[t] /\ IsWork(work[t]) /\ Refers(work[t]) /\ Pushes(work[t])
      BY <1>1, <2>2 DEF CInv
    <3>2. work[t].op \in {"order", "update"} => work[t].ref \in Products
      BY <3>1 DEF IsWork, OrderWork, SyncWork, AdminWork, Resting, Working
    <3>3. work[t].op = "sync" /\ work[t].pc = "push" => DOMAIN work[t].doc \subseteq Products
      BY <3>1 DEF IsWork, OrderWork, SyncWork, AdminWork, Resting, Working
    <3>4. ~torn' => FairWork(work[t])
      BY DEF CInv, Priced
    <3> QED BY <3>1, <3>2, <3>3, <3>4 DEF Refers, Pushes
  <2> QED BY <2>1, <2>2
<1>3. Priced'
  BY <1>2 DEF Priced
<1> QED BY <1>1, <1>2, <1>3 DEF CInv, Refers, Pushes

\* A step that leaves locks, fetches and caches alone.
LEMMA ExclusiveStays ==
  ASSUME CInv, NEW s \in Staff, NEW w, work' = [work EXCEPT ![s] = w],
         UNCHANGED <<lock, cached, home>>,
         w.op = "sync" <=> work[s].op = "sync", Asks(w) => Asks(work[s])
  PROVE  Exclusive'
<1>1. \A t \in Staff : work'[t] = IF t = s THEN w ELSE work[t]
  BY DEF CInv
<1>2. \A t \in Staff : /\ work'[t].op = "sync" <=> work[t].op = "sync"
                       /\ Asks(work'[t]) => Asks(work[t])
  BY <1>1
<1> QED BY <1>2 DEF CInv, Exclusive

\* A sync ends and lets go of the lock of its process.
LEMMA ReleaseKeeps ==
  ASSUME CInv, NEW s \in Staff, Release(s), work[s].op = "sync",
         UNCHANGED <<supply, provider, cached, open, home, started, torn>>,
         raw' \in RawDocs \cup {None}, product' \in [Products -> ProductDocs \cup {None}],
         \A g \in Products : product[g] # None => product'[g] # None,
         ~torn => \A g \in Products : product'[g] # None => Fair(product'[g])
  PROVE  CInv'
<1>1. /\ work' = [work EXCEPT ![s] = Resting] /\ lock' = [lock EXCEPT ![home[s]] = FALSE]
      /\ \A t \in Staff : work'[t] = IF t = s THEN Resting ELSE work[t]
      /\ home \in [Staff -> Processes] /\ lock \in [Processes -> BOOLEAN]
  BY DEF Release, Ends, CInv, CatalogTypeOK
<1>2. CatalogTypeOK'
  BY <1>1 DEF CInv, CatalogTypeOK
<1>3. Exclusive'
  <2>1. \A p \in Processes : lock'[p] = IF p = home[s] THEN FALSE ELSE lock[p]
    BY <1>1
  <2>2. \A t \in Staff : /\ work'[t].op = "sync" <=> work[t].op = "sync" /\ t # s
                         /\ Asks(work'[t]) => Asks(work[t])
    BY <1>1, RestingIsWork
  <2>3. \A t \in Staff : home[t] = home[s] /\ work[t].op = "sync" => t = s
    BY DEF CInv, Exclusive
  <2>4. ASSUME NEW q \in Processes
        PROVE  lock'[q] <=> \E t \in Staff : home[t] = q /\ work'[t].op = "sync"
    <3>1. lock[q] <=> \E t \in Staff : home[t] = q /\ work[t].op = "sync"
      BY DEF CInv, Exclusive
    <3>2. CASE q = home[s]
      BY <2>1, <2>2, <2>3, <3>2
    <3>3. CASE q # home[s]
      BY <2>1, <2>2, <3>1, <3>3
    <3> QED BY <3>2, <3>3
  <2>5. UNCHANGED <<home, cached>>
    OBVIOUS
  <2> QED BY <2>2, <2>4, <2>5 DEF CInv, Exclusive
<1> QED BY <1>1, <1>2, <1>3, RestingIsWork, StepKeeps

\* A handler ends that is no sync.
LEMMA EndKeeps ==
  ASSUME CInv, NEW s \in Staff, Ends(s), work[s].op # "sync",
         UNCHANGED <<supply, lock, cached, open, home, started>>,
         provider' \in ProviderDocs, provider'.active => provider'.there,
         raw' = raw, product' \in [Products -> ProductDocs \cup {None}], torn' \in BOOLEAN,
         \A g \in Products : product[g] # None => product'[g] # None,
         ~torn' => ~torn /\ \A g \in Products : product'[g] # None => Fair(product'[g])
  PROVE  CInv'
<1>1. work' = [work EXCEPT ![s] = Resting]
  BY DEF Ends
<1>2. CatalogTypeOK'
  BY <1>1 DEF CInv, CatalogTypeOK
<1>3. Exclusive'
  BY <1>1, RestingIsWork, ExclusiveStays
<1> QED BY <1>1, <1>2, <1>3, RestingIsWork, StepKeeps

\* A handler goes on, and nothing else happens.
LEMMA MoveKeeps ==
  ASSUME CInv, NEW s \in Staff, NEW w, IsWork(w), work' = [work EXCEPT ![s] = w],
         UNCHANGED <<supply, provider, product, lock, cached, open, home, started, torn>>,
         raw' \in RawDocs \cup {None},
         w.op = "sync" <=> work[s].op = "sync", Asks(w) => Asks(work[s]),
         w.op \in {"order", "update"} => product[w.ref] # None,
         w.op = "sync" /\ w.pc = "push" => \A g \in DOMAIN w.doc : product[g] # None,
         ~torn => FairWork(w)
  PROVE  CInv'
<1>1. CatalogTypeOK'
  BY DEF CInv, CatalogTypeOK
<1>2. Exclusive'
  BY ExclusiveStays
<1> QED BY <1>1, <1>2, StepKeeps DEF CInv, Priced

\* A handler begins that is no sync.
LEMMA StartKeeps ==
  ASSUME CInv, NEW s \in Staff, NEW w, IsWork(w), Starts(s, w), KeepShop,
         UNCHANGED <<provider, raw, product>>, w.op # "sync", ~Asks(w),
         w.op \in {"order", "update"} => product[w.ref] # None,
         ~torn => FairWork(w)
  PROVE  CInv'
<1>1. /\ work' = [work EXCEPT ![s] = w] /\ work[s] = Resting
      /\ started' \in 0..MaxJobs
      /\ UNCHANGED <<supply, lock, cached, open, home, torn>>
  BY CatalogBounds DEF Starts, KeepShop, CInv, CatalogTypeOK
<1>2. CatalogTypeOK'
  BY <1>1 DEF CInv, CatalogTypeOK
<1>3. Exclusive'
  BY <1>1, RestingIsWork, ExclusiveStays
<1> QED BY <1>1, <1>2, <1>3, StepKeeps DEF CInv, Priced

-----------------------------------------------------------------------------
(* Orders *)

\* What is known of a handler by what it does.
LEMMA WorkOf ==
  ASSUME CInv, NEW s \in Staff
  PROVE  /\ IsWork(work[s]) /\ Refers(work[s]) /\ Pushes(work[s])
         /\ ~torn => FairWork(work[s])
         /\ work[s].op = "order" => OrderWork(work[s])
         /\ work[s].op = "sync" => SyncWork(work[s])
         /\ work[s].op \in {"publish", "update", "toggle", "delete"} => AdminWork(work[s])
         /\ Asks(work[s]) => work[s].op = "order"
         /\ work[s].pc = "waiting" => work[s].op = "order"
<1>1. IsWork(work[s]) /\ Refers(work[s]) /\ Pushes(work[s]) /\ (~torn => FairWork(work[s]))
  BY DEF CInv, Priced
<1> QED BY <1>1, RestingIsWork DEF IsWork, Working, OrderWork, SyncWork, AdminWork, Asks

LEMMA JudgedIsWork ==
  ASSUME NEW v, IsWork(v), OrderWork(v), v.doc.linked, NEW list \in Lists,
         NEW w, w = Judged(v, list)
  PROVE  /\ IsWork(w) /\ w.op = "order" /\ w.ref = v.ref /\ ~Asks(w)
         /\ FairWork(v) => FairWork(w)
<1> DEFINE pc == IF Risen(v.doc, list) THEN "raise" ELSE "sell"
<1>1. w = [v EXCEPT !.pc = pc, !.seen = list] /\ pc \in {"raise", "sell"}
  BY DEF Judged
<1>2. /\ w.op = "order" /\ w.pc = pc /\ w.ref = v.ref /\ w.doc = v.doc /\ w.seen = list
      /\ w = [op |-> w.op, pc |-> w.pc, ref |-> w.ref, doc |-> w.doc, seen |-> w.seen]
      /\ FairWork(v) => FairWork(w)
  <2> HIDE DEF pc
  <2> QED BY <1>1 DEF IsWork, Working, OrderWork, FairWork
<1>3. /\ pc = "raise" => list.price # None
      /\ pc = "sell" => ~Risen(v.doc, list)
  BY DEF Risen
<1> HIDE DEF pc
<1>4. OrderWork(w)
  BY <1>1, <1>2, <1>3 DEF OrderWork
<1> QED BY <1>1, <1>2, <1>4 DEF IsWork, Working, Asks

LEMMA CheckPriceKeeps ==
  ASSUME CInv, NEW s \in Staff, CheckPrice(s)
  PROVE  CInv'
<1> DEFINE v == work[s]
           p == home[s]
           list == cached[p]
           checked == v.doc.linked /\ provider.active
<1>1. /\ v.op = "order" /\ v.pc = "check" /\ p \in Processes /\ IsWork(v) /\ OrderWork(v)
      /\ Refers(v) /\ (~torn => FairWork(v)) /\ list \in Lists \cup {None} /\ v.seen = None
      /\ UNCHANGED <<supply, provider, raw, product, lock, open, home, started, torn>>
  BY WorkOf DEF CheckPrice, Reached, CInv, CatalogTypeOK, OrderWork
<1>2. CASE checked /\ list # None
  <2> DEFINE w == Judged(v, list)
             c == IF Risen(v.doc, list) THEN None ELSE list
  <2>1. work' = [work EXCEPT ![s] = w] /\ cached' = [cached EXCEPT ![p] = c]
    BY <1>2 DEF CheckPrice
  <2>2. list \in Lists /\ c \in Lists \cup {None}
    BY <1>1, <1>2
  <2>3. /\ IsWork(w) /\ w.op = "order" /\ w.ref = v.ref /\ ~Asks(w)
        /\ FairWork(v) => FairWork(w)
    BY <1>1, <1>2, <2>2, JudgedIsWork
  <2> HIDE DEF w, c
  <2>4. CatalogTypeOK'
    BY <1>1, <2>1, <2>2 DEF CInv, CatalogTypeOK
  <2>5. Exclusive'
    <3>1. \A t \in Staff : /\ work'[t] = IF t = s THEN w ELSE work[t]
                           /\ work'[t].op = "sync" <=> work[t].op = "sync"
                           /\ Asks(work'[t]) => Asks(work[t])
      BY <1>1, <2>1, <2>3 DEF CInv
    <3>2. \A t \in Staff : Asks(work[t]) => home[t] # p
      BY <1>2 DEF CInv, Exclusive
    <3>3. \A q \in Processes : q # p => cached'[q] = cached[q]
      BY <2>1 DEF CInv, CatalogTypeOK
    <3>4. home \in [Staff -> Processes]
      BY DEF CInv, CatalogTypeOK
    <3> QED BY <1>1, <3>1, <3>2, <3>3, <3>4 DEF CInv, Exclusive
  <2> QED BY <1>1, <2>1, <2>3, <2>4, <2>5, StepKeeps DEF Refers, CInv, Priced
<1>3. CASE ~(checked /\ list # None)
  <2> DEFINE pc == IF ~checked THEN "sell" ELSE IF Asking(s) = {} THEN "asking" ELSE "waiting"
             w == [v EXCEPT !.pc = pc]
  <2>1. work' = [work EXCEPT ![s].pc = pc] /\ cached' = cached
    BY <1>3 DEF CheckPrice, Proceed
  <2>2. work' = [work EXCEPT ![s] = w]
    BY <2>1
  <2>3. /\ pc \in {"sell", "asking", "waiting"}
        /\ pc # "sell" => v.doc.linked /\ list = None
        /\ pc = "asking" => \A t \in Staff : home[t] = p => ~Asks(work[t])
    BY <1>3 DEF Asking, Asks
  <2> HIDE DEF pc
  <2>4. /\ w = [v EXCEPT !.pc = pc, !.seen = None]
        /\ w.op = "order" /\ w.pc = pc /\ w.ref = v.ref /\ w.doc = v.doc /\ w.seen = None
        /\ w = [op |-> w.op, pc |-> w.pc, ref |-> w.ref, doc |-> w.doc, seen |-> w.seen]
        /\ FairWork(v) => FairWork(w)
    <3>1. w = [v EXCEPT !.pc = pc, !.seen = None]
      BY <1>1 DEF IsWork, Working
    <3> HIDE DEF w, v
    <3> QED BY <1>1, <3>1 DEF IsWork, Working, OrderWork, FairWork
  <2>5. IsWork(w)
    <3>1. OrderWork(w)
      BY <1>1, <2>3, <2>4 DEF OrderWork
    <3> QED BY <2>4, <3>1 DEF IsWork, Working
  <2> HIDE DEF w
  <2>6. CatalogTypeOK'
    BY <1>1, <2>1, <2>2 DEF CInv, CatalogTypeOK
  <2>7. Exclusive'
    <3>1. \A t \in Staff : /\ work'[t] = IF t = s THEN w ELSE work[t]
                           /\ work'[t].op = "sync" <=> work[t].op = "sync"
      BY <1>1, <2>2, <2>4 DEF CInv
    <3>2. Asks(w) => list = None /\ \A t \in Staff : home[t] = p => ~Asks(work[t])
      BY <2>3, <2>4 DEF Asks
    <3> QED BY <1>1, <2>1, <3>1, <3>2 DEF CInv, Exclusive
  <2> QED BY <1>1, <2>2, <2>4, <2>5, <2>6, <2>7, StepKeeps DEF Refers, CInv, Priced
<1> QED BY <1>2, <1>3

\* Several handlers of orders move at once, or end.
LEMMA ManyKeep ==
  ASSUME CInv, CatalogTypeOK', Exclusive', UNCHANGED <<product, torn>>,
         work' = [t \in Staff |-> work'[t]],
         \A t \in Staff :
           \/ work'[t] = Resting \/ work'[t] = work[t]
           \/ /\ IsWork(work'[t]) /\ work'[t].op = "order"
              /\ work[t].op = "order" /\ work'[t].ref = work[t].ref
              /\ FairWork(work[t]) => FairWork(work'[t])
  PROVE  CInv'
<1>1. ASSUME NEW t \in Staff
      PROVE  /\ IsWork(work'[t]) /\ (~torn' => FairWork(work'[t]))
             /\ work'[t].op \in {"order", "update"} => product'[work'[t].ref] # None
             /\ work'[t].op = "sync" /\ work'[t].pc = "push" =>
                   \A g \in DOMAIN work'[t].doc : product'[g] # None
  BY RestingIsWork, WorkOf DEF Refers, Pushes
<1>2. Priced'
  BY <1>1 DEF CInv, Priced
<1> QED BY <1>1, <1>2 DEF CInv, Refers, Pushes

LEMMA SupplierAnswersKeeps ==
  ASSUME CInv, NEW s \in Staff, NEW heard \in BOOLEAN, SupplierAnswers(s, heard)
  PROVE  CInv'
<1>1. PICK list \in Lists \cup {None} :
        work' = [work EXCEPT ![s] = [work[s] EXCEPT !.pc = "told", !.seen = list]]
  BY DEF SupplierAnswers, CInv, CatalogTypeOK
<1> DEFINE v == work[s]
           w == [v EXCEPT !.pc = "told", !.seen = list]
<1>2. /\ v.op = "order" /\ v.pc = "asking" /\ IsWork(v) /\ OrderWork(v)
      /\ Refers(v) /\ (~torn => FairWork(v))
      /\ UNCHANGED <<supply, provider, raw, product, lock, cached, open, home, started, torn>>
      /\ raw \in RawDocs \cup {None} /\ work' = [work EXCEPT ![s] = w]
  BY <1>1, WorkOf DEF SupplierAnswers, Reached, KeepShop, CInv, CatalogTypeOK, OrderWork
<1> HIDE DEF v
<1>3. /\ w.op = "order" /\ w.pc = "told" /\ w.ref = v.ref /\ w.doc = v.doc /\ w.seen = list
      /\ w = [op |-> w.op, pc |-> w.pc, ref |-> w.ref, doc |-> w.doc, seen |-> w.seen]
      /\ FairWork(v) => FairWork(w)
  <2>1. w = [v EXCEPT !.pc = "told", !.seen = list]
    OBVIOUS
  <2> HIDE DEF w
  <2>2. w = [op |-> v.op, pc |-> "told", ref |-> v.ref, doc |-> v.doc, seen |-> list]
    BY <1>2, <2>1 DEF IsWork, Working
  <2> QED BY <1>2, <2>2 DEF FairWork
<1> HIDE DEF w
<1>4. IsWork(w)
  BY <1>2, <1>3 DEF IsWork, Working, OrderWork
<1>5. Asks(w) => Asks(v)
  BY <1>2 DEF Asks
<1> QED BY <1>2, <1>3, <1>4, <1>5, MoveKeeps DEF Refers, v

\* Those of a process that wait for the same answer.
LEMMA JoinedWait ==
  ASSUME CInv, NEW s \in Staff, Reached(s, "order", "told"), NEW t \in Joined(s)
  PROVE  /\ t \in Staff /\ home[t] = home[s] /\ work[t].op = "order"
         /\ IsWork(work[t]) /\ OrderWork(work[t]) /\ work[t].doc.linked
         /\ t # s => work[t].pc = "waiting" /\ work[t].seen = None
<1>1. t \in Staff /\ home[t] = home[s] /\ (t # s => work[t].pc = "waiting")
  BY DEF Joined
<1>2. work[t].pc \in {"told", "waiting"} /\ work[t].op = "order"
  BY <1>1, WorkOf DEF Reached
<1> QED BY <1>1, <1>2, WorkOf DEF OrderWork

LEMMA FetchArrivesKeeps ==
  ASSUME CInv, NEW s \in Staff, FetchArrives(s)
  PROVE  CInv'
<1> DEFINE list == work[s].seen
           p == home[s]
           c == IF \E t \in Joined(s) : Risen(work[t].doc, list) THEN None ELSE list
           N(t) == IF t \in Joined(s) THEN Judged(work[t], list) ELSE work[t]
<1>1. /\ Reached(s, "order", "told") /\ list # None
      /\ work' = [t \in Staff |-> N(t)] /\ cached' = [cached EXCEPT ![p] = c]
      /\ UNCHANGED <<supply, provider, raw, product, lock, open, home, started, torn>>
  BY DEF FetchArrives
<1>2. list \in Lists /\ c \in Lists \cup {None} /\ p \in Processes
  BY <1>1, WorkOf DEF Reached, OrderWork, CInv, CatalogTypeOK
<1>3. s \in Joined(s) /\ Asks(work[s])
  BY <1>1 DEF Joined, Reached, Asks
<1>4. ASSUME NEW t \in Staff
      PROVE  \/ t \notin Joined(s) /\ N(t) = work[t]
             \/ /\ t \in Joined(s)
                /\ IsWork(N(t)) /\ N(t).op = "order" /\ ~Asks(N(t))
                /\ work[t].op = "order" /\ N(t).ref = work[t].ref
                /\ FairWork(work[t]) => FairWork(N(t))
  <2>1. CASE t \notin Joined(s)
    BY <2>1
  <2>2. CASE t \in Joined(s)
    <3>1. IsWork(work[t]) /\ OrderWork(work[t]) /\ work[t].doc.linked /\ work[t].op = "order"
      BY <1>1, <2>2, JoinedWait
    <3> QED BY <1>2, <2>2, <3>1, JudgedIsWork
  <2> QED BY <2>1, <2>2
<1> HIDE DEF N, c
<1>5. CatalogTypeOK'
  BY <1>1, <1>2 DEF CInv, CatalogTypeOK
<1>6. Exclusive'
  <2>1. \A t \in Staff : /\ work'[t].op = "sync" <=> work[t].op = "sync"
                         /\ Asks(work'[t]) => Asks(work[t]) /\ t \notin Joined(s)
    BY <1>1, <1>4
  <2>2. \A t \in Staff : Asks(work'[t]) => home[t] # p
    BY <1>3, <2>1 DEF CInv, Exclusive
  <2>3. \A q \in Processes : q # p => cached'[q] = cached[q]
    BY <1>1 DEF CInv, CatalogTypeOK
  <2>4. home \in [Staff -> Processes]
    BY DEF CInv, CatalogTypeOK
  <2> QED BY <1>1, <2>1, <2>2, <2>3, <2>4 DEF CInv, Exclusive
<1>7. \A t \in Staff : work'[t] = N(t)
  BY <1>1
<1>8. work' = [t \in Staff |-> work'[t]]
  BY <1>1
<1> QED BY <1>1, <1>4, <1>5, <1>6, <1>7, <1>8, ManyKeep

LEMMA FetchFailsKeeps ==
  ASSUME CInv, NEW s \in Staff, FetchFails(s)
  PROVE  CInv'
<1> DEFINE N(t) == IF t \in Joined(s) THEN [work[t] EXCEPT !.pc = "sell"] ELSE work[t]
<1>1. /\ Reached(s, "order", "told") /\ work[s].seen = None
      /\ work' = [t \in Staff |-> N(t)] /\ open' = open \ {home[s]}
      /\ UNCHANGED <<supply, provider, raw, product, lock, cached, home, started, torn>>
  BY DEF FetchFails
<1>2. ASSUME NEW t \in Staff
      PROVE  \/ t \notin Joined(s) /\ N(t) = work[t]
             \/ /\ t \in Joined(s)
                /\ IsWork(N(t)) /\ N(t).op = "order" /\ ~Asks(N(t))
                /\ work[t].op = "order" /\ N(t).ref = work[t].ref
                /\ FairWork(work[t]) => FairWork(N(t))
  <2>1. CASE t \notin Joined(s)
    BY <2>1
  <2>2. CASE t \in Joined(s)
    <3> DEFINE v == work[t]
               w == [v EXCEPT !.pc = "sell"]
    <3>1. IsWork(v) /\ OrderWork(v) /\ v.op = "order" /\ v.seen = None
      BY <1>1, <2>2, JoinedWait
    <3> HIDE DEF v
    <3>2. /\ w.op = "order" /\ w.pc = "sell" /\ w.ref = v.ref /\ w.doc = v.doc /\ w.seen = None
          /\ w = [op |-> w.op, pc |-> w.pc, ref |-> w.ref, doc |-> w.doc, seen |-> w.seen]
          /\ FairWork(v) => FairWork(w)
      BY <3>1 DEF IsWork, Working, OrderWork, FairWork
    <3>3. N(t) = w
      BY <2>2 DEF v
    <3> HIDE DEF w, N
    <3>4. IsWork(w) /\ ~Asks(w)
      BY <3>1, <3>2 DEF IsWork, Working, OrderWork, Asks
    <3> QED BY <2>2, <3>1, <3>2, <3>3, <3>4 DEF v
  <2> QED BY <2>1, <2>2
<1> HIDE DEF N
<1>3. CatalogTypeOK'
  BY <1>1 DEF CInv, CatalogTypeOK
<1>4. Exclusive'
  <2>1. \A t \in Staff : /\ work'[t].op = "sync" <=> work[t].op = "sync"
                         /\ Asks(work'[t]) => Asks(work[t])
    BY <1>1, <1>2
  <2> QED BY <1>1, <2>1 DEF CInv, Exclusive
<1>5. \A t \in Staff : work'[t] = N(t)
  BY <1>1
<1>6. work' = [t \in Staff |-> work'[t]]
  BY <1>1
<1> QED BY <1>1, <1>2, <1>3, <1>4, <1>5, <1>6, ManyKeep

LEMMA RestartKeeps ==
  ASSUME CInv, NEW p \in Processes, Restart(p)
  PROVE  CInv'
<1>1. /\ work' = [s \in Staff |-> IF home[s] = p THEN Resting ELSE work[s]]
      /\ lock' = [lock EXCEPT ![p] = FALSE] /\ cached' = [cached EXCEPT ![p] = None]
      /\ open' = open \cup {p}
      /\ UNCHANGED <<supply, provider, raw, product, home, started, torn>>
  BY DEF Restart
<1>2. CatalogTypeOK'
  BY <1>1 DEF CInv, CatalogTypeOK
<1>3. Exclusive'
  <2>1. \A t \in Staff : /\ work'[t].op = "sync" <=> work[t].op = "sync" /\ home[t] # p
                         /\ Asks(work'[t]) => Asks(work[t]) /\ home[t] # p
    BY <1>1, RestingIsWork
  <2>2. \A q \in Processes : /\ lock'[q] = IF q = p THEN FALSE ELSE lock[q]
                             /\ cached'[q] = IF q = p THEN None ELSE cached[q]
    BY <1>1 DEF CInv, CatalogTypeOK
  <2>3. ASSUME NEW q \in Processes
        PROVE  lock'[q] <=> \E t \in Staff : home[t] = q /\ work'[t].op = "sync"
    <3>1. lock[q] <=> \E t \in Staff : home[t] = q /\ work[t].op = "sync"
      BY DEF CInv, Exclusive
    <3> QED BY <2>1, <2>2, <3>1
  <2>4. \A t \in Staff : home[t] \in Processes
    BY DEF CInv, CatalogTypeOK
  <2> QED BY <1>1, <2>1, <2>2, <2>3, <2>4 DEF CInv, Exclusive
<1>4. \A t \in Staff : work'[t] = Resting \/ work'[t] = work[t]
  BY <1>1
<1>5. work' = [t \in Staff |-> work'[t]]
  BY <1>1
<1> QED BY <1>1, <1>2, <1>3, <1>4, <1>5, ManyKeep

\* A calculated price is written into a product.
LEMMA WriteKeepsProducts ==
  ASSUME CInv, NEW g \in Products, product[g] # None, NEW from \in ProductDocs,
         NEW price \in Prices, NEW fresh, fresh = Calculated(from, price),
         product' = [product EXCEPT ![g].cost = fresh.cost, ![g].base = fresh.base,
                                    ![g].byHand = FALSE]
  PROVE  /\ product' \in [Products -> ProductDocs \cup {None}]
         /\ \A h \in Products : product[h] # None => product'[h] # None
         /\ ~torn => \A h \in Products : product'[h] # None => Fair(product'[h])
<1> DEFINE new == [product[g] EXCEPT !.cost = fresh.cost, !.base = fresh.base, !.byHand = FALSE]
<1>1. /\ product \in [Products -> ProductDocs \cup {None}] /\ product[g] \in ProductDocs
      /\ ~torn => \A h \in Products : product[h] # None => Fair(product[h])
  BY DEF CInv, CatalogTypeOK, Priced
<1>2. new \in ProductDocs /\ Fair(new)
  BY <1>1, WrittenIsFair
<1>3. product' = [product EXCEPT ![g] = new]
  BY <1>1
<1> HIDE DEF new
<1> QED BY <1>1, <1>2, <1>3, NoneAssumption

LEMMA RaisePriceKeeps ==
  ASSUME CInv, NEW s \in Staff, RaisePrice(s)
  PROVE  CInv'
<1> DEFINE v == work[s]
           fresh == Calculated(v.doc, v.seen.price)
<1>1. /\ v.op = "order" /\ v.pc = "raise" /\ OrderWork(v) /\ Refers(v) /\ Ends(s)
      /\ product' = [product EXCEPT ![v.ref].cost = fresh.cost, ![v.ref].base = fresh.base,
                                    ![v.ref].byHand = FALSE]
      /\ UNCHANGED <<supply, provider, raw, lock, cached, open, home, started, torn>>
  BY WorkOf DEF RaisePrice, Reached, KeepShop
<1>2. v.ref \in Products /\ product[v.ref] # None /\ v.doc \in ProductDocs /\ v.seen.price \in Prices
  BY <1>1 DEF OrderWork, Refers, Lists
<1> HIDE DEF fresh
<1>3. /\ product' \in [Products -> ProductDocs \cup {None}]
      /\ \A h \in Products : product[h] # None => product'[h] # None
      /\ ~torn => \A h \in Products : product'[h] # None => Fair(product'[h])
  BY <1>1, <1>2, WriteKeepsProducts DEF fresh
<1> QED BY <1>1, <1>3, EndKeeps DEF CInv, CatalogTypeOK

LEMMA SellKeeps ==
  ASSUME CInv, NEW s \in Staff, Sell(s)
  PROVE  CInv'
BY EndKeeps DEF Sell, Reached, KeepShop, CInv, CatalogTypeOK, Priced

LEMMA StartOrderKeeps ==
  ASSUME CInv, NEW s \in Staff, NEW g \in Products, StartOrder(s, g)
  PROVE  CInv'
<1> DEFINE w == Working("order", "check", g, product[g], None)
<1>1. /\ Starts(s, w) /\ KeepShop /\ UNCHANGED <<provider, raw, product>> /\ product[g] # None
      /\ product[g] \in ProductDocs /\ (~torn => Fair(product[g]))
  BY DEF StartOrder, CInv, CatalogTypeOK, Priced
<1>2. w = [op |-> "order", pc |-> "check", ref |-> g, doc |-> product[g], seen |-> None]
  BY DEF Working
<1> HIDE DEF w
<1>3. IsWork(w) /\ w.op = "order" /\ w.ref = g /\ ~Asks(w) /\ (~torn => FairWork(w))
  BY <1>1, <1>2 DEF IsWork, Working, OrderWork, Asks, FairWork
<1> QED BY <1>1, <1>3, StartKeeps

LEMMA TTLPassesKeeps ==
  ASSUME CInv, NEW p \in Processes, TTLPasses(p)
  PROVE  CInv'
<1>1. /\ cached' = [cached EXCEPT ![p] = None]
      /\ UNCHANGED <<supply, provider, raw, product, lock, open, home, work, started, torn>>
  BY DEF TTLPasses
<1>2. CatalogTypeOK'
  BY <1>1 DEF CInv, CatalogTypeOK
<1>3. Exclusive'
  BY <1>1 DEF CInv, Exclusive, CatalogTypeOK
<1>4. \A t \in Staff : work'[t] = work[t]
  BY <1>1
<1>5. work' = [t \in Staff |-> work'[t]]
  BY <1>1 DEF CInv
<1> QED BY <1>1, <1>2, <1>3, <1>4, <1>5, ManyKeep

-----------------------------------------------------------------------------
(* The sync *)

LEMMA StartSyncKeeps ==
  ASSUME CInv, NEW s \in Staff, NEW byJob \in BOOLEAN, StartSync(s, byJob)
  PROVE  CInv'
<1> DEFINE w == Working("sync", "validate", None, None, None)
           p == home[s]
<1>1. /\ work' = [work EXCEPT ![s] = w] /\ work[s] = Resting /\ ~lock[p] /\ p \in Processes
      /\ lock' = [lock EXCEPT ![p] = TRUE] /\ started' \in 0..MaxJobs
      /\ UNCHANGED <<supply, provider, raw, product, cached, open, home, torn>>
  BY CatalogBounds DEF StartSync, Starts, CInv, CatalogTypeOK
<1>2. w = [op |-> "sync", pc |-> "validate", ref |-> None, doc |-> None, seen |-> None]
  BY DEF Working
<1> HIDE DEF w
<1>3. IsWork(w) /\ w.op = "sync" /\ w.pc = "validate" /\ ~Asks(w) /\ FairWork(w)
  BY <1>1, <1>2 DEF IsWork, Working, SyncWork, Asks, FairWork
<1>4. CatalogTypeOK'
  BY <1>1 DEF CInv, CatalogTypeOK
<1>5. Exclusive'
  <2>1. \A t \in Staff : /\ work'[t].op = "sync" <=> (work[t].op = "sync" \/ t = s)
                         /\ Asks(work'[t]) => Asks(work[t])
    BY <1>1, <1>3, RestingIsWork DEF CInv
  <2>2. \A q \in Processes : lock'[q] = IF q = p THEN TRUE ELSE lock[q]
    BY <1>1 DEF CInv, CatalogTypeOK
  <2>3. \A t \in Staff : home[t] = p => work[t].op # "sync"
    BY <1>1 DEF CInv, Exclusive
  <2>4. ASSUME NEW q \in Processes
        PROVE  lock'[q] <=> \E t \in Staff : home[t] = q /\ work'[t].op = "sync"
    <3>1. lock[q] <=> \E t \in Staff : home[t] = q /\ work[t].op = "sync"
      BY DEF CInv, Exclusive
    <3>2. CASE q = p
      BY <2>1, <2>2, <3>2
    <3>3. CASE q # p
      BY <2>1, <2>2, <3>1, <3>3
    <3> QED BY <3>2, <3>3
  <2>5. ASSUME NEW t \in Staff, NEW u \in Staff, home[t] = home[u],
               work'[t].op = "sync", work'[u].op = "sync"
        PROVE  t = u
    BY <2>1, <2>3, <2>5 DEF CInv, Exclusive
  <2> QED BY <1>1, <2>1, <2>4, <2>5 DEF CInv, Exclusive
<1> QED BY <1>1, <1>3, <1>4, <1>5, StepKeeps DEF CInv, Priced

\* What a sync may become.
LEMMA SyncMoves ==
  ASSUME NEW pc, NEW ref, NEW doc, NEW seen,
         pc \in {"validate", "fetch", "deactivate", "upsert", "find", "push"},
         pc \in {"upsert", "find", "push"} => seen \in Lists /\ seen.price \in Prices,
         pc = "push" => DOMAIN doc \subseteq Products /\ \A g \in DOMAIN doc : doc[g] \in ProductDocs
  PROVE  LET w == Working("sync", pc, ref, doc, seen)
         IN  IsWork(w) /\ w.op = "sync" /\ w.pc = pc /\ w.doc = doc /\ ~Asks(w) /\ FairWork(w)
<1> DEFINE w == Working("sync", pc, ref, doc, seen)
<1>1. /\ w.op = "sync" /\ w.pc = pc /\ w.ref = ref /\ w.doc = doc /\ w.seen = seen
      /\ w = Working(w.op, w.pc, w.ref, w.doc, w.seen)
  BY DEF Working
<1> HIDE DEF w
<1>2. IsWork(w) /\ ~Asks(w) /\ FairWork(w)
  BY <1>1 DEF IsWork, SyncWork, Asks, FairWork
<1> QED BY <1>1, <1>2 DEF w

\* The moves as the actions write them.
LEMMA SyncFields ==
  ASSUME NEW v, IsWork(v), v.op = "sync"
  PROVE  /\ \A pc : [v EXCEPT !.pc = pc] = Working("sync", pc, v.ref, v.doc, v.seen)
         /\ \A pc, seen : [v EXCEPT !.seen = seen, !.pc = pc]
                          = Working("sync", pc, v.ref, v.doc, seen)
         /\ \A pc, doc : [v EXCEPT !.pc = pc, !.doc = doc]
                         = Working("sync", pc, v.ref, doc, v.seen)
         /\ \A doc : [v EXCEPT !.doc = doc] = Working("sync", v.pc, v.ref, doc, v.seen)
<1>1. v = [op |-> "sync", pc |-> v.pc, ref |-> v.ref, doc |-> v.doc, seen |-> v.seen]
  BY DEF IsWork, Working
<1>2. ASSUME NEW pc PROVE [v EXCEPT !.pc = pc] = Working("sync", pc, v.ref, v.doc, v.seen)
  BY ONLY <1>1 DEF Working
<1>3. ASSUME NEW pc, NEW seen
      PROVE [v EXCEPT !.seen = seen, !.pc = pc] = Working("sync", pc, v.ref, v.doc, seen)
  <2> DEFINE u == [v EXCEPT !.seen = seen, !.pc = pc]
  <2>1. u = [v EXCEPT !.seen = seen, !.pc = pc]
    OBVIOUS
  <2> HIDE DEF u
  <2>2. u = Working("sync", pc, v.ref, v.doc, seen)
    BY <1>1, <2>1 DEF Working
  <2> QED BY ONLY <2>1, <2>2
<1>4. ASSUME NEW pc, NEW doc
      PROVE [v EXCEPT !.pc = pc, !.doc = doc] = Working("sync", pc, v.ref, doc, v.seen)
  <2> DEFINE u == [v EXCEPT !.pc = pc, !.doc = doc]
  <2>1. u = [v EXCEPT !.pc = pc, !.doc = doc]
    OBVIOUS
  <2> HIDE DEF u
  <2>2. u = Working("sync", pc, v.ref, doc, v.seen)
    BY <1>1, <2>1 DEF Working
  <2> QED BY ONLY <2>1, <2>2
<1>5. ASSUME NEW doc PROVE [v EXCEPT !.doc = doc] = Working("sync", v.pc, v.ref, doc, v.seen)
  BY ONLY <1>1 DEF Working
<1> QED BY ONLY <1>2, <1>3, <1>4, <1>5

LEMMA SyncStepKeeps ==
  ASSUME CInv, NEW s \in Staff,
         \/ ValidateProvider(s) \/ Deactivate(s) \/ FindSynced(s) \/ PushPrice(s)
         \/ \E heard, empty \in BOOLEAN : FetchCatalogue(s, heard, empty)
         \/ \E b \in BOOLEAN : Upsert(s, b)
  PROVE  CInv'
<1> DEFINE v == work[s]
<1>1. /\ v.op = "sync" /\ IsWork(v) /\ SyncWork(v) /\ Pushes(v)
      /\ supply \in Lists /\ raw \in RawDocs \cup {None}
      /\ product \in [Products -> ProductDocs \cup {None}]
      /\ ~torn => \A g \in Products : product[g] # None => Fair(product[g])
  <2>1. v.op = "sync"
    BY DEF ValidateProvider, Deactivate, FindSynced, PushPrice, FetchCatalogue, Upsert, Reached
  <2> QED BY <2>1, WorkOf DEF CInv, CatalogTypeOK, Priced
<1>2. /\ \A pc : [v EXCEPT !.pc = pc] = Working("sync", pc, v.ref, v.doc, v.seen)
      /\ \A pc, seen : [v EXCEPT !.seen = seen, !.pc = pc]
                       = Working("sync", pc, v.ref, v.doc, seen)
      /\ \A pc, doc : [v EXCEPT !.pc = pc, !.doc = doc]
                      = Working("sync", pc, v.ref, doc, v.seen)
      /\ \A doc : [v EXCEPT !.doc = doc] = Working("sync", v.pc, v.ref, doc, v.seen)
  BY <1>1, SyncFields
<1>3. CASE ValidateProvider(s)
  <2>1. UNCHANGED <<supply, provider, raw, product, cached, open, home, started, torn>>
    BY <1>3 DEF ValidateProvider
  <2>2. CASE Release(s)
    BY <1>1, <2>1, <2>2, ReleaseKeeps
  <2>3. CASE ~Release(s)
    <3> DEFINE w == Working("sync", "fetch", v.ref, v.doc, v.seen)
    <3>1. work' = [work EXCEPT ![s] = w] /\ lock' = lock
      BY <1>2, <1>3, <2>3 DEF ValidateProvider, Proceed
    <3>2. IsWork(w) /\ w.op = "sync" /\ w.pc = "fetch" /\ ~Asks(w) /\ FairWork(w)
      BY SyncMoves
    <3> HIDE DEF w
    <3> QED BY <1>1, <2>1, <3>1, <3>2, MoveKeeps
  <2> QED BY <2>2, <2>3
<1>4. CASE Deactivate(s)
  <2>1. raw' \in RawDocs \cup {None}
    BY <1>1, <1>4 DEF Deactivate, RawDocs
  <2>2. Release(s) /\ UNCHANGED <<supply, provider, product, cached, open, home, started, torn>>
    BY <1>4 DEF Deactivate
  <2> QED BY <1>1, <2>1, <2>2, ReleaseKeeps
<1>5. CASE FindSynced(s)
  <2> DEFINE found == {g \in Products : product[g] # None /\ product[g].linked
                                                        /\ product[g].mode = "sync"}
             doc == [g \in found |-> product[g]]
  <2>1. UNCHANGED <<supply, provider, raw, product, cached, open, home, started, torn>>
    BY <1>5 DEF FindSynced
  <2>2. CASE found = {}
    BY <1>1, <1>5, <2>1, <2>2, ReleaseKeeps DEF FindSynced
  <2>3. CASE found # {}
    <3>1. /\ work' = [work EXCEPT ![s] = [v EXCEPT !.pc = "push", !.doc = doc]]
          /\ lock' = lock /\ v.pc = "find"
      BY <1>5, <2>3 DEF FindSynced, Reached
    <3>2. DOMAIN doc \subseteq Products
          /\ \A g \in DOMAIN doc : doc[g] \in ProductDocs /\ product[g] # None
      BY <1>1
    <3>3. v.seen \in Lists /\ v.seen.price \in Prices
      BY <1>1, <3>1 DEF SyncWork
    <3> HIDE DEF doc, found
    <3> DEFINE w == Working("sync", "push", v.ref, doc, v.seen)
    <3>4. work' = [work EXCEPT ![s] = w]
      BY <1>2, <3>1
    <3>5. IsWork(w) /\ w.op = "sync" /\ w.pc = "push" /\ w.doc = doc /\ ~Asks(w) /\ FairWork(w)
      BY <3>2, <3>3, SyncMoves
    <3> HIDE DEF w
    <3> QED BY <1>1, <2>1, <3>1, <3>2, <3>4, <3>5, MoveKeeps
  <2> QED BY <2>2, <2>3
<1>6. CASE PushPrice(s)
  <2>1. PICK g \in DOMAIN v.doc :
          LET fresh == Calculated(v.doc[g], v.seen.price)
              others == DOMAIN v.doc \ {g}
          IN /\ product' = [product EXCEPT ![g].cost = fresh.cost, ![g].base = fresh.base,
                                           ![g].byHand = FALSE]
             /\ IF others = {}
                  THEN Release(s)
                  ELSE /\ work' = [work EXCEPT ![s].doc = [h \in others |-> v.doc[h]]]
                       /\ UNCHANGED lock
    BY <1>6 DEF PushPrice
  <2> DEFINE fresh == Calculated(v.doc[g], v.seen.price)
             others == DOMAIN v.doc \ {g}
             doc == [h \in others |-> v.doc[h]]
  <2>2. /\ v.pc = "push" /\ UNCHANGED <<supply, provider, raw, cached, open, home, started, torn>>
    BY <1>6 DEF PushPrice, Reached
  <2>3. /\ DOMAIN v.doc \subseteq Products /\ g \in Products /\ product[g] # None
        /\ \A h \in DOMAIN v.doc : v.doc[h] \in ProductDocs /\ product[h] # None
        /\ v.seen \in Lists /\ v.seen.price \in Prices
    BY <1>1, <2>2 DEF SyncWork, Pushes
  <2>4. /\ product' \in [Products -> ProductDocs \cup {None}]
        /\ \A h \in Products : product[h] # None => product'[h] # None
        /\ ~torn => \A h \in Products : product'[h] # None => Fair(product'[h])
    <3>1. /\ fresh = Calculated(v.doc[g], v.seen.price)
          /\ product' = [product EXCEPT ![g].cost = fresh.cost, ![g].base = fresh.base,
                                        ![g].byHand = FALSE]
      BY <2>1
    <3> HIDE DEF fresh
    <3> QED BY <2>3, <3>1, WriteKeepsProducts
  <2>5. CASE others = {}
    BY <1>1, <2>1, <2>2, <2>4, <2>5, ReleaseKeeps
  <2>6. CASE others # {}
    <3>1. work' = [work EXCEPT ![s] = [v EXCEPT !.doc = doc]] /\ lock' = lock
      BY <2>1, <2>6
    <3>2. DOMAIN doc \subseteq Products
          /\ \A h \in DOMAIN doc : doc[h] \in ProductDocs /\ product[h] # None
      BY <2>3
    <3> HIDE DEF doc
    <3> DEFINE w == Working("sync", "push", v.ref, doc, v.seen)
    <3>3. work' = [work EXCEPT ![s] = w]
      BY <1>2, <2>2, <3>1
    <3>4. IsWork(w) /\ w.op = "sync" /\ w.pc = "push" /\ w.doc = doc /\ ~Asks(w) /\ FairWork(w)
      BY <2>3, <3>2, SyncMoves
    <3> HIDE DEF w
    <3>5. CatalogTypeOK'
      BY <2>2, <2>4, <3>1 DEF CInv, CatalogTypeOK
    <3>6. Exclusive'
      BY <1>1, <2>2, <3>1, <3>3, <3>4, ExclusiveStays
    <3> QED BY <2>2, <2>4, <3>2, <3>3, <3>4, <3>5, <3>6, StepKeeps
  <2> QED BY <2>5, <2>6
<1>7. ASSUME NEW heard \in BOOLEAN, NEW empty \in BOOLEAN, FetchCatalogue(s, heard, empty)
      PROVE  CInv'
  <2>1. UNCHANGED <<supply, provider, raw, product, cached, open, home, started, torn>>
    BY <1>7 DEF FetchCatalogue
  <2>2. CASE Release(s)
    BY <1>1, <2>1, <2>2, ReleaseKeeps
  <2>3. CASE ~Release(s)
    <3> DEFINE pc == IF supply.price = None THEN "deactivate" ELSE "upsert"
    <3>1. work' = [work EXCEPT ![s] = [v EXCEPT !.seen = supply, !.pc = pc]] /\ lock' = lock
      BY <1>7, <2>3 DEF FetchCatalogue
    <3>2. /\ pc \in {"deactivate", "upsert"}
          /\ pc = "upsert" => supply.price \in Prices
      BY <1>1 DEF Lists
    <3> HIDE DEF pc
    <3> DEFINE w == Working("sync", pc, v.ref, v.doc, supply)
    <3>3. work' = [work EXCEPT ![s] = w]
      BY <1>2, <3>1
    <3>4. IsWork(w) /\ w.op = "sync" /\ w.pc = pc /\ ~Asks(w) /\ FairWork(w)
      BY <1>1, <3>2, SyncMoves
    <3> HIDE DEF w
    <3> QED BY <1>1, <2>1, <3>1, <3>2, <3>3, <3>4, MoveKeeps
  <2> QED BY <2>2, <2>3
<1>8. ASSUME NEW fails \in BOOLEAN, Upsert(s, fails)
      PROVE  CInv'
  <2> DEFINE pc == IF fails THEN "deactivate" ELSE "find"
  <2>1. /\ UNCHANGED <<supply, provider, product, lock, cached, open, home, started, torn>>
        /\ work' = [work EXCEPT ![s] = [v EXCEPT !.pc = pc]]
        /\ raw' = IF fails THEN raw ELSE [price |-> v.seen.price, active |-> TRUE]
        /\ v.pc = "upsert"
    BY <1>8 DEF Upsert, KeepShop, Proceed, Reached
  <2>2. pc \in {"deactivate", "find"} /\ v.seen \in Lists /\ v.seen.price \in Prices
    BY <1>1, <2>1 DEF SyncWork
  <2>3. raw' \in RawDocs \cup {None}
    BY <1>1, <2>1, <2>2 DEF RawDocs
  <2> HIDE DEF pc
  <2> DEFINE w == Working("sync", pc, v.ref, v.doc, v.seen)
  <2>4. work' = [work EXCEPT ![s] = w]
    BY <1>2, <2>1
  <2>5. IsWork(w) /\ w.op = "sync" /\ w.pc = pc /\ ~Asks(w) /\ FairWork(w)
    BY <2>2, SyncMoves
  <2> HIDE DEF w
  <2> QED BY <1>1, <2>1, <2>2, <2>3, <2>4, <2>5, MoveKeeps
<1> QED BY <1>3, <1>4, <1>5, <1>6, <1>7, <1>8

-----------------------------------------------------------------------------
(* Administration *)

LEMMA AdminStartKeeps ==
  ASSUME CInv, NEW s \in Staff,
         NEW w, w.op \in {"publish", "update", "toggle", "delete"}, AdminWork(w),
         w = Working(w.op, w.pc, w.ref, w.doc, w.seen),
         Starts(s, w), KeepShop, UNCHANGED <<provider, raw, product>>,
         w.op = "update" => product[w.ref] # None, ~torn => FairWork(w)
  PROVE  CInv'
<1>1. IsWork(w) /\ ~Asks(w) /\ w.op # "sync"
  BY DEF IsWork, AdminWork, Asks
<1> QED BY <1>1, StartKeeps

LEMMA PublishKeeps ==
  ASSUME CInv, NEW s \in Staff, NEW mode \in Modes, NEW markup \in Markups, NEW base \in Prices,
         StartPublication(s, mode, markup, base) \/ StartProduct(s, mode, markup, base)
  PROVE  CInv'
<1>1. PICK pc \in {"unique", "insert"} :
        Starts(s, Working("publish", pc, None, Draft(mode, markup, base), None))
  BY DEF StartPublication, StartProduct
<1> DEFINE doc == Draft(mode, markup, base)
           w == Working("publish", pc, None, doc, None)
<1>2. KeepShop /\ UNCHANGED <<provider, raw, product>> /\ Starts(s, w)
  BY <1>1 DEF StartPublication, StartProduct
<1>3. doc \in ProductDocs /\ Fair(doc)
  BY DraftIsFair DEF CInv, CatalogTypeOK
<1> HIDE DEF doc
<1>4. w.op = "publish" /\ w.pc = pc /\ w.doc = doc /\ w = Working(w.op, w.pc, w.ref, w.doc, w.seen)
  BY DEF Working
<1> HIDE DEF w
<1>5. AdminWork(w) /\ FairWork(w)
  BY <1>3, <1>4 DEF AdminWork, FairWork
<1> QED BY <1>2, <1>4, <1>5, AdminStartKeeps

LEMMA StartUpdateKeeps ==
  ASSUME CInv, NEW s \in Staff, NEW g \in Products, product[g] # None,
         NEW next \in Updates(product[g]), StartUpdate(s, g, next)
  PROVE  CInv'
<1> DEFINE doc == product[g]
           w == Working("update", "save", g, doc, next)
<1>1. KeepShop /\ UNCHANGED <<provider, raw, product>> /\ Starts(s, w)
  BY DEF StartUpdate
<1>2. doc \in ProductDocs /\ (~torn => Fair(doc)) /\ raw \in RawDocs \cup {None}
  BY DEF CInv, CatalogTypeOK, Priced
<1>3. next \in ProductDocs /\ (Fair(doc) => Fair(next))
  BY <1>2, UpdateIsFair
<1> HIDE DEF doc
<1>4. /\ w.op = "update" /\ w.pc = "save" /\ w.ref = g /\ w.doc = doc /\ w.seen = next
      /\ w = Working(w.op, w.pc, w.ref, w.doc, w.seen)
  BY DEF Working
<1> HIDE DEF w
<1>5. AdminWork(w) /\ (~torn => FairWork(w))
  BY <1>2, <1>3, <1>4 DEF AdminWork, FairWork
<1> QED BY <1>1, <1>4, <1>5, AdminStartKeeps

LEMMA ProviderStartKeeps ==
  ASSUME CInv, NEW s \in Staff, StartToggle(s) \/ StartDeletion(s)
  PROVE  CInv'
<1>1. PICK w \in {Working("toggle", "save", None, b, None) : b \in BOOLEAN}
                 \cup {Working("delete", "detach", None, None, None)} :
        Starts(s, w) /\ KeepShop /\ UNCHANGED <<provider, raw, product>>
  <2>1. CASE StartDeletion(s)
    BY <2>1 DEF StartDeletion
  <2>2. CASE StartToggle(s)
    <3> DEFINE b == ~provider.active
    <3>1. Starts(s, Working("toggle", "save", None, b, None)) /\ KeepShop
          /\ UNCHANGED <<provider, raw, product>>
      BY <2>2 DEF StartToggle
    <3>2. b \in BOOLEAN
      OBVIOUS
    <3> HIDE DEF b
    <3> QED BY <3>1, <3>2
  <2> QED BY <2>1, <2>2
<1>2. /\ \/ w.op = "toggle" /\ w.pc = "save" /\ w.doc \in BOOLEAN
         \/ w.op = "delete" /\ w.pc = "detach"
      /\ w = Working(w.op, w.pc, w.ref, w.doc, w.seen)
  BY <1>1 DEF Working
<1>3. AdminWork(w) /\ FairWork(w)
  BY <1>2 DEF AdminWork, FairWork
<1> QED BY <1>1, <1>2, <1>3, AdminStartKeeps

LEMMA InsertKeeps ==
  ASSUME CInv, NEW s \in Staff,
         CheckUnpublished(s) \/ \E g \in Products : InsertProduct(s, g)
  PROVE  CInv'
<1> DEFINE v == work[s]
<1>1. /\ v.op = "publish" /\ IsWork(v) /\ v.pc \in {"unique", "insert"} /\ v.doc \in ProductDocs
      /\ ~torn => FairWork(v)
      /\ product \in [Products -> ProductDocs \cup {None}]
      /\ provider \in ProviderDocs /\ (provider.active => provider.there) /\ torn \in BOOLEAN
      /\ raw \in RawDocs \cup {None}
      /\ ~torn => \A h \in Products : product[h] # None => Fair(product[h])
  <2>1. v.op = "publish"
    BY DEF CheckUnpublished, InsertProduct, Reached
  <2> QED BY <2>1, WorkOf DEF CInv, CatalogTypeOK, Priced, AdminWork
<1>2. CASE CheckUnpublished(s)
  <2>1. UNCHANGED <<supply, provider, raw, product, lock, cached, open, home, started, torn>>
    BY <1>2 DEF CheckUnpublished, KeepShop
  <2>2. CASE Ends(s)
    BY <1>1, <2>1, <2>2, EndKeeps
  <2>3. CASE ~Ends(s)
    <3> DEFINE w == [v EXCEPT !.pc = "insert"]
    <3>1. work' = [work EXCEPT ![s] = w]
      BY <1>2, <2>3 DEF CheckUnpublished, Proceed
    <3>2. w = [v EXCEPT !.pc = "insert"]
      OBVIOUS
    <3> HIDE DEF w
    <3>3. /\ w.op = "publish" /\ w.pc = "insert" /\ w.doc = v.doc
          /\ w = Working(w.op, w.pc, w.ref, w.doc, w.seen)
      BY <1>1, <3>2 DEF IsWork, Working
    <3>4. IsWork(w) /\ ~Asks(w) /\ (~torn => FairWork(w))
      BY <1>1, <3>3 DEF IsWork, AdminWork, FairWork, Asks
    <3> QED BY <1>1, <2>1, <3>1, <3>3, <3>4, MoveKeeps
  <2> QED BY <2>2, <2>3
<1>3. ASSUME NEW g \in Products, InsertProduct(s, g) PROVE CInv'
  <2>1. /\ product' = [product EXCEPT ![g] = v.doc] /\ Ends(s)
        /\ UNCHANGED <<supply, provider, raw, lock, cached, open, home, started, torn>>
    BY <1>3 DEF InsertProduct, KeepShop
  <2>2. v.doc # None
    BY <1>1, NoneAssumption
  <2>3. ~torn => Fair(v.doc)
    BY <1>1 DEF FairWork
  <2> QED BY <1>1, <2>1, <2>2, <2>3, EndKeeps
<1> QED BY <1>2, <1>3

\* What is saved of an update: next, where it differs from read, over doc.
LEMMA MergedIsFair ==
  ASSUME NEW read \in ProductDocs, NEW next \in ProductDocs, NEW doc \in ProductDocs
  PROVE  LET new == [f \in DOMAIN read |-> IF next[f] # read[f] THEN next[f] ELSE doc[f]]
         IN  /\ new \in ProductDocs
             /\ [read EXCEPT !.active = TRUE] = [doc EXCEPT !.active = TRUE] /\ Fair(next)
                  => Fair(new)
<1> DEFINE new == [f \in DOMAIN read |-> IF next[f] # read[f] THEN next[f] ELSE doc[f]]
<1>1. DOMAIN read = {"base", "cost", "mode", "markup", "linked", "active", "byHand"}
  BY DEF ProductDocs
<1>2. /\ new = [base |-> new.base, cost |-> new.cost, mode |-> new.mode, markup |-> new.markup,
                linked |-> new.linked, active |-> new.active, byHand |-> new.byHand]
      /\ new.base = (IF next.base # read.base THEN next.base ELSE doc.base)
      /\ new.cost = (IF next.cost # read.cost THEN next.cost ELSE doc.cost)
      /\ new.mode = (IF next.mode # read.mode THEN next.mode ELSE doc.mode)
      /\ new.markup = (IF next.markup # read.markup THEN next.markup ELSE doc.markup)
      /\ new.linked = (IF next.linked # read.linked THEN next.linked ELSE doc.linked)
      /\ new.active = (IF next.active # read.active THEN next.active ELSE doc.active)
      /\ new.byHand = (IF next.byHand # read.byHand THEN next.byHand ELSE doc.byHand)
  BY <1>1
<1> HIDE DEF new
<1>3. new \in ProductDocs
  BY <1>2 DEF ProductDocs
<1>4. ASSUME [read EXCEPT !.active = TRUE] = [doc EXCEPT !.active = TRUE], Fair(next)
      PROVE  Fair(new)
  <2> DEFINE a == [read EXCEPT !.active = TRUE]
             b == [doc EXCEPT !.active = TRUE]
  <2>1. /\ a.base = read.base /\ a.cost = read.cost /\ a.linked = read.linked
        /\ a.byHand = read.byHand
        /\ b.base = doc.base /\ b.cost = doc.cost /\ b.linked = doc.linked
        /\ b.byHand = doc.byHand
    BY DEF ProductDocs
  <2>2. /\ read.base = doc.base /\ read.cost = doc.cost /\ read.linked = doc.linked
        /\ read.byHand = doc.byHand
    BY <1>4, <2>1
  <2> QED BY <1>2, <1>4, <2>2 DEF Fair
<1> QED BY <1>3, <1>4 DEF new

LEMMA SaveProductKeeps ==
  ASSUME CInv, NEW s \in Staff, SaveProduct(s)
  PROVE  CInv'
<1> DEFINE v == work[s]
           g == v.ref
           read == v.doc
           next == v.seen
           doc == product[g]
           new == [f \in DOMAIN read |-> IF next[f] # read[f] THEN next[f] ELSE doc[f]]
           same == [read EXCEPT !.active = TRUE] = [doc EXCEPT !.active = TRUE]
<1>1. /\ v.op = "update" /\ g \in Products /\ read \in ProductDocs /\ next \in ProductDocs
      /\ product[g] # None /\ (~torn => FairWork(v))
      /\ product \in [Products -> ProductDocs \cup {None}] /\ torn \in BOOLEAN
      /\ provider \in ProviderDocs /\ (provider.active => provider.there)
      /\ ~torn => \A h \in Products : product[h] # None => Fair(product[h])
  <2>1. v.op = "update"
    BY DEF SaveProduct, Reached
  <2> QED BY <2>1, WorkOf DEF CInv, CatalogTypeOK, Priced, AdminWork, Refers
<1>2. /\ product' = [product EXCEPT ![g] = new] /\ torn' = (torn \/ ~same)
      /\ Ends(s) /\ UNCHANGED <<supply, provider, raw, lock, cached, open, home, started>>
  BY DEF SaveProduct
<1>3. doc \in ProductDocs /\ (~torn => Fair(next))
  BY <1>1 DEF FairWork
<1>4. new \in ProductDocs /\ (same /\ Fair(next) => Fair(new))
  <2> HIDE DEF read, next, doc
  <2> QED BY <1>1, <1>3, MergedIsFair
<1> HIDE DEF new, same
<1>5. new # None
  BY <1>4, NoneAssumption
<1>6. ~torn' => ~torn /\ Fair(new)
  BY <1>2, <1>3, <1>4
<1>7. torn' \in BOOLEAN
  BY <1>1, <1>2 DEF same
<1>8. /\ product' \in [Products -> ProductDocs \cup {None}]
      /\ \A h \in Products : product'[h] = IF h = g THEN new ELSE product[h]
  BY <1>1, <1>2, <1>4
<1> HIDE DEF g, read, next, doc
<1>9. ~torn' => ~torn /\ \A h \in Products : product'[h] # None => Fair(product'[h])
  BY <1>1, <1>6, <1>8
<1>10. \A h \in Products : product[h] # None => product'[h] # None
  BY <1>5, <1>8
<1> QED BY <1>1, <1>2, <1>7, <1>8, <1>9, <1>10, EndKeeps

LEMMA ProviderStepKeeps ==
  ASSUME CInv, NEW s \in Staff, SaveProvider(s) \/ DetachProducts(s) \/ RemoveProvider(s)
  PROVE  CInv'
<1> DEFINE v == work[s]
<1>1. /\ v.op \in {"toggle", "delete"} /\ IsWork(v) /\ AdminWork(v)
      /\ product \in [Products -> ProductDocs \cup {None}] /\ torn \in BOOLEAN
      /\ provider \in ProviderDocs /\ (provider.active => provider.there)
      /\ ~torn => \A h \in Products : product[h] # None => Fair(product[h])
  <2>1. v.op \in {"toggle", "delete"}
    BY DEF SaveProvider, DetachProducts, RemoveProvider, Reached
  <2> QED BY <2>1, WorkOf DEF CInv, CatalogTypeOK, Priced
<1>2. CASE SaveProvider(s) \/ RemoveProvider(s)
  <2>1. provider' \in ProviderDocs /\ (provider'.active => provider'.there)
    <3>1. v.op = "toggle" => v.doc \in BOOLEAN
      BY <1>1 DEF AdminWork
    <3>2. CASE RemoveProvider(s)
      BY <3>2 DEF RemoveProvider, ProviderDocs
    <3>3. CASE SaveProvider(s)
      <4> DEFINE b == v.doc /\ provider.there
      <4>1. provider' = [provider EXCEPT !.active = b] /\ v.op = "toggle"
        BY <3>3 DEF SaveProvider, Reached
      <4>2. b \in BOOLEAN /\ (b => provider.there)
        OBVIOUS
      <4> HIDE DEF b
      <4> QED BY <1>1, <4>1, <4>2 DEF ProviderDocs
    <3> QED BY <1>2, <3>2, <3>3
  <2>2. Ends(s) /\ UNCHANGED <<supply, raw, product, lock, cached, open, home, started, torn>>
    BY <1>2 DEF SaveProvider, RemoveProvider, KeepShop
  <2> QED BY <1>1, <2>1, <2>2, EndKeeps
<1>3. CASE DetachProducts(s)
  <2> DEFINE w == [v EXCEPT !.pc = "remove"]
  <2>1. /\ work' = [work EXCEPT ![s] = w] /\ v.op = "delete"
        /\ UNCHANGED <<supply, provider, raw, lock, cached, open, home, started, torn>>
        /\ product' = [g \in Products |-> IF product[g] # None /\ product[g].linked
                                            THEN Detached(product[g]) ELSE product[g]]
    BY <1>3 DEF DetachProducts, Proceed, KeepShop, Reached
  <2>2. w = [v EXCEPT !.pc = "remove"]
    OBVIOUS
  <2> HIDE DEF w
  <2>3. w.op = "delete" /\ w.pc = "remove" /\ w = Working(w.op, w.pc, w.ref, w.doc, w.seen)
    BY <1>1, <2>1, <2>2 DEF IsWork, Working
  <2>4. IsWork(w) /\ ~Asks(w) /\ FairWork(w)
    BY <2>3 DEF IsWork, AdminWork, FairWork, Asks
  <2>5. ASSUME NEW doc \in ProductDocs PROVE Detached(doc) \in ProductDocs /\ Fair(Detached(doc))
    <3> DEFINE d == Detached(doc)
    <3>1. d = [doc EXCEPT !.linked = FALSE, !.mode = "manual", !.cost = None]
      BY DEF Detached
    <3> HIDE DEF d
    <3>2. d \in ProductDocs /\ ~d.linked
      BY <3>1 DEF ProductDocs, Modes
    <3> QED BY <3>2 DEF Fair, d
  <2>6. /\ product' \in [Products -> ProductDocs \cup {None}]
        /\ \A h \in Products : product[h] # None => product'[h] # None
        /\ ~torn => \A h \in Products : product'[h] # None => Fair(product'[h])
    BY <1>1, <2>1, <2>5, NoneAssumption
  <2>7. CatalogTypeOK'
    BY <2>1, <2>6 DEF CInv, CatalogTypeOK
  <2>8. Exclusive'
    BY <1>1, <2>1, <2>3, <2>4, ExclusiveStays
  <2> QED BY <2>1, <2>3, <2>4, <2>6, <2>7, <2>8, StepKeeps
<1> QED BY <1>2, <1>3

-----------------------------------------------------------------------------
(* Every step, and the theorems *)

LEMMA PriceListKeeps ==
  ASSUME CInv, NEW price \in Prices \cup {None}, PriceListChanges(price)
  PROVE  CInv'
<1>1. /\ supply' = [price |-> price, edition |-> supply.edition + 1] /\ supply.edition < MaxEditions
      /\ UNCHANGED <<provider, raw, product, lock, cached, open, home, work, started, torn>>
  BY DEF PriceListChanges
<1>2. supply' \in Lists
  BY <1>1, CatalogBounds DEF CInv, CatalogTypeOK, Lists
<1>3. CatalogTypeOK'
  BY <1>1, <1>2 DEF CInv, CatalogTypeOK
<1>4. Exclusive'
  BY <1>1 DEF CInv, Exclusive
<1>5. \A t \in Staff : work'[t] = work[t]
  BY <1>1
<1>6. work' = [t \in Staff |-> work'[t]]
  BY <1>1 DEF CInv
<1> QED BY <1>1, <1>3, <1>4, <1>5, <1>6, ManyKeep

LEMMA CatalogInitKeeps == CatalogInit => CInv
<1> SUFFICES ASSUME CatalogInit PROVE CInv
  OBVIOUS
<1>1. /\ supply \in Lists /\ supply.price \in Prices
      /\ provider \in ProviderDocs /\ provider.there
      /\ raw = None \/ raw = [price |-> supply.price, active |-> TRUE]
      /\ lock = [p \in Processes |-> FALSE] /\ cached = [p \in Processes |-> None]
      /\ open = Processes /\ home \in [Staff -> Processes]
      /\ work = [s \in Staff |-> Resting] /\ started = 0 /\ torn = FALSE
  BY CatalogBounds DEF CatalogInit, Lists
<1>2. raw \in RawDocs \cup {None}
  <2>1. CASE raw = [price |-> supply.price, active |-> TRUE]
    <3> DEFINE p == supply.price
    <3>1. p \in Prices /\ raw = [price |-> p, active |-> TRUE]
      BY <1>1, <2>1
    <3> HIDE DEF p
    <3> QED BY <3>1 DEF RawDocs
  <2> QED BY <1>1, <2>1
<1>3. ASSUME NEW m \in Markups, raw # None
      PROVE  LET doc == [base |-> Final(raw.price, m), cost |-> raw.price, mode |-> "sync",
                         markup |-> m, linked |-> TRUE, active |-> TRUE, byHand |-> FALSE]
             IN doc \in ProductDocs /\ Fair(doc)
  <2>1. raw.price \in Prices
    BY <1>2, <1>3 DEF RawDocs
  <2>2. Final(raw.price, m) \in Nat /\ Final(raw.price, m) >= raw.price
    BY <2>1, FinalIsAbove
  <2> QED BY <2>1, <2>2, NoneAssumption DEF ProductDocs, Modes, Fair
<1>4. /\ product \in [Products -> ProductDocs \cup {None}]
      /\ \A g \in Products : product[g] # None => Fair(product[g])
  <2>1. PICK m \in Markups :
          product \in [Products -> {None} \cup
            IF raw = None THEN {}
            ELSE {[base |-> Final(raw.price, m), cost |-> raw.price, mode |-> "sync", markup |-> m,
                   linked |-> TRUE, active |-> TRUE, byHand |-> FALSE]}]
    BY DEF CatalogInit
  <2> DEFINE doc == [base |-> Final(raw.price, m), cost |-> raw.price, mode |-> "sync",
                     markup |-> m, linked |-> TRUE, active |-> TRUE, byHand |-> FALSE]
  <2>2. raw # None => doc \in ProductDocs /\ Fair(doc)
    BY <1>3
  <2>3. product \in [Products -> {None} \cup IF raw = None THEN {} ELSE {doc}]
    BY <2>1
  <2> HIDE DEF doc
  <2> QED BY <2>2, <2>3
<1>5. CatalogTypeOK
  <2>1. lock \in [Processes -> BOOLEAN] /\ cached \in [Processes -> Lists \cup {None}]
    BY <1>1
  <2>2. provider.active => provider.there
    BY <1>1
  <2>3. DOMAIN work = Staff /\ open \subseteq Processes /\ torn \in BOOLEAN
    BY <1>1
  <2>4. started \in 0..MaxJobs
    BY <1>1, CatalogBounds
  <2> QED BY <1>1, <1>2, <1>4, <2>1, <2>2, <2>3, <2>4 DEF CatalogTypeOK
<1>6. \A s \in Staff : work[s] = Resting
  BY <1>1
<1>7. Exclusive
  BY <1>1, <1>6, RestingIsWork DEF Exclusive
<1>8. Priced
  BY <1>4, <1>6, RestingIsWork DEF Priced
<1> QED BY <1>1, <1>5, <1>6, <1>7, <1>8, RestingIsWork DEF CInv, Refers, Pushes

LEMMA CatalogNextKeeps == CInv /\ [CatalogNext]_catalogVars => CInv'
<1> SUFFICES ASSUME CInv, [CatalogNext]_catalogVars PROVE CInv'
  OBVIOUS
<1>1. CASE UNCHANGED catalogVars
  BY <1>1 DEF catalogVars, CInv, CatalogTypeOK, Exclusive, Priced, Refers, Pushes
<1>2. ASSUME NEW s \in Staff, OrderStep(s) PROVE CInv'
  BY <1>2, StartOrderKeeps, SupplierAnswersKeeps, CheckPriceKeeps, FetchArrivesKeeps,
     FetchFailsKeeps, RaisePriceKeeps, SellKeeps DEF OrderStep
<1>3. ASSUME NEW s \in Staff, SyncStep(s) PROVE CInv'
  BY <1>3, StartSyncKeeps, SyncStepKeeps DEF SyncStep
<1>4. ASSUME NEW s \in Staff, AdminStep(s) PROVE CInv'
  BY <1>4, PublishKeeps, InsertKeeps, StartUpdateKeeps, SaveProductKeeps, ProviderStartKeeps,
     ProviderStepKeeps DEF AdminStep
<1> QED BY <1>1, <1>2, <1>3, <1>4, TTLPassesKeeps, RestartKeeps, PriceListKeeps DEF CatalogNext

LEMMA CatalogInvariant == CatalogSpec => []CInv
BY CatalogInitKeeps, CatalogNextKeeps, PTL DEF CatalogSpec

\* Whatever orders, syncs, administrators and restarts overlap, every document
\* keeps its shape, and no inactive provider is missing one.
THEOREM CatalogTypesHold == CatalogSpec => []CatalogTypeOK
<1>1. CInv => CatalogTypeOK
  BY DEF CInv
<1> QED BY <1>1, CatalogInvariant, PTL

\* A process holds its sync lock exactly while one sync of it is at work
\* (syncProviderProducts and its finally block).
THEOREM LocksAreSyncs == CatalogSpec => []LockIsASync
<1>1. CInv => LockIsASync
  <2> SUFFICES ASSUME CInv, NEW p \in Processes
               PROVE  Cardinality({s \in Staff : home[s] = p /\ work[s].op = "sync"})
                        = IF lock[p] THEN 1 ELSE 0
    BY DEF LockIsASync
  <2> DEFINE Syncs == {s \in Staff : home[s] = p /\ work[s].op = "sync"}
  <2>1. lock[p] <=> Syncs # {}
    BY DEF CInv, Exclusive
  <2>2. \A s, t \in Syncs : s = t
    BY DEF CInv, Exclusive
  <2> HIDE DEF Syncs
  <2>3. CASE lock[p]
    <3>1. PICK s : Syncs = {s}
      BY <2>1, <2>2, <2>3
    <3> QED BY <2>3, <3>1, FS_Singleton DEF Syncs
  <2>4. CASE ~lock[p]
    BY <2>1, <2>4, FS_EmptySet DEF Syncs
  <2> QED BY <2>3, <2>4
<1> QED BY <1>1, CatalogInvariant, PTL

\* Fetches of one process never overtake each other, so that its cache never goes
\* back to an older price list (providerPriceCache, _pending).
THEOREM CachesGoForward == CatalogSpec => CacheNeverGoesBack
<1> DEFINE Forward(p) == cached[p] # None /\ cached'[p] # None
                           => cached'[p].edition >= cached[p].edition
<1>1. ASSUME CInv, [CatalogNext]_catalogVars, NEW p \in Processes
      PROVE  Forward(p)
  <2>1. cached \in [Processes -> Lists \cup {None}] /\ home \in [Staff -> Processes]
    BY <1>1 DEF CInv, CatalogTypeOK
  <2>2. cached'[p] = cached[p] => Forward(p)
    BY <2>1, CatalogBounds DEF Lists
  <2>3. cached'[p] = None \/ cached[p] = None => Forward(p)
    OBVIOUS
  <2> HIDE DEF Forward
  <2>4. ASSUME NEW s \in Staff, CheckPrice(s) PROVE Forward(p)
    BY <2>1, <2>2, <2>3, <2>4 DEF CheckPrice
  <2>5. ASSUME NEW s \in Staff, FetchArrives(s) PROVE Forward(p)
    <3>1. Asks(work[s])
      BY <2>5 DEF FetchArrives, Reached, Asks
    <3>2. cached[home[s]] = None
      BY <1>1, <3>1 DEF CInv, Exclusive
    <3>3. p # home[s] => cached'[p] = cached[p]
      BY <2>1, <2>5 DEF FetchArrives
    <3> QED BY <2>2, <2>3, <3>2, <3>3
  <2>6. ASSUME NEW q \in Processes, TTLPasses(q) \/ Restart(q) PROVE Forward(p)
    BY <2>1, <2>2, <2>3, <2>6 DEF TTLPasses, Restart
  <2>7. CASE UNCHANGED cached
    BY <2>2, <2>7
  <2>8. ASSUME NEW s \in Staff, OrderStep(s) PROVE Forward(p)
    BY <2>4, <2>5, <2>7, <2>8
       DEF OrderStep, StartOrder, SupplierAnswers, FetchFails, RaisePrice, Sell, KeepShop
  <2>9. ASSUME NEW s \in Staff, SyncStep(s) PROVE Forward(p)
    BY <2>7, <2>9 DEF SyncStep, StartSync, Upsert, FetchCatalogue, ValidateProvider, Deactivate,
                      FindSynced, PushPrice, KeepShop
  <2>10. ASSUME NEW s \in Staff, AdminStep(s) PROVE Forward(p)
    BY <2>7, <2>10 DEF AdminStep, StartPublication, StartProduct, CheckUnpublished, InsertProduct,
                       StartUpdate, SaveProduct, StartToggle, SaveProvider, StartDeletion,
                       DetachProducts, RemoveProvider, KeepShop
  <2>11. ASSUME NEW price, PriceListChanges(price) PROVE Forward(p)
    BY <2>7, <2>11 DEF PriceListChanges
  <2>12. CASE UNCHANGED catalogVars
    BY <2>7, <2>12 DEF catalogVars
  <2> QED BY <1>1, <2>6, <2>8, <2>9, <2>10, <2>11, <2>12 DEF CatalogNext
<1>2. CInv /\ [CatalogNext]_catalogVars => [\A p \in Processes : Forward(p)]_catalogVars
  BY <1>1
<1> QED BY <1>2, CatalogInvariant, PTL DEF CatalogSpec, CacheNeverGoesBack

\* An order that knows the supplier's price sells at least at that price, unless
\* an administrator named the product's own or an update was saved over a newer one
\* (verifyLivePrice, pricing.service.js).
THEOREM SalesCoverCost == CatalogSpec => SoldAboveCost
<1> DEFINE Covered(s) ==
      /\ Reached(s, "order", "sell") /\ work'[s] = Resting
      /\ work[s].seen # None /\ work[s].seen.price # None
      /\ ~work[s].doc.byHand /\ ~torn
      => work[s].doc.base >= work[s].seen.price
<1>1. ASSUME CInv, NEW s \in Staff PROVE Covered(s)
  <2> SUFFICES ASSUME Reached(s, "order", "sell"), work[s].seen # None, ~torn,
                      work[s].seen.price # None, ~work[s].doc.byHand
               PROVE  work[s].doc.base >= work[s].seen.price
    OBVIOUS
  <2> DEFINE doc == work[s].doc
             list == work[s].seen
  <2>1. OrderWork(work[s]) /\ FairWork(work[s]) /\ work[s].pc = "sell" /\ work[s].op = "order"
    BY <1>1, WorkOf DEF Reached
  <2>2. /\ doc \in ProductDocs /\ doc.linked /\ list \in Lists /\ ~Risen(doc, list) /\ Fair(doc)
    BY <2>1 DEF OrderWork, FairWork
  <2> HIDE DEF doc, list
  <2>3. doc.cost # None /\ doc.base >= doc.cost
    BY <2>2 DEF Fair, doc
  <2>4. ~(list.price > doc.cost)
    BY <2>2, <2>3 DEF Risen, list
  <2>5. doc.base \in Nat /\ doc.cost \in Nat /\ list.price \in Nat
    BY <2>2, <2>3, PricesAssumption DEF ProductDocs, Lists, list
  <2>6. doc.base >= list.price
    BY ONLY <2>3, <2>4, <2>5
  <2> QED BY <2>6 DEF doc, list
<1>2. CInv => [\A s \in Staff : Covered(s)]_catalogVars
  BY <1>1
<1> QED BY <1>2, CatalogInvariant, PTL DEF CatalogSpec, SoldAboveCost
=============================================================================
