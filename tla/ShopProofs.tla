----------------------------- MODULE ShopProofs ------------------------------
(***************************************************************************)
(* Proofs about the notifier and the order form, and about the composition *)
(* of the two with the catalogue, the accounts and the adapters.           *)
(***************************************************************************)
EXTENDS MCShop, CatalogProofs, AccountsProofs, SuppliersProofs, FiniteSetTheorems, WellFoundedInduction, TLAPS

(***************************************************************************)
(* The notifier never leaves a lost client in place.  The inductive        *)
(* invariant says more than LostIsReplaced: what replaces a lost client is *)
(* the timer, or a reset that is logging it out, for every other operation *)
(* that stops the reconnection has put the client aside in the same step.  *)
(***************************************************************************)

\* A reset that waits for the logout; it destroys the client afterwards.
LoggingOut(tasks) == \E o \in Operators : tasks[o].pc = "logout"

\* Between two steps a client that is lost without a timer, or in place while
\* reconnection is off, is being logged out.
InHand(n, lives, tasks) ==
  n.client # 0 /\ (~n.should \/ (lives[n.client] = "lost" /\ ~n.timer)) => LoggingOut(tasks)

\* Notifiers whose clients are among those that were begun.
NotifiersOf(lives) ==
  [client: 0..Len(lives), pending: 0..Len(lives),
   timer: BOOLEAN, should: BOOLEAN, ready: BOOLEAN, initing: BOOLEAN]

NInv ==
  /\ notifier \in NotifiersOf(life)
  /\ life \in Seq(Lives) /\ Len(life) \in 1..MaxClients
  /\ DOMAIN task = Operators
  /\ InHand(notifier, life, task)

-----------------------------------------------------------------------------
(* Sequences of lives, and tasks of others *)

LEMMA OneLifeMore ==
  ASSUME NEW lives \in Seq(Lives)
  PROVE  LET more == Append(lives, "starting")
         IN /\ more \in Seq(Lives) /\ Len(more) = Len(lives) + 1
            /\ more[Len(lives) + 1] = "starting"
BY DEF Lives

LEMMA OneLifeChanged ==
  ASSUME NEW lives \in Seq(Lives), NEW c, NEW x \in Lives
  PROVE  LET other == [lives EXCEPT ![c] = x]
         IN /\ other \in Seq(Lives) /\ Len(other) = Len(lives)
            /\ \A d \in 1..Len(lives) : d # c => other[d] = lives[d]
            /\ c \in 1..Len(lives) => other[c] = x
<1> DEFINE other == [lives EXCEPT ![c] = x]
<1>1. lives \in [1..Len(lives) -> Lives] /\ DOMAIN lives = 1..Len(lives)
  OBVIOUS
<1>2. /\ other \in [1..Len(lives) -> Lives] /\ DOMAIN other = 1..Len(lives)
      /\ \A d \in 1..Len(lives) : other[d] = IF d = c THEN x ELSE lives[d]
  BY <1>1
<1> HIDE DEF other
<1>3. Len(lives) \in Nat
  OBVIOUS
<1>4. other \in Seq(Lives) /\ Len(other) = Len(lives)
  BY <1>2, <1>3
<1> QED BY <1>2, <1>4 DEF other

\* A logout that is under way is not touched by the operations of others.
LEMMA LogoutGoesOn ==
  ASSUME DOMAIN task = Operators, NEW o \in Operators, task[o].pc # "logout", NEW w,
         task' = [task EXCEPT ![o] = w]
  PROVE  DOMAIN task' = Operators /\ (LoggingOut(task) => LoggingOut(task'))
BY DEF LoggingOut

-----------------------------------------------------------------------------
(* The operators the operations are built from *)

LEMMA QuietIsNotifier ==
  ASSUME NEW lives \in Seq(Lives), NEW n \in NotifiersOf(lives)
  PROVE  /\ Quiet(n) \in NotifiersOf(lives) /\ Suspended(n) \in NotifiersOf(lives)
         /\ Schedules(n) \in NotifiersOf(lives)
         /\ Quiet(n).client = n.client /\ Quiet(n).timer = n.timer
         /\ Quiet(n).should = n.should /\ Quiet(n).pending = n.pending
         /\ Suspended(n).client = n.client /\ ~Suspended(n).should
         /\ Schedules(n).client = n.client /\ Schedules(n).should = n.should
         /\ Schedules(n).timer = (n.timer \/ n.should)
<1>1. Len(lives) \in Nat
  OBVIOUS
<1> QED BY <1>1 DEF NotifiersOf, Quiet, Suspended, Schedules

LEMMA SwitchedOn ==
  ASSUME NEW lives \in Seq(Lives), NEW n \in NotifiersOf(lives)
  PROVE  LET on == [n EXCEPT !.should = TRUE]
         IN /\ on \in NotifiersOf(lives) /\ on.should
            /\ on.client = n.client /\ on.timer = n.timer /\ on.pending = n.pending
BY DEF NotifiersOf

LEMMA PutAside ==
  ASSUME NEW lives \in Seq(Lives), NEW n \in NotifiersOf(lives)
  PROVE  LET aside == [n EXCEPT !.client = 0]
         IN aside \in NotifiersOf(lives) /\ aside.client = 0
<1>1. 0 \in 0..Len(lives)
  OBVIOUS
<1> QED BY <1>1 DEF NotifiersOf

\* initializeWhatsAppClient: the client in place is a new one, or the one that
\* was in place, with reconnection on.
LEMMA InitialiseKeeps ==
  ASSUME NEW lives \in Seq(Lives), Len(lives) \in 1..MaxClients,
         NEW n \in NotifiersOf(lives), n.should,
         n.client # 0 /\ lives[n.client] = "lost" /\ ~n.timer => LoggingOut(task'),
         Initialise(n, lives)
  PROVE  /\ notifier' \in NotifiersOf(life') /\ life' \in Seq(Lives)
         /\ Len(life') \in 1..MaxClients /\ InHand(notifier', life', task')
<1>1. CASE Busy(n)
  <2>1. notifier' = n /\ life' = lives
    BY <1>1 DEF Initialise
  <2> QED BY <2>1 DEF InHand
<1>2. CASE ~Busy(n)
  <2> DEFINE c == Len(lives) + 1
             more == Append(lives, "starting")
  <2>1. /\ c <= MaxClients /\ life' = more
        /\ notifier' = [n EXCEPT !.client = c, !.pending = c, !.should = TRUE,
                                 !.initing = TRUE, !.ready = FALSE]
    BY <1>2 DEF Initialise
  <2>2. more \in Seq(Lives) /\ Len(more) = c /\ more[c] = "starting"
    BY OneLifeMore
  <2>3. c \in 1..MaxClients /\ c \in 0..Len(more) /\ c # 0
    BY <2>1, <2>2, ClientsAssumption
  <2> HIDE DEF c, more
  <2>4. /\ notifier' \in NotifiersOf(more) /\ notifier'.client = c /\ notifier'.should
    BY <2>1, <2>3 DEF NotifiersOf
  <2> QED BY <2>1, <2>2, <2>3, <2>4 DEF InHand
<1> QED BY <1>1, <1>2

\* What follows a destroy().
LEMMA ProceedsKeeps ==
  ASSUME NEW o \in Operators, NEW op, DOMAIN task = Operators,
         NEW lives \in Seq(Lives), Len(lives) \in 1..MaxClients, NEW n \in NotifiersOf(lives),
         n.client = 0 \/ (task[o].pc # "logout" /\ InHand(n, lives, task)),
         Proceeds(o, op, n, lives)
  PROVE  NInv'
<1>1. CASE op = "reconnect"
  <2> DEFINE on == [n EXCEPT !.should = TRUE]
  <2>1. Initialise(on, lives) /\ task' = [task EXCEPT ![o] = Unoccupied]
    BY <1>1 DEF Proceeds, Done
  <2>2. /\ on \in NotifiersOf(lives) /\ on.should
        /\ on.client = n.client /\ on.timer = n.timer
    BY SwitchedOn
  <2> HIDE DEF on
  <2>3. on.client # 0 /\ lives[on.client] = "lost" /\ ~on.timer => LoggingOut(task')
    BY <2>1, <2>2, LogoutGoesOn DEF InHand
  <2>4. DOMAIN task' = Operators
    BY <2>1
  <2> QED BY <2>1, <2>2, <2>3, <2>4, InitialiseKeeps DEF NInv
<1>2. CASE op # "reconnect"
  <2>1. PICK w : task' = [task EXCEPT ![o] = w]
    BY <1>2 DEF Proceeds, Goes
  <2>2. notifier' = n /\ life' = lives
    BY <1>2 DEF Proceeds
  <2>3. DOMAIN task' = Operators
    BY <2>1
  <2>4. InHand(n, lives, task')
    BY <2>1, LogoutGoesOn DEF InHand
  <2> QED BY <2>2, <2>3, <2>4 DEF NInv
<1> QED BY <1>1, <1>2

\* destroyCurrentClient puts the client aside at once.
LEMMA DestroyCurrentKeeps ==
  ASSUME NEW o \in Operators, NEW op, DOMAIN task = Operators,
         life \in Seq(Lives), Len(life) \in 1..MaxClients, NEW n \in NotifiersOf(life),
         DestroyCurrent(o, op, n)
  PROVE  NInv'
<1>1. CASE n.client = 0
  <2>1. Proceeds(o, op, Quiet(n), life)
    BY <1>1 DEF DestroyCurrent
  <2>2. Quiet(n) \in NotifiersOf(life) /\ Quiet(n).client = 0
    BY <1>1, QuietIsNotifier
  <2> QED BY <2>1, <2>2, ProceedsKeeps
<1>2. CASE n.client # 0
  <2> DEFINE aside == [n EXCEPT !.client = 0]
  <2>1. notifier' = aside /\ life' = life
    BY <1>2 DEF DestroyCurrent
  <2>2. DOMAIN task' = Operators
    BY <1>2 DEF DestroyCurrent, Goes
  <2>3. aside \in NotifiersOf(life) /\ aside.client = 0
    BY PutAside
  <2> HIDE DEF aside
  <2> QED BY <2>1, <2>2, <2>3 DEF NInv, InHand
<1> QED BY <1>1, <1>2

-----------------------------------------------------------------------------
(* The clients *)

LEMMA ClientStartsKeeps ==
  ASSUME NInv, NEW c \in DOMAIN life, ClientStarts(c)
  PROVE  NInv'
<1> DEFINE x == IF life[c] = "starting" THEN "running" ELSE life[c]
<1>1. /\ life \in Seq(Lives) /\ Len(life) \in 1..MaxClients
      /\ notifier \in NotifiersOf(life) /\ DOMAIN task = Operators
      /\ InHand(notifier, life, task) /\ c \in 1..Len(life) /\ life[c] \in Lives
  BY DEF NInv
<1>2. /\ notifier' = [notifier EXCEPT !.pending = 0] /\ task' = task
      /\ life' = [life EXCEPT ![c] = x] /\ x \in Lives /\ (x = "lost" => life[c] = "lost")
  BY <1>1 DEF ClientStarts, Lives
<1> HIDE DEF x
<1>3. /\ life' \in Seq(Lives) /\ Len(life') = Len(life)
      /\ \A d \in 1..Len(life) : life'[d] = "lost" => life[d] = "lost"
  BY <1>1, <1>2, OneLifeChanged
<1>4. /\ notifier' \in NotifiersOf(life) /\ notifier'.client = notifier.client
      /\ notifier'.timer = notifier.timer /\ notifier'.should = notifier.should
  BY <1>1, <1>2 DEF NotifiersOf
<1>5. notifier' \in NotifiersOf(life')
  BY <1>3, <1>4 DEF NotifiersOf
<1>6. notifier.client \in 0..Len(life)
  BY <1>1 DEF NotifiersOf
<1>7. InHand(notifier', life', task')
  BY <1>1, <1>2, <1>3, <1>4, <1>6 DEF InHand
<1> QED BY <1>1, <1>2, <1>3, <1>5, <1>7 DEF NInv

LEMMA ClientFailsKeeps ==
  ASSUME NInv, NEW c \in DOMAIN life, ClientFails(c)
  PROVE  NInv'
<1>1. /\ life \in Seq(Lives) /\ Len(life) \in 1..MaxClients
      /\ notifier \in NotifiersOf(life) /\ DOMAIN task = Operators
      /\ InHand(notifier, life, task) /\ c \in 1..Len(life)
  BY DEF NInv
<1> DEFINE q == Quiet(notifier)
<1>2. /\ notifier' = [q EXCEPT !.pending = 0, !.client = IF @ = c THEN 0 ELSE @]
      /\ task' = task /\ life' = [life EXCEPT ![c] = "gone"]
  BY DEF ClientFails
<1>3. /\ q \in NotifiersOf(life) /\ q.client = notifier.client
      /\ q.timer = notifier.timer /\ q.should = notifier.should
  BY <1>1, QuietIsNotifier
<1> HIDE DEF q
<1>4. /\ life' \in Seq(Lives) /\ Len(life') = Len(life)
      /\ \A d \in 1..Len(life) : life'[d] = "lost" => life[d] = "lost"
  BY <1>1, <1>2, OneLifeChanged DEF Lives
<1> DEFINE k == IF q.client = c THEN 0 ELSE q.client
<1>5. notifier' = [q EXCEPT !.pending = 0, !.client = k] /\ k \in {0, notifier.client}
  BY <1>2, <1>3 DEF NotifiersOf
<1>6. k \in 0..Len(life) /\ 0 \in 0..Len(life)
  BY <1>1, <1>3, <1>5 DEF NotifiersOf
<1> HIDE DEF k
<1>7. /\ notifier' \in NotifiersOf(life) /\ notifier'.client \in {0, notifier.client}
      /\ notifier'.timer = notifier.timer /\ notifier'.should = notifier.should
  BY <1>3, <1>5, <1>6 DEF NotifiersOf
<1>8. notifier' \in NotifiersOf(life')
  BY <1>4, <1>7 DEF NotifiersOf
<1>9. notifier.client \in 0..Len(life)
  BY <1>1 DEF NotifiersOf
<1>10. InHand(notifier', life', task')
  BY <1>1, <1>2, <1>4, <1>7, <1>9 DEF InHand
<1> QED BY <1>1, <1>2, <1>4, <1>8, <1>10 DEF NInv

LEMMA ReadiesKeeps ==
  ASSUME NInv, NEW c \in DOMAIN life, Readies(c)
  PROVE  NInv'
<1>1. /\ life \in Seq(Lives) /\ Len(life) \in 1..MaxClients
      /\ notifier \in NotifiersOf(life) /\ DOMAIN task = Operators
      /\ InHand(notifier, life, task) /\ c \in 1..Len(life)
  BY DEF NInv
<1>2. /\ notifier' = [notifier EXCEPT !.ready = TRUE, !.initing = FALSE]
      /\ task' = task /\ life' = [life EXCEPT ![c] = "ready"]
  BY DEF Readies
<1>3. /\ life' \in Seq(Lives) /\ Len(life') = Len(life)
      /\ \A d \in 1..Len(life) : life'[d] = "lost" => life[d] = "lost"
  BY <1>1, <1>2, OneLifeChanged DEF Lives
<1>4. /\ notifier' \in NotifiersOf(life) /\ notifier'.client = notifier.client
      /\ notifier'.timer = notifier.timer /\ notifier'.should = notifier.should
  BY <1>1, <1>2 DEF NotifiersOf
<1>5. notifier' \in NotifiersOf(life')
  BY <1>3, <1>4 DEF NotifiersOf
<1>6. notifier.client \in 0..Len(life)
  BY <1>1 DEF NotifiersOf
<1>7. InHand(notifier', life', task')
  BY <1>1, <1>2, <1>3, <1>4, <1>6 DEF InHand
<1> QED BY <1>1, <1>2, <1>3, <1>5, <1>7 DEF NInv

LEMMA AuthFailsKeeps ==
  ASSUME NInv, NEW c \in DOMAIN life, AuthFails(c)
  PROVE  NInv'
<1>1. notifier' = Quiet(notifier) /\ life' = life /\ task' = task
  BY DEF AuthFails
<1>2. /\ Quiet(notifier) \in NotifiersOf(life) /\ Quiet(notifier).client = notifier.client
      /\ Quiet(notifier).timer = notifier.timer /\ Quiet(notifier).should = notifier.should
  BY QuietIsNotifier DEF NInv
<1> QED BY <1>1, <1>2 DEF NInv, InHand

\* scheduleReconnect starts the timer, unless reconnection is off.
LEMMA DisconnectsKeeps ==
  ASSUME NInv, NEW c \in DOMAIN life, Disconnects(c)
  PROVE  NInv'
<1>1. /\ life \in Seq(Lives) /\ Len(life) \in 1..MaxClients
      /\ notifier \in NotifiersOf(life) /\ DOMAIN task = Operators
      /\ InHand(notifier, life, task) /\ c \in 1..Len(life)
  BY DEF NInv
<1>2. /\ notifier' = Schedules(Quiet(notifier))
      /\ task' = task /\ life' = [life EXCEPT ![c] = "lost"]
  BY DEF Disconnects
<1>3. /\ notifier' \in NotifiersOf(life) /\ notifier'.client = notifier.client
      /\ notifier'.should = notifier.should /\ (notifier'.should => notifier'.timer)
  BY <1>1, <1>2, QuietIsNotifier
<1>4. life' \in Seq(Lives) /\ Len(life') = Len(life)
  BY <1>1, <1>2, OneLifeChanged DEF Lives
<1>5. notifier' \in NotifiersOf(life')
  BY <1>3, <1>4 DEF NotifiersOf
<1>6. InHand(notifier', life', task')
  BY <1>1, <1>2, <1>3 DEF InHand
<1> QED BY <1>1, <1>2, <1>4, <1>5, <1>6 DEF NInv

-----------------------------------------------------------------------------
(* The operations *)

LEMMA DestroyedKeeps ==
  ASSUME NInv, NEW o \in Operators, NEW fails \in BOOLEAN, Destroyed(o, fails)
  PROVE  NInv'
<1> DEFINE c == task[o].old
           lives == IF fails THEN life ELSE [life EXCEPT ![c] = "gone"]
           q == Quiet(notifier)
<1>1. /\ life \in Seq(Lives) /\ Len(life) \in 1..MaxClients
      /\ notifier \in NotifiersOf(life) /\ DOMAIN task = Operators
      /\ InHand(notifier, life, task)
  BY DEF NInv
<1>2. task[o].pc = "destroy" /\ Proceeds(o, task[o].op, q, lives)
  BY DEF Destroyed
<1>3. /\ q \in NotifiersOf(life) /\ q.client = notifier.client
      /\ q.timer = notifier.timer /\ q.should = notifier.should
  BY <1>1, QuietIsNotifier
<1>4. /\ lives \in Seq(Lives) /\ Len(lives) = Len(life)
      /\ \A d \in 1..Len(life) : lives[d] = "lost" => life[d] = "lost"
  BY <1>1, OneLifeChanged DEF Lives
<1> HIDE DEF lives, q, c
<1>5. q \in NotifiersOf(lives)
  BY <1>3, <1>4 DEF NotifiersOf
<1>6. notifier.client \in 0..Len(life)
  BY <1>1 DEF NotifiersOf
<1>7. InHand(q, lives, task)
  BY <1>1, <1>3, <1>4, <1>6 DEF InHand
<1> QED BY <1>1, <1>2, <1>4, <1>5, <1>7, ProceedsKeeps

LEMMA SuspendingKeeps ==
  ASSUME NInv, NEW o \in Operators, NEW op, DestroyCurrent(o, op, Suspended(notifier))
  PROVE  NInv'
<1>1. Suspended(notifier) \in NotifiersOf(life)
  BY QuietIsNotifier DEF NInv
<1> QED BY <1>1, DestroyCurrentKeeps DEF NInv

LEMMA AdminResetsKeeps ==
  ASSUME NInv, NEW o \in Operators, AdminResets(o)
  PROVE  NInv'
<1>1. CASE ~(notifier.client # 0 /\ notifier.ready)
  BY <1>1, SuspendingKeeps DEF AdminResets
<1>2. CASE notifier.client # 0 /\ notifier.ready
  <2>1. /\ notifier' = Suspended(notifier) /\ life' = life
        /\ task' = [task EXCEPT ![o] = [op |-> "reset", pc |-> "logout", old |-> 0]]
    BY <1>2 DEF AdminResets, Goes
  <2>2. Suspended(notifier) \in NotifiersOf(life)
    BY QuietIsNotifier DEF NInv
  <2>3. DOMAIN task' = Operators /\ task'[o].pc = "logout"
    BY <2>1 DEF NInv
  <2> QED BY <2>1, <2>2, <2>3 DEF NInv, InHand, LoggingOut
<1> QED BY <1>1, <1>2

LEMMA SessionClearedKeeps ==
  ASSUME NInv, NEW o \in Operators, SessionCleared(o)
  PROVE  NInv'
<1> DEFINE on == [notifier EXCEPT !.should = TRUE]
<1>1. /\ life \in Seq(Lives) /\ Len(life) \in 1..MaxClients
      /\ notifier \in NotifiersOf(life) /\ DOMAIN task = Operators
      /\ InHand(notifier, life, task)
  BY DEF NInv
<1>2. /\ task[o].pc # "logout" /\ Initialise(on, life)
      /\ task' = [task EXCEPT ![o] = Unoccupied]
  BY DEF SessionCleared, Done
<1>3. /\ on \in NotifiersOf(life) /\ on.should
      /\ on.client = notifier.client /\ on.timer = notifier.timer
  BY <1>1, SwitchedOn
<1> HIDE DEF on
<1>4. on.client # 0 /\ life[on.client] = "lost" /\ ~on.timer => LoggingOut(task')
  BY <1>1, <1>2, <1>3, LogoutGoesOn DEF InHand
<1>5. DOMAIN task' = Operators
  BY <1>1, <1>2
<1> QED BY <1>1, <1>2, <1>3, <1>4, <1>5, InitialiseKeeps DEF NInv

LEMMA BootKeeps ==
  /\ NotifierInit => NInv
  /\ Restarts => NInv'
<1> DEFINE start == <<"starting">>
<1>1. start \in Seq(Lives) /\ Len(start) = 1 /\ start[1] = "starting"
  BY DEF Lives
<1>2. 1 \in 1..MaxClients
  BY ClientsAssumption
<1> HIDE DEF start
<1>3. Booted \in NotifiersOf(start) /\ Booted.client = 1 /\ Booted.should
  BY <1>1 DEF NotifiersOf, Booted
<1>4. ASSUME NotifierInit PROVE NInv
  <2>1. notifier = Booted /\ life = start /\ DOMAIN task = Operators
    BY <1>4 DEF NotifierInit, start
  <2> QED BY <1>1, <1>2, <1>3, <2>1 DEF NInv, InHand
<1>5. ASSUME Restarts PROVE NInv'
  <2>1. notifier' = Booted /\ life' = start /\ DOMAIN task' = Operators
    BY <1>5 DEF Restarts, start
  <2> QED BY <1>1, <1>2, <1>3, <2>1 DEF NInv, InHand
<1> QED BY <1>4, <1>5

LEMMA NotifierNextKeeps == NInv /\ [NotifierNext]_notifierVars => NInv'
<1> SUFFICES ASSUME NInv, [NotifierNext]_notifierVars PROVE NInv'
  OBVIOUS
<1>1. CASE UNCHANGED notifierVars
  BY <1>1 DEF notifierVars, NInv, InHand, LoggingOut
<1>2. ASSUME NEW c \in DOMAIN life,
             ClientStarts(c) \/ ClientFails(c) \/ Readies(c) \/ AuthFails(c) \/ Disconnects(c)
      PROVE  NInv'
  BY <1>2, ClientStartsKeeps, ClientFailsKeeps, ReadiesKeeps, AuthFailsKeeps, DisconnectsKeeps
<1>3. ASSUME NEW o \in Operators, LoggedOut(o) PROVE NInv'
  BY <1>3, DestroyCurrentKeeps DEF LoggedOut, NInv
<1>4. ASSUME NEW o \in Operators, TimerFires(o) \/ AdminReconnects(o) \/ Shutdown(o)
      PROVE  NInv'
  BY <1>4, SuspendingKeeps DEF TimerFires, AdminReconnects, Shutdown
<1> QED BY <1>1, <1>2, <1>3, <1>4, AdminResetsKeeps, SessionClearedKeeps, DestroyedKeeps,
           BootKeeps DEF NotifierNext

LEMMA NotifierInvariant == NotifierSpec => []NInv
BY BootKeeps, NotifierNextKeeps, PTL DEF NotifierSpec

-----------------------------------------------------------------------------
\* Every variable of the notifier keeps to its values, whatever its clients, its
\* timer, administrators and restarts do and in what order.
THEOREM NotifierTypesHold == NotifierSpec => []NotifierTypeOK
<1>1. NInv => NotifierTypeOK
  BY ClientsAssumption DEF NInv, NotifiersOf, NotifierTypeOK
<1> QED BY <1>1, NotifierInvariant, PTL

\* A client that was lost is never left in place (disconnected, scheduleReconnect,
\* initializeWhatsAppClient): however its events come in between the steps of a
\* reconnection, a reset or a shutdown, the timer runs or an operation is at work.
THEOREM LostClientsAreReplaced == NotifierSpec => []LostIsReplaced
<1>1. NInv => LostIsReplaced
  <2> SUFFICES ASSUME NInv, notifier.client # 0, life[notifier.client] = "lost",
                      ~notifier.timer
               PROVE  \E o \in Operators : task[o] # Unoccupied
    BY DEF LostIsReplaced
  <2>1. PICK o \in Operators : task[o].pc = "logout"
    BY DEF NInv, InHand, LoggingOut
  <2>2. task[o] # Unoccupied
    BY <2>1 DEF Unoccupied
  <2> QED BY <2>2
<1> QED BY <1>1, NotifierInvariant, PTL

-----------------------------------------------------------------------------

(***************************************************************************)
(* The order form: what is filled in reaches the provider.  The invariant  *)
(* says of every stage what the resolved names, the refusals and the       *)
(* stored answers are, in terms of the form the customer was asked.        *)
(***************************************************************************)

-----------------------------------------------------------------------------
(* Least and greatest places *)

LEMMA LeastOf ==
  ASSUME NEW T, T \subseteq Nat, T # {}
  PROVE  \E m \in T : \A x \in T : m <= x
<1> DEFINE Less == {p \in Nat \X Nat : p[1] < p[2]}
<1>1. IsWellFoundedOn(Less, Nat)
  BY NatLessThanWellFounded DEF OpToRel
<1> HIDE DEF Less
<1>2. PICK m \in T : \A x \in T : <<x, m>> \notin Less
  BY <1>1, WFMin
<1>3. \A x \in T : ~(x < m) /\ x \in Nat /\ m \in Nat
  BY <1>2 DEF Less
<1> QED BY <1>2, <1>3

LEMMA MinIsLeast ==
  ASSUME NEW T, T \subseteq Nat, T # {}
  PROVE  Min(T) \in T
<1>1. \E m \in T : \A x \in T : m <= x
  BY LeastOf
<1> QED BY <1>1 DEF Min

LEMMA MaxIsGreatest ==
  ASSUME NEW T, NEW n \in Nat, T \subseteq 1..n, T # {}
  PROVE  Max(T) \in T
<1> DEFINE Left == {n - x : x \in T}
<1>1. Left \subseteq Nat /\ Left # {}
  <2>1. \A x \in T : x \in 1..n /\ n - x \in Nat
    OBVIOUS
  <2> QED BY <2>1
<1>2. PICK m \in Left : \A l \in Left : m <= l
  BY <1>1, LeastOf
<1>3. PICK x \in T : m = n - x
  OBVIOUS
<1>4. \A y \in T : n - x <= n - y
  BY <1>2, <1>3
<1>5. \A y \in T : x >= y
  BY <1>4
<1> QED BY <1>5 DEF Max

-----------------------------------------------------------------------------
(* Fields and their names *)

LEMMA FieldsType ==
  ASSUME NEW fields \in Seq(Fields)
  PROVE  /\ DOMAIN fields = 1..Len(fields) /\ Len(fields) \in Nat
         /\ \A i \in DOMAIN fields : fields[i] \in Fields
<1> HIDE DEF Fields
<1> QED OBVIOUS

LEMMA KeysAreNames ==
  ASSUME NEW fields \in Seq(Fields), NEW name \in Names
  PROVE  KeyOf(fields, name) \in Names /\ ResellersKeyOf(fields, name) \in Names
<1>1. /\ DOMAIN fields = 1..Len(fields) /\ Len(fields) \in Nat
      /\ \A i \in DOMAIN fields : fields[i].key \in Names
  BY FieldsType DEF Fields
<1>2. Claiming(fields, name) \subseteq 1..Len(fields) /\ 1..Len(fields) \subseteq Nat
  BY <1>1 DEF Claiming
<1>3. KeyOf(fields, name) \in Names
  <2>1. CASE Claiming(fields, name) = {}
    BY <2>1 DEF KeyOf
  <2>2. CASE Claiming(fields, name) # {}
    <3>1. Min(Claiming(fields, name)) \in Claiming(fields, name)
      BY <1>2, <2>2, MinIsLeast
    <3> QED BY <1>1, <1>2, <2>2, <3>1 DEF KeyOf
  <2> QED BY <2>1, <2>2
<1>4. ResellersKeyOf(fields, name) \in Names
  <2> DEFINE claiming == {i \in Claiming(fields, name) : fields[i].active}
  <2>1. CASE claiming = {}
    BY <2>1 DEF ResellersKeyOf
  <2>2. CASE claiming # {}
    <3>1. Max(claiming) \in claiming
      BY <1>1, <1>2, <2>2, MaxIsGreatest
    <3> QED BY <1>1, <1>2, <2>2, <3>1 DEF ResellersKeyOf
  <2> QED BY <2>1, <2>2
<1> QED BY <1>3, <1>4

\* Keys differ; of a form with dynamic fields all are active.
DistinctKeys(fields) ==
  \A i, j \in DOMAIN fields : i # j => fields[i].key # fields[j].key

\* Where no two fields share a name, a name is resolved to a field's key exactly
\* when it is one of that field's.
LEMMA NamesOfAField ==
  ASSUME NEW fields \in Seq(Fields), DistinctKeys(fields), Unambiguous(fields),
         NEW name, NEW i \in DOMAIN fields
  PROVE  KeyOf(fields, name) = fields[i].key <=> name \in AllNames(fields[i])
<1>1. DOMAIN fields \subseteq Nat
  BY FieldsType
<1>2. ASSUME NEW j \in DOMAIN fields, name \in AllNames(fields[j])
      PROVE  KeyOf(fields, name) = fields[j].key
  <2>1. Claiming(fields, name) = {j}
    BY <1>2 DEF Claiming, Unambiguous
  <2>2. Min({j}) = j
    BY <1>1 DEF Min
  <2> QED BY <2>1, <2>2 DEF KeyOf
<1>3. ASSUME KeyOf(fields, name) = fields[i].key, name \notin AllNames(fields[i])
      PROVE  FALSE
  <2>1. CASE Claiming(fields, name) = {}
    BY <1>3, <2>1 DEF KeyOf, AllNames
  <2>2. CASE Claiming(fields, name) # {}
    <3>1. PICK j \in DOMAIN fields : name \in AllNames(fields[j])
      BY <2>2 DEF Claiming
    <3> QED BY <1>2, <1>3, <3>1 DEF DistinctKeys
  <2> QED BY <2>1, <2>2
<1> QED BY <1>2, <1>3

\* What a reseller's names are resolved to is resolved again to the same keys.
LEMMA ResolvedTwice ==
  ASSUME NEW fields \in Seq(Fields), DistinctKeys(fields), Unambiguous(fields), NEW name
  PROVE  KeyOf(fields, ResellersKeyOf(fields, name)) = KeyOf(fields, name)
<1>1. DOMAIN fields = 1..Len(fields) /\ Len(fields) \in Nat
  BY FieldsType
<1> DEFINE claiming == {i \in Claiming(fields, name) : fields[i].active}
<1>2. CASE claiming = {}
  BY <1>2 DEF ResellersKeyOf
<1>3. CASE claiming # {}
  <2>1. Max(claiming) \in claiming
    BY <1>1, <1>3, MaxIsGreatest DEF Claiming
  <2>2. PICK i \in DOMAIN fields : /\ name \in AllNames(fields[i])
                                   /\ ResellersKeyOf(fields, name) = fields[i].key
    BY <1>3, <2>1 DEF ResellersKeyOf, Claiming
  <2>3. fields[i].key \in AllNames(fields[i])
    BY DEF AllNames
  <2> QED BY <2>2, <2>3, NamesOfAField
<1> QED BY <1>2, <1>3

-----------------------------------------------------------------------------
(* The invariant *)

\* The entries are what was filled in, some under names a reseller's were resolved to.
Resolved ==
  /\ request \in Seq(Entries) /\ entries \in Seq(Entries) /\ Len(entries) = Len(request)
  /\ \A e \in DOMAIN request :
       /\ entries[e].value = request[e].value
       /\ entries[e].name \in {request[e].name, ResellersKeyOf(asked.fields, request[e].name)}

\* Why an order of this form is refused.
Misfilled(f) ==
  \/ \E e \in DOMAIN entries : KeyOf(f.fields, entries[e].name) \notin Keys(f.fields)
  \/ \E i \in Active(f.fields) : Wrong(f.kind, f.fields[i], Answer(f.fields, f.fields[i].key))

\* Every answer is stored once, converted, under the key of its field.
Stored(f) ==
  /\ \A a \in DOMAIN stored : stored[a].key \in Keys(f.fields)
  /\ \A a, b \in DOMAIN stored : stored[a].key = stored[b].key => a = b
  /\ \A i \in Active(f.fields) :
       LET answer == Answer(f.fields, f.fields[i].key)
       IN answer # "empty" =>
            \E a \in DOMAIN stored : /\ stored[a].key = f.fields[i].key
                                   /\ stored[a].value = Converted(f.fields[i].type, answer)

IsForm(f) ==
  /\ f \in [kind: FormKinds, fields: Seq(Fields), mapping: Mappings]
  /\ DistinctKeys(f.fields)
  /\ f.kind = "dynamic" => \A i \in DOMAIN f.fields : f.fields[i].active

OTypes ==
  /\ IsForm(form) /\ IsForm(asked)
  /\ DOMAIN stored \subseteq DOMAIN asked.fields \cup DOMAIN entries
  /\ \A a \in DOMAIN stored : stored[a] \in [key: Names, value: Values]
  /\ DOMAIN sent \subseteq Names /\ \A p \in DOMAIN sent : sent[p] \in Values
  /\ stage \in {"filled", "resolved", "refused", "ordered", "sent"}

\* The inductive invariant.
OInv ==
  /\ OTypes /\ Resolved
  /\ stage \in {"filled", "resolved"} => form = asked
  /\ stage = "filled" => entries = request
  /\ stage = "refused" => asked.kind # "none" /\ Misfilled(asked)
  /\ stage \in {"ordered", "sent"} /\ asked.kind # "none" => ~Misfilled(asked) /\ Stored(asked)
  /\ stage = "sent" => sent = Parameters(form.mapping, stored)

LEMMA EntriesType ==
  ASSUME NEW q \in Seq(Entries)
  PROVE  /\ DOMAIN q = 1..Len(q) /\ Len(q) \in Nat
         /\ \A e \in DOMAIN q : q[e].name \in Names /\ q[e].value \in Values
<1>1. \A x \in Entries : x.name \in Names /\ x.value \in Values
  BY DEF Entries
<1> HIDE DEF Entries
<1>2. \A e \in DOMAIN q : q[e] \in Entries
  OBVIOUS
<1> QED BY <1>1, <1>2

LEMMA AnswerType ==
  ASSUME entries \in Seq(Entries), NEW fields, NEW key
  PROVE  Answer(fields, key) \in Values
<1> DEFINE given == {e \in DOMAIN entries : KeyOf(fields, entries[e].name) = key}
<1>1. /\ DOMAIN entries = 1..Len(entries) /\ Len(entries) \in Nat
      /\ \A e \in DOMAIN entries : entries[e].value \in Values
  BY EntriesType
<1>2. CASE given = {}
  BY <1>2 DEF Answer, Values
<1>3. CASE given # {}
  <2>1. Max(given) \in given
    BY <1>1, <1>3, MaxIsGreatest
  <2> QED BY <1>1, <1>3, <2>1 DEF Answer
<1> QED BY <1>2, <1>3

LEMMA ConvertedType ==
  ASSUME NEW type, NEW value \in Values
  PROVE  /\ Converted(type, value) \in Values
         /\ Converted(type, value) = "empty" <=> value = "empty"
BY DEF Converted, Values

LEMMA OInit ==
  ASSUME FormInit
  PROVE  OInv
<1>1. PICK f \in Forms : form = [kind |-> f.kind, fields |-> f.fields,
                               mapping |-> CHOOSE m \in Mappings : TRUE]
  BY DEF FormInit
<1>2. IsForm(form) /\ asked = form
  <2>1. (CHOOSE m \in Mappings : TRUE) \in Mappings
    BY MappingsAssumption
  <2>2. /\ f.kind \in FormKinds /\ f.fields \in Seq(Fields) /\ DistinctKeys(f.fields)
        /\ f.kind = "dynamic" => \A i \in DOMAIN f.fields : f.fields[i].active
    BY FormsAssumption DEF DistinctKeys
  <2> QED BY <1>1, <2>1, <2>2 DEF IsForm, FormInit
<1>3. request \in Seq(Entries) /\ entries = request
  <2>1. PICK n \in 0..MaxEntries : entries \in [1..n -> Entries]
    BY DEF FormInit
  <2> HIDE DEF Entries
  <2>2. n \in Nat
    BY EntriesAssumption
  <2> QED BY <2>1, <2>2 DEF FormInit
<1>4. Resolved
  BY <1>3 DEF Resolved
<1>5. DOMAIN stored = {} /\ DOMAIN sent = {} /\ stage = "filled"
  BY DEF FormInit
<1> QED BY <1>2, <1>3, <1>4, <1>5 DEF OInv, OTypes

LEMMA ResolveKeeps ==
  ASSUME OInv, ResolveForReseller
  PROVE  OInv'
<1>1. /\ entries' = [i \in DOMAIN entries |->
                       [entries[i] EXCEPT !.name = ResellersKeyOf(form.fields, @)]]
      /\ stage = "filled" /\ stage' = "resolved"
      /\ UNCHANGED <<form, asked, request, stored, sent>>
      /\ form = asked /\ entries = request
  BY DEF ResolveForReseller, OInv
<1>2. /\ DOMAIN entries = 1..Len(entries) /\ Len(entries) \in Nat
      /\ \A e \in DOMAIN entries : entries[e] \in Entries
  BY EntriesType DEF OInv, Resolved
<1>3. \A e \in DOMAIN entries : ResellersKeyOf(form.fields, entries[e].name) \in Names
  BY <1>1, <1>2, EntriesType, KeysAreNames DEF OInv, OTypes, IsForm, Resolved
<1>4. \A e \in DOMAIN entries :
        /\ entries'[e] \in Entries /\ entries'[e].value = entries[e].value
        /\ entries'[e].name = ResellersKeyOf(form.fields, entries[e].name)
  BY <1>1, <1>2, <1>3 DEF Entries
<1>5. entries' \in Seq(Entries) /\ Len(entries') = Len(entries) /\ DOMAIN entries' = DOMAIN entries
  <2>1. DOMAIN entries' = 1..Len(entries) /\ entries' \in [1..Len(entries) -> Entries]
    BY <1>1, <1>2, <1>4
  <2> HIDE DEF Entries
  <2> QED BY <1>2, <2>1
<1>6. Resolved'
  BY <1>1, <1>2, <1>4, <1>5 DEF OInv, Resolved
<1>7. OTypes'
  BY <1>1, <1>5 DEF OInv, OTypes
<1> QED BY <1>1, <1>6, <1>7 DEF OInv

LEMMA FormalAreStored ==
  ASSUME OInv, form = asked, ~Misfilled(asked), stored' = FormalValues,
         UNCHANGED <<asked, entries>>
  PROVE  /\ Stored(asked)' /\ DOMAIN stored' \subseteq DOMAIN asked.fields
         /\ \A a \in DOMAIN stored' : stored'[a] \in [key: Names, value: Values]
<1> DEFINE Of(i) == [key |-> asked.fields[i].key,
                     value |-> Converted(asked.fields[i].type, Answer(asked.fields, asked.fields[i].key))]
           given == {i \in Active(asked.fields) : Of(i).value # "empty"}
<1>1. stored' = [i \in given |-> Of(i)]
  BY DEF FormalValues
<1>2. /\ asked.fields \in Seq(Fields) /\ DistinctKeys(asked.fields)
      /\ \A i \in DOMAIN asked.fields : asked.fields[i].key \in Names
  BY FieldsType DEF OInv, OTypes, IsForm, Fields
<1>3. \A i \in Active(asked.fields) :
        /\ i \in DOMAIN asked.fields
        /\ Of(i).value \in Values
        /\ Answer(asked.fields, asked.fields[i].key) # "empty" => Of(i).value # "empty"
  BY AnswerType, ConvertedType DEF OInv, Resolved, Active
<1>4. \A a \in DOMAIN stored' : a \in given /\ stored'[a] = Of(a)
  BY <1>1
<1>5. \A a \in given : stored'[a].key = asked.fields[a].key /\ stored'[a].value = Of(a).value
  BY <1>1
<1>6. DOMAIN stored' = given /\ given \subseteq Active(asked.fields)
  BY <1>1
<1>7. \A i : Of(i).value = Converted(asked.fields[i].type, Answer(asked.fields, asked.fields[i].key))
  OBVIOUS
<1>8. \A a \in DOMAIN stored' : stored'[a] \in [key: Names, value: Values]
  BY <1>2, <1>3, <1>4
<1>9. \A fields, key : Answer(fields, key)' = Answer(fields, key)
  BY DEF Answer
<1>10. ASSUME NEW i \in Active(asked.fields), Answer(asked.fields, asked.fields[i].key) # "empty"
       PROVE  i \in given
  BY <1>3, <1>10
<1> HIDE DEF given, Of
<1>11. Stored(asked)'
  BY <1>2, <1>3, <1>5, <1>6, <1>7, <1>9, <1>10 DEF Stored, Keys, DistinctKeys
<1> QED BY <1>3, <1>6, <1>8, <1>11

LEMMA DynamicAreStored ==
  ASSUME OInv, form = asked, ~Misfilled(asked), stored' = DynamicValues,
         UNCHANGED <<asked, entries>>
  PROVE  /\ Stored(asked)' /\ DOMAIN stored' \subseteq DOMAIN entries
         /\ \A a \in DOMAIN stored' : stored'[a] \in [key: Names, value: Values]
<1> DEFINE Key(e) == KeyOf(asked.fields, entries[e].name)
           TypeOf(key) == asked.fields[CHOOSE f \in DOMAIN asked.fields :
                                         asked.fields[f].key = key].type
           first == {e \in DOMAIN entries : \A d \in 1..(e - 1) : Key(d) # Key(e)}
           Of(e) == [key |-> Key(e),
                     value |-> Converted(TypeOf(Key(e)), Answer(asked.fields, Key(e)))]
<1>1. stored' = [e \in first |-> Of(e)]
  BY DEF DynamicValues
<1>2. /\ DOMAIN entries = 1..Len(entries) /\ Len(entries) \in Nat
      /\ \A e \in DOMAIN entries : Key(e) \in Names /\ Key(e) \in Keys(asked.fields)
  <2>1. \A e \in DOMAIN entries : Key(e) \in Names
    BY EntriesType, KeysAreNames DEF OInv, OTypes, IsForm, Resolved
  <2> QED BY <2>1, EntriesType DEF Misfilled, OInv, Resolved
<1>3. /\ first \subseteq DOMAIN entries /\ DOMAIN stored' = first
      /\ \A e \in first : /\ stored'[e].key = Key(e)
                          /\ stored'[e].value = Converted(TypeOf(Key(e)), Answer(asked.fields, Key(e)))
  BY <1>1
<1>4. \A e \in first : stored'[e] \in [key: Names, value: Values]
  BY <1>1, <1>2, AnswerType, ConvertedType DEF OInv, Resolved
<1>5. \A d, e \in first : Key(d) = Key(e) => d = e
  BY <1>2
<1>6. ASSUME NEW i \in Active(asked.fields), Answer(asked.fields, asked.fields[i].key) # "empty"
      PROVE  \E e \in first : Key(e) = asked.fields[i].key
  <2> DEFINE given == {e \in DOMAIN entries : Key(e) = asked.fields[i].key}
  <2>1. given # {} /\ given \subseteq Nat
    BY <1>2, <1>6 DEF Answer
  <2>2. PICK e \in given : \A d \in given : e <= d
    BY <2>1, LeastOf
  <2>3. \A d \in 1..(e - 1) : d \in DOMAIN entries /\ ~(e <= d)
    BY <1>2, <2>2
  <2>4. e \in first
    BY <2>2, <2>3
  <2> QED BY <2>2, <2>4
<1>7. ASSUME NEW i \in Active(asked.fields)
      PROVE  TypeOf(asked.fields[i].key) = asked.fields[i].type
  <2>1. i \in DOMAIN asked.fields /\ DistinctKeys(asked.fields)
    BY DEF Active, OInv, OTypes, IsForm
  <2>2. (CHOOSE f \in DOMAIN asked.fields : asked.fields[f].key = asked.fields[i].key) = i
    BY <2>1 DEF DistinctKeys
  <2> QED BY <2>2
<1>8. \A fields, key : Answer(fields, key)' = Answer(fields, key)
  BY DEF Answer
<1> HIDE DEF first, TypeOf, Key
<1>9. Stored(asked)'
  BY <1>2, <1>3, <1>5, <1>6, <1>7, <1>8 DEF Stored
<1> QED BY <1>3, <1>4, <1>9

LEMMA RawAreStored ==
  ASSUME OInv, stored' = RawValues, UNCHANGED entries
  PROVE  /\ DOMAIN stored' \subseteq DOMAIN entries
         /\ \A a \in DOMAIN stored' : stored'[a] \in [key: Names, value: Values]
BY EntriesType DEF RawValues, OInv, Resolved

LEMMA CreateKeeps ==
  ASSUME OInv, CreateOrder
  PROVE  OInv'
<1>1. /\ form = asked /\ UNCHANGED <<form, asked, request, entries, sent>>
      /\ stage' = IF Refused THEN "refused" ELSE "ordered"
  BY DEF OInv, CreateOrder
<1>2. Refused <=> asked.kind # "none" /\ Misfilled(asked)
  BY <1>1 DEF Refused, Misfilled
<1>3. Misfilled(asked)' <=> Misfilled(asked)
  BY <1>1 DEF Misfilled, Answer
<1>4. Resolved'
  BY <1>1 DEF OInv, Resolved
<1>5. CASE Refused
  <2>1. stored' = stored /\ stage' = "refused"
    BY <1>5 DEF CreateOrder
  <2>2. OTypes'
    BY <1>1, <2>1 DEF OInv, OTypes
  <2> QED BY <1>1, <1>2, <1>3, <1>4, <1>5, <2>1, <2>2 DEF OInv
<1>6. CASE ~Refused
  <2>1. /\ stage' = "ordered" /\ form.kind \in {"formal", "dynamic", "none"}
        /\ stored' = CASE form.kind = "formal" -> FormalValues
                       [] form.kind = "dynamic" -> DynamicValues
                       [] form.kind = "none" -> RawValues
    BY <1>6 DEF CreateOrder, OInv, OTypes, IsForm, FormKinds
  <2>2. /\ form.kind = "formal" => stored' = FormalValues
        /\ form.kind = "dynamic" => stored' = DynamicValues
        /\ form.kind = "none" => stored' = RawValues
    BY <2>1
  <2>3. /\ DOMAIN stored' \subseteq DOMAIN asked.fields \cup DOMAIN entries
        /\ \A a \in DOMAIN stored' : stored'[a] \in [key: Names, value: Values]
        /\ asked.kind # "none" => Stored(asked)'
    <3>1. CASE form.kind = "none"
      BY <1>1, <2>2, <3>1, RawAreStored
    <3>2. CASE form.kind = "formal"
      BY <1>1, <1>2, <1>6, <2>2, <3>2, FormalAreStored
    <3>3. CASE form.kind = "dynamic"
      BY <1>1, <1>2, <1>6, <2>2, <3>3, DynamicAreStored
    <3> QED BY <2>1, <3>1, <3>2, <3>3
  <2>4. OTypes'
    BY <1>1, <2>1, <2>3 DEF OInv, OTypes
  <2> QED BY <1>1, <1>2, <1>3, <1>4, <1>6, <2>1, <2>3, <2>4 DEF OInv
<1> QED BY <1>5, <1>6

\* Of the stored values that bear one parameter the last is sent.
Bearing(mapping, p) == {a \in DOMAIN stored : mapping[stored[a].key] = p}

LEMMA BearingIsThere ==
  ASSUME OInv, NEW mapping, NEW a \in DOMAIN stored
  PROVE  Max(Bearing(mapping, mapping[stored[a].key])) \in Bearing(mapping, mapping[stored[a].key])
<1> DEFINE bearing == Bearing(mapping, mapping[stored[a].key])
           n == Len(asked.fields)
           m == Len(entries)
<1>1. n \in Nat /\ m \in Nat /\ DOMAIN stored \subseteq (1..n) \cup (1..m)
  BY FieldsType, EntriesType DEF OInv, OTypes, IsForm, Resolved
<1>2. bearing # {} /\ bearing \subseteq DOMAIN stored
  BY DEF Bearing
<1> HIDE DEF bearing, n, m
<1>3. n + m \in Nat /\ bearing \subseteq 1..(n + m)
  BY <1>1, <1>2
<1>4. Max(bearing) \in bearing
  BY <1>2, <1>3, MaxIsGreatest
<1> QED BY <1>4 DEF bearing

LEMMA ExecuteKeeps ==
  ASSUME OInv, ExecuteOrder
  PROVE  OInv'
<1>1. /\ UNCHANGED <<form, asked, request, entries, stored>>
      /\ sent' = Parameters(form.mapping, stored)
      /\ stage = "ordered" /\ stage' = "sent"
  BY DEF ExecuteOrder
<1>2. Resolved' /\ (Misfilled(asked)' <=> Misfilled(asked)) /\ (Stored(asked)' <=> Stored(asked))
  BY <1>1 DEF OInv, Resolved, Misfilled, Stored, Answer
<1>3. /\ DOMAIN sent' = {form.mapping[stored[a].key] : a \in DOMAIN stored}
      /\ \A p \in DOMAIN sent' : sent'[p] = stored[Max(Bearing(form.mapping, p))].value
  BY <1>1 DEF Parameters, Bearing
<1>4. form.mapping \in [Names -> Names]
  BY MappingsAssumption DEF OInv, OTypes, IsForm
<1>5. DOMAIN sent' \subseteq Names
  BY <1>3, <1>4 DEF OInv, OTypes
<1>6. \A p \in DOMAIN sent' : sent'[p] \in Values
  <2>1. ASSUME NEW a \in DOMAIN stored
        PROVE  sent'[form.mapping[stored[a].key]] \in Values
    <3>1. Max(Bearing(form.mapping, form.mapping[stored[a].key])) \in DOMAIN stored
      BY BearingIsThere DEF Bearing
    <3> QED BY <1>3, <3>1 DEF OInv, OTypes
  <2> QED BY <1>3, <2>1
<1>7. OTypes'
  BY <1>1, <1>5, <1>6 DEF OInv, OTypes
<1> QED BY <1>1, <1>2, <1>7 DEF OInv

LEMMA EditKeeps ==
  ASSUME OInv, EditForm
  PROVE  OInv'
<1>1. PICK m \in Mappings, fields \in {form.fields, <<>>} :
        form' = [form EXCEPT !.mapping = m, !.fields = fields]
  BY DEF EditForm
<1>2. UNCHANGED <<asked, request, entries, stored, sent, stage>> /\ stage = "ordered"
  BY DEF EditForm
<1>3. IsForm(form')
  <2>1. fields \in Seq(Fields) /\ DistinctKeys(fields)
        /\ (form.kind = "dynamic" => \A i \in DOMAIN fields : fields[i].active)
    <3>1. CASE fields = form.fields
      BY <3>1 DEF OInv, OTypes, IsForm
    <3>2. CASE fields = <<>>
      <4>1. fields \in Seq(Fields) /\ DOMAIN fields = {}
        BY <3>2
      <4> QED BY <4>1 DEF DistinctKeys
    <3> QED BY <3>1, <3>2
  <2>2. form' = [kind |-> form.kind, fields |-> fields, mapping |-> m]
    BY <1>1 DEF OInv, OTypes, IsForm
  <2> QED BY <2>1, <2>2 DEF OInv, OTypes, IsForm
<1>4. Resolved' /\ (Misfilled(asked)' <=> Misfilled(asked)) /\ (Stored(asked)' <=> Stored(asked))
  BY <1>2 DEF OInv, Resolved, Misfilled, Stored, Answer
<1>5. OTypes'
  BY <1>2, <1>3 DEF OInv, OTypes
<1> QED BY <1>2, <1>4, <1>5 DEF OInv

LEMMA ONext ==
  ASSUME OInv, [FormNext]_formVars
  PROVE  OInv'
<1>1. CASE UNCHANGED formVars
  <2>1. UNCHANGED <<form, asked, request, entries, stored, sent, stage>>
    BY <1>1 DEF formVars
  <2>2. Resolved' /\ (Misfilled(asked)' <=> Misfilled(asked)) /\ (Stored(asked)' <=> Stored(asked))
    BY <2>1 DEF OInv, Resolved, Misfilled, Stored, Answer
  <2>3. OTypes'
    BY <2>1 DEF OInv, OTypes
  <2> QED BY <2>1, <2>2, <2>3 DEF OInv
<1> QED BY <1>1, ResolveKeeps, CreateKeeps, ExecuteKeeps, EditKeeps DEF FormNext

LEMMA FormInvariant == FormSpec => []OInv
BY OInit, ONext, PTL DEF FormSpec

\* Every variable of the order form keeps to its values.
THEOREM FormTypesHold == FormSpec => []FormTypeOK
<1>1. OInv => FormTypeOK
  BY DEF OInv, OTypes, IsForm, Resolved, FormTypeOK
<1> QED BY <1>1, FormInvariant, PTL

\* Where no two fields share a name, what is found under a field's key is what the
\* customer has told for it, whoever resolved the names before.
LEMMA AnswerIsTold ==
  ASSUME OInv, Unambiguous(asked.fields), NEW i \in DOMAIN asked.fields
  PROVE  /\ Answer(asked.fields, asked.fields[i].key) = Told(asked.fields[i])
         /\ \A e \in DOMAIN request :
              KeyOf(asked.fields, entries[e].name) = asked.fields[i].key
                <=> request[e].name \in AllNames(asked.fields[i])
<1>1. asked.fields \in Seq(Fields) /\ DistinctKeys(asked.fields)
  BY DEF OInv, OTypes, IsForm
<1>2. DOMAIN entries = DOMAIN request /\ \A e \in DOMAIN request : entries[e].value = request[e].value
  BY EntriesType DEF OInv, Resolved
<1>3. \A e \in DOMAIN request :
        KeyOf(asked.fields, entries[e].name) = KeyOf(asked.fields, request[e].name)
  BY <1>1, ResolvedTwice DEF OInv, Resolved
<1>4. \A e \in DOMAIN request :
        KeyOf(asked.fields, entries[e].name) = asked.fields[i].key
          <=> request[e].name \in AllNames(asked.fields[i])
  BY <1>1, <1>3, NamesOfAField
<1> DEFINE given == {e \in DOMAIN request : request[e].name \in AllNames(asked.fields[i])}
<1>5. given = {e \in DOMAIN entries : KeyOf(asked.fields, entries[e].name) = asked.fields[i].key}
  BY <1>2, <1>4
<1>6. Answer(asked.fields, asked.fields[i].key) = IF given = {} THEN "empty" ELSE entries[Max(given)].value
  BY <1>5 DEF Answer
<1>7. Told(asked.fields[i]) = IF given = {} THEN "empty" ELSE request[Max(given)].value
  BY DEF Told
<1>8. given # {} => Max(given) \in DOMAIN request
  <2>1. DOMAIN request = 1..Len(request) /\ Len(request) \in Nat
    BY EntriesType DEF OInv, Resolved
  <2> QED BY <2>1, MaxIsGreatest
<1> HIDE DEF given
<1> QED BY <1>2, <1>4, <1>6, <1>7, <1>8

\* Where no two fields share a name, an order is refused exactly when it names no
\* active field or fills one in wrongly, and what was filled in reaches the provider
\* under its parameter, in the mapping of now, if no other field has that one
\* (order.service.js, orderFields.validator.js, clientCompat.service.js).
THEOREM AnswersReachTheProvider == FormSpec => []AnswersArrive
<1> DEFINE fields == asked.fields
           Parameter(i) == form.mapping[fields[i].key]
<1>1. ASSUME OInv, asked.kind # "none", Unambiguous(fields)
      PROVE  Misfilled(asked) <=>
               \/ \E e \in DOMAIN request : \A i \in Active(fields) :
                    request[e].name \notin AllNames(fields[i])
               \/ \E i \in Active(fields) : Wrong(asked.kind, fields[i], Told(fields[i]))
  <2>1. DOMAIN entries = DOMAIN request /\ Active(fields) \subseteq DOMAIN fields
    BY <1>1, EntriesType DEF OInv, Resolved, Active
  <2>2. \A i \in Active(fields) : Answer(fields, fields[i].key) = Told(fields[i])
    BY <1>1, <2>1, AnswerIsTold
  <2>3. \A e \in DOMAIN request :
          KeyOf(fields, entries[e].name) \notin Keys(fields)
            <=> \A i \in Active(fields) : request[e].name \notin AllNames(fields[i])
    BY <1>1, <2>1, AnswerIsTold DEF Keys
  <2> HIDE DEF fields
  <2>4. Misfilled(asked) <=>
          \/ \E e \in DOMAIN entries : KeyOf(fields, entries[e].name) \notin Keys(fields)
          \/ \E i \in Active(fields) : Wrong(asked.kind, fields[i], Answer(fields, fields[i].key))
    BY DEF Misfilled, fields
  <2> QED BY <2>1, <2>2, <2>3, <2>4
<1>2. ASSUME OInv, stage = "sent", asked.kind # "none", Unambiguous(fields),
             NEW i \in Active(fields), Told(fields[i]) # "empty",
             \A j \in Active(fields) \ {i} : Parameter(j) # Parameter(i)
      PROVE  /\ Parameter(i) \in DOMAIN sent
             /\ sent[Parameter(i)] = Converted(fields[i].type, Told(fields[i]))
  <2>1. Answer(fields, fields[i].key) = Told(fields[i]) /\ Stored(asked)
    BY <1>2, AnswerIsTold DEF Active, OInv
  <2>2. PICK a \in DOMAIN stored : /\ stored[a].key = fields[i].key
                                  /\ stored[a].value = Converted(fields[i].type, Told(fields[i]))
    BY <1>2, <2>1 DEF Stored
  <2>3. ASSUME NEW b \in Bearing(form.mapping, Parameter(i))
        PROVE  b = a
    <3>1. PICK j \in Active(fields) : stored[b].key = fields[j].key
      BY <2>1, <2>3 DEF Stored, Bearing, Keys
    <3>2. j = i
      BY <1>2, <2>3, <3>1 DEF Bearing
    <3> QED BY <2>1, <2>2, <2>3, <3>1, <3>2 DEF Stored, Bearing
  <2>4. Max(Bearing(form.mapping, Parameter(i))) = a
    BY <1>2, <2>2, <2>3, BearingIsThere
  <2>5. sent = Parameters(form.mapping, stored)
    BY <1>2 DEF OInv
  <2>6. /\ DOMAIN sent = {form.mapping[stored[b].key] : b \in DOMAIN stored}
        /\ \A p \in DOMAIN sent : sent[p] = stored[Max(Bearing(form.mapping, p))].value
    BY <2>5 DEF Parameters, Bearing
  <2> QED BY <2>2, <2>4, <2>6
<1> HIDE DEF fields
<1>3. OInv => AnswersArrive
  <2> SUFFICES ASSUME OInv, stage \in {"refused", "ordered", "sent"},
                      asked.kind # "none", Unambiguous(fields)
               PROVE  /\ stage = "refused" <=>
                           \/ \E e \in DOMAIN request : \A i \in Active(fields) :
                                request[e].name \notin AllNames(fields[i])
                           \/ \E i \in Active(fields) : Wrong(asked.kind, fields[i], Told(fields[i]))
                      /\ stage = "sent" =>
                           \A i \in Active(fields) :
                             /\ Told(fields[i]) # "empty"
                             /\ \A j \in Active(fields) \ {i} : Parameter(j) # Parameter(i)
                             => /\ Parameter(i) \in DOMAIN sent
                                /\ sent[Parameter(i)] = Converted(fields[i].type, Told(fields[i]))
    BY DEF AnswersArrive, fields
  <2>1. stage = "refused" <=> Misfilled(asked)
    BY DEF OInv
  <2> HIDE DEF Parameter
  <2> QED BY <1>1, <1>2, <2>1
<1> QED BY <1>3, FormInvariant, PTL

-----------------------------------------------------------------------------
(* The composition *)

\* Each part keeps its invariant; the parts that rest in a behaviour have values
\* that stand for nothing, except for the notifier, which always starts.
ShopInv ==
  /\ part = "catalog" => CInv
  /\ part = "accounts" => AcInv
  /\ NInv
  /\ part = "form" => OInv
  /\ part = "suppliers" => SInv

\* Every variable of the part that moves keeps to its values: resting parts do not
\* disturb it.
THEOREM ShopTypesHold == Spec => []ShopTypeOK
<1>1. Init => ShopInv
  BY CatalogInitKeeps, AccountsInitKeeps, BootKeeps, OInit, InitJustified DEF Init, ShopInv
<1>2. ShopInv /\ [Next]_allVars => ShopInv'
  <2> SUFFICES ASSUME ShopInv, [Next]_allVars
               PROVE  ShopInv'
    OBVIOUS
  <2>1. part' = part /\ [CatalogNext]_catalogVars /\ [AccountsNext]_accountVars
    BY DEF Next, allVars
  <2>2. [NotifierNext]_notifierVars /\ [FormNext]_formVars /\ [SuppliersNext]_supplierVars
    BY DEF Next, allVars
  <2>3. (part = "catalog" => CInv') /\ (part = "accounts" => AcInv')
    BY <2>1, CatalogNextKeeps, AccountsNextKeeps DEF ShopInv
  <2>4. NInv' /\ (part = "form" => OInv')
    BY <2>2, NotifierNextKeeps, ONext DEF ShopInv
  <2>5. part = "suppliers" => SInv'
    BY <2>2, NextJustified DEF ShopInv
  <2> QED BY <2>1, <2>3, <2>4, <2>5 DEF ShopInv
<1>3. ShopInv => ShopTypeOK
  <2>1. (CInv => CatalogTypeOK) /\ (AcInv => AccountsTypeOK)
    BY DEF CInv, AcInv, UsersOK, HandlersOK, Accounts, AccountsTypeOK
  <2>2. NInv => NotifierTypeOK
    BY ClientsAssumption DEF NInv, NotifiersOf, NotifierTypeOK
  <2>3. OInv => FormTypeOK
    BY DEF OInv, OTypes, IsForm, Resolved, FormTypeOK
  <2>4. SInv => SuppliersTypeOK
    BY SInvIsTyped
  <2> QED BY <2>1, <2>2, <2>3, <2>4 DEF ShopInv, ShopTypeOK
<1> QED BY <1>1, <1>2, <1>3, PTL DEF Spec
=============================================================================
