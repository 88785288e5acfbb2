--------------------------- MODULE AccountsProofs ---------------------------
(***************************************************************************)
(* Addresses stay with one account, and decisions about accounts stand.    *)
(* The inductive invariant says of every handler between two of its steps  *)
(* which account it has and what it is about to write there: fields of     *)
(* their types, and none that another kind of handler decides.             *)
(***************************************************************************)
EXTENDS Accounts, TLAPS

UserFields == {"email", "google", "password", "verified", "link", "role", "status", "approved",
           "rejected", "group", "limit", "twoFactor", "code", "deleted"}

\* The yes-or-no fields.
Marks == {"password", "verified", "link", "approved", "rejected", "twoFactor", "code", "deleted"}

\* Fields of an account, each with a value of its type.
Suits(sets) ==
  /\ DOMAIN sets \subseteq UserFields
  /\ \A f \in DOMAIN sets \cap Marks : sets[f] \in BOOLEAN
  /\ "email" \in DOMAIN sets => sets["email"] \in Emails
  /\ "google" \in DOMAIN sets => sets["google"] \in Emails \cup {Absent}
  /\ "role" \in DOMAIN sets => sets["role"] \in Roles
  /\ "status" \in DOMAIN sets => sets["status"] \in Statuses
  /\ "group" \in DOMAIN sets => sets["group"] \in Groups
  /\ "limit" \in DOMAIN sets => sets["limit"] \in {0, 1}

FitsGroup(sets) ==
  /\ DOMAIN sets \subseteq {"percentage", "active", "deleted"}
  /\ \A f \in DOMAIN sets \cap {"active", "deleted"} : sets[f] \in BOOLEAN
  /\ "percentage" \in DOMAIN sets => sets["percentage"] \in Percentages

\* What such a handler writes, it may decide.
Entitled(op, sets) == \A f \in DOMAIN sets \cap DOMAIN Deciders : op \in Deciders[f]

\* A handler between two of its steps: HasAccount, about to write, or about to
\* create an account.
IsHandler(w) ==
  /\ DOMAIN w = DOMAIN Idle
  /\ w.pc \in {"none", "group", "insert", "save", "token", "address", "handle", "active",
               "saveGroup"}
  /\ w.pc \in {"save", "active"} => Suits(w.sets) /\ Entitled(w.op, w.sets)
  /\ w.pc = "address" =>
       /\ w.op \in {"update", "google"} /\ DOMAIN w.sets = {"email"}
       /\ w.sets["email"] \in Emails
  /\ w.pc \in {"group", "insert"} =>
       w.op \in {"register", "google"} /\ w.sets["email"] \in Emails
  /\ w.pc = "insert" => w.arg \in Groups
  /\ w.pc = "saveGroup" => w.ref \in Groups /\ FitsGroup(w.sets)

HasAccount(w) ==
  \/ w.pc \in {"save", "active", "handle", "token"}
  \/ w.pc = "address" /\ w.op = "update"

UsersOK ==
  /\ user \in [Users -> UserDocs \cup {Absent}] /\ group \in [Groups -> GroupDocs]
  /\ tokens \subseteq Accounts /\ challenged \subseteq Accounts
  /\ begun \in 0..MaxBegun

HandlersOK ==
  /\ DOMAIN serving = Handlers
  /\ \A h \in Handlers : /\ IsHandler(serving[h])
                         /\ HasAccount(serving[h]) => serving[h].ref \in Accounts

AcInv == UsersOK /\ HandlersOK /\ OneAccountPerAddress

-----------------------------------------------------------------------------
(* Documents and the fields written over them *)

LEMMA DocHasFields ==
  ASSUME NEW doc \in UserDocs
  PROVE  DOMAIN doc = UserFields /\ Suits(doc) /\ doc # Absent
<1>1. DOMAIN doc = UserFields
  BY DEF UserDocs, UserFields
<1>2. \A f \in Marks : doc[f] \in BOOLEAN
  BY DEF UserDocs, Marks
<1>3. /\ doc["email"] \in Emails /\ doc["google"] \in Emails \cup {Absent}
      /\ doc["role"] \in Roles /\ doc["status"] \in Statuses
      /\ doc["group"] \in Groups /\ doc["limit"] \in {0, 1}
  BY DEF UserDocs
<1> QED BY <1>1, <1>2, <1>3, AbsentAssumption DEF Suits

LEMMA FieldsMakeDoc ==
  ASSUME NEW doc, doc = [f \in UserFields |-> doc[f]], Suits(doc)
  PROVE  doc \in UserDocs
<1>1. DOMAIN doc = UserFields
  OBVIOUS
<1>2. \A f \in Marks : doc[f] \in BOOLEAN
  BY <1>1 DEF Suits, Marks, UserFields
<1>3. /\ doc["email"] \in Emails /\ doc["google"] \in Emails \cup {Absent}
      /\ doc["role"] \in Roles /\ doc["status"] \in Statuses
      /\ doc["group"] \in Groups /\ doc["limit"] \in {0, 1}
  BY <1>1 DEF Suits, UserFields
<1> QED BY <1>1, <1>2, <1>3 DEF UserDocs, UserFields, Marks

\* What is written over an account is an account, and each field is the one that
\* was written or the one that was there.
LEMMA OverFits ==
  ASSUME NEW doc \in UserDocs, NEW sets, Suits(sets)
  PROVE  /\ Over(sets, doc) \in UserDocs
         /\ \A f \in UserFields : Over(sets, doc)[f] = IF f \in DOMAIN sets THEN sets[f] ELSE doc[f]
<1> DEFINE new == Over(sets, doc)
<1>1. DOMAIN doc = UserFields /\ Suits(doc)
  BY DocHasFields
<1>2. new = [f \in UserFields |-> new[f]]
      /\ \A f \in UserFields : new[f] = IF f \in DOMAIN sets THEN sets[f] ELSE doc[f]
  BY <1>1 DEF Over
<1> HIDE DEF new
<1>3. Suits(new)
  BY <1>1, <1>2 DEF Suits, UserFields, Marks
<1>4. new \in UserDocs
  BY <1>2, <1>3, FieldsMakeDoc
<1> QED BY <1>2, <1>4 DEF new

LEMMA OverFitsGroup ==
  ASSUME NEW doc \in GroupDocs, NEW sets, FitsGroup(sets)
  PROVE  Over(sets, doc) \in GroupDocs
BY DEF FitsGroup, Over, GroupDocs

LEMMA DirtyIsPart ==
  ASSUME NEW doc, NEW sets, NEW unread
  PROVE  LET dirty == Dirty(doc, sets, unread)
         IN DOMAIN dirty \subseteq DOMAIN sets /\ \A f \in DOMAIN dirty : dirty[f] = sets[f]
BY DEF Dirty

LEMMA DirtyFits ==
  ASSUME NEW doc, NEW sets, NEW unread, NEW op
  PROVE  /\ Suits(sets) => Suits(Dirty(doc, sets, unread))
         /\ Entitled(op, sets) => Entitled(op, Dirty(doc, sets, unread))
         /\ FitsGroup(sets) => FitsGroup(Dirty(doc, sets, unread))
<1> DEFINE dirty == Dirty(doc, sets, unread)
<1>1. DOMAIN dirty \subseteq DOMAIN sets /\ \A f \in DOMAIN dirty : dirty[f] = sets[f]
  BY DirtyIsPart
<1> HIDE DEF dirty
<1>2. Suits(sets) => Suits(dirty)
  BY <1>1 DEF Suits
<1>3. Entitled(op, sets) => Entitled(op, dirty)
  BY <1>1 DEF Entitled
<1>4. FitsGroup(sets) => FitsGroup(dirty)
  BY <1>1 DEF FitsGroup
<1> QED BY <1>2, <1>3, <1>4 DEF dirty

\* What the handlers assign.
LEMMA MarkFits ==
  ASSUME NEW x \in BOOLEAN
  PROVE  /\ Suits([code |-> x]) /\ Suits([link |-> x]) /\ Suits([password |-> x])
         /\ Suits([verified |-> x]) /\ FitsGroup([active |-> x])
         /\ \A e \in Emails : Suits([google |-> e, verified |-> x])
BY DEF Suits, UserFields, Marks, FitsGroup

LEMMA MarksFit ==
  ASSUME NEW x \in BOOLEAN, NEW y \in BOOLEAN
  PROVE  /\ Suits([verified |-> x, link |-> y]) /\ Suits([twoFactor |-> x, code |-> y])
         /\ FitsGroup([deleted |-> x, active |-> y])
BY DEF Suits, UserFields, Marks, FitsGroup

LEMMA StatusFits ==
  ASSUME NEW status \in Statuses, NEW x \in BOOLEAN, NEW y \in BOOLEAN
  PROVE  /\ Suits([status |-> status])
         /\ Suits([status |-> status, verified |-> x, link |-> y])
         /\ Suits([deleted |-> x, status |-> status])
         /\ Suits([status |-> status, rejected |-> x, approved |-> y])
BY DEF Suits, UserFields, Marks

LEMMA ApprovalFits ==
  ASSUME NEW status \in Statuses, NEW x \in BOOLEAN, NEW y \in BOOLEAN
  PROVE  Suits([status |-> status, verified |-> x, approved |-> x, rejected |-> y, link |-> y])
BY DEF Suits, UserFields, Marks

-----------------------------------------------------------------------------
(* Handlers *)

LEMMA IdleIsHandler == IsHandler(Idle) /\ ~HasAccount(Idle)
BY DEF IsHandler, HasAccount, Idle

\* The steps of a handler that leave documents and tokens alone.
LEMMA HandlerMoves ==
  ASSUME AcInv, NEW h \in Handlers, NEW w, serving' = [serving EXCEPT ![h] = w],
         IsHandler(w), HasAccount(w) => w.ref \in Accounts, KeepBooks, begun' \in 0..MaxBegun
  PROVE  AcInv'
<1>1. Accounts' = Accounts
  BY DEF KeepBooks, Accounts
<1>2. UsersOK'
  BY <1>1 DEF AcInv, UsersOK, KeepBooks
<1>3. OneAccountPerAddress'
  BY <1>1 DEF AcInv, OneAccountPerAddress, KeepBooks
<1>4. HandlersOK'
  BY <1>1 DEF AcInv, HandlersOK
<1> QED BY <1>2, <1>3, <1>4 DEF AcInv

LEMMA HandlerBegins ==
  ASSUME AcInv, NEW h \in Handlers, NEW request, Begins(h, request),
         IsHandler(Over(request, Idle)),
         HasAccount(Over(request, Idle)) => Over(request, Idle).ref \in Accounts, KeepBooks
  PROVE  AcInv'
<1>1. begun' \in 0..MaxBegun
  BY AccountBounds DEF Begins, AcInv, UsersOK
<1> QED BY <1>1, HandlerMoves DEF Begins

LEMMA HandlerFinishes ==
  ASSUME AcInv, NEW h \in Handlers, Finishes(h), KeepBooks, UNCHANGED begun
  PROVE  AcInv'
<1>1. begun' \in 0..MaxBegun
  BY DEF AcInv, UsersOK
<1> QED BY <1>1, IdleIsHandler, HandlerMoves DEF Finishes

LEMMA HandlerContinues ==
  ASSUME AcInv, NEW h \in Handlers, NEW change, Continues(h, change),
         IsHandler(Over(change, serving[h])),
         HasAccount(Over(change, serving[h])) => Over(change, serving[h]).ref \in Accounts,
         KeepBooks, UNCHANGED begun
  PROVE  AcInv'
<1>1. begun' \in 0..MaxBegun
  BY DEF AcInv, UsersOK
<1>2. serving' = [serving EXCEPT ![h] = Over(change, serving[h])]
  BY DEF Continues
<1> QED BY <1>1, <1>2, HandlerMoves

\* A request that has read an account and assigned fields it is entitled to.
LEMMA EditsKeeps ==
  ASSUME AcInv, NEW h \in Handlers, NEW u \in Accounts, NEW op, NEW sets, NEW unread,
         Suits(sets), Entitled(op, sets), Edits(h, op, u, sets, unread)
  PROVE  AcInv'
<1> DEFINE dirty == Dirty(user[u], sets, unread)
           request == [op |-> op, pc |-> "save", ref |-> u, sets |-> dirty]
           w == Over(request, Idle)
<1>1. Suits(dirty) /\ Entitled(op, dirty)
  BY DirtyFits
<1>2. Begins(h, request) /\ KeepBooks
  BY DEF Edits
<1> HIDE DEF dirty
<1>3. /\ DOMAIN w = DOMAIN Idle
      /\ w.op = op /\ w.pc = "save" /\ w.ref = u /\ w.sets = dirty
  BY DEF Over, Idle
<1> HIDE DEF w
<1>4. IsHandler(w)
  BY <1>1, <1>3 DEF IsHandler
<1> HIDE DEF request
<1> QED BY <1>2, <1>3, <1>4, HandlerBegins DEF w

LEMMA HandlesKeeps ==
  ASSUME AcInv, NEW h \in Handlers, NEW op, NEW sets, NEW unread,
         Suits(sets), Entitled(op, sets), Handles(h, op, sets, unread)
  PROVE  AcInv'
<1> DEFINE v == serving[h]
           dirty == Dirty(user[v.ref], sets, unread)
           change == [op |-> op, pc |-> "save", sets |-> dirty]
           w == Over(change, v)
<1>1. Suits(dirty) /\ Entitled(op, dirty)
  BY DirtyFits
<1>2. Continues(h, change) /\ KeepBooks /\ UNCHANGED begun /\ v.pc = "handle"
  BY DEF Handles, At
<1>3. DOMAIN v = DOMAIN Idle /\ v.ref \in Accounts
  BY <1>2 DEF AcInv, HandlersOK, IsHandler, HasAccount
<1> HIDE DEF dirty, v
<1>4. /\ DOMAIN w = DOMAIN Idle
      /\ w.op = op /\ w.pc = "save" /\ w.ref = v.ref /\ w.sets = dirty
  BY <1>3 DEF Over, Idle
<1> HIDE DEF w
<1>5. IsHandler(w)
  BY <1>1, <1>4 DEF IsHandler
<1> HIDE DEF change
<1> QED BY <1>2, <1>3, <1>4, <1>5, HandlerContinues DEF w, v

-----------------------------------------------------------------------------
(* The two writes to accounts *)

\* No other account has the addresses of this document.
Free(u, doc) ==
  \A v \in Accounts \ {u} :
    doc.email # user[v].email /\ (doc.google = Absent \/ doc.google # user[v].google)

LEMMA WritingKeeps ==
  ASSUME AcInv, NEW u \in Users, NEW doc \in UserDocs, Free(u, doc),
         user' = [user EXCEPT ![u] = doc]
  PROVE  /\ user' \in [Users -> UserDocs \cup {Absent}]
         /\ Accounts' = Accounts \cup {u} /\ OneAccountPerAddress'
<1>1. user \in [Users -> UserDocs \cup {Absent}] /\ OneAccountPerAddress
  BY DEF AcInv, UsersOK
<1>2. /\ user' \in [Users -> UserDocs \cup {Absent}] /\ user'[u] = doc
      /\ \A v \in Users \ {u} : user'[v] = user[v]
  BY <1>1
<1>3. Accounts' = Accounts \cup {u}
  BY <1>2, AbsentAssumption DEF Accounts
<1>4. ASSUME NEW v \in Accounts', NEW w \in Accounts', v # w
      PROVE  user'[v].email # user'[w].email
             /\ (user'[v].google = Absent \/ user'[v].google # user'[w].google)
  <2>1. CASE v = u
    <3>1. w \in Accounts \ {u} /\ user'[w] = user[w]
      BY <1>2, <1>3, <1>4, <2>1 DEF Accounts
    <3> QED BY <1>2, <2>1, <3>1 DEF Free
  <2>2. CASE w = u
    <3>1. v \in Accounts \ {u} /\ user'[v] = user[v]
      BY <1>2, <1>3, <1>4, <2>2 DEF Accounts
    <3> QED BY <1>2, <2>2, <3>1 DEF Free
  <2>3. CASE v # u /\ w # u
    <3>1. v \in Accounts /\ w \in Accounts /\ user'[v] = user[v] /\ user'[w] = user[w]
      BY <1>2, <1>3, <2>3 DEF Accounts
    <3> QED BY <1>1, <1>4, <3>1 DEF OneAccountPerAddress
  <2> QED BY <2>1, <2>2, <2>3
<1>5. OneAccountPerAddress'
  BY <1>4 DEF OneAccountPerAddress
<1> QED BY <1>2, <1>3, <1>5

\* The steps of a handler that writes an account or issues a token.
LEMMA WriterMoves ==
  ASSUME AcInv, NEW h \in Handlers, NEW w, serving' = [serving EXCEPT ![h] = w],
         IsHandler(w), HasAccount(w) => w.ref \in Accounts',
         Accounts \subseteq Accounts', user' \in [Users -> UserDocs \cup {Absent}],
         OneAccountPerAddress', tokens' \subseteq Accounts', challenged' \subseteq Accounts',
         UNCHANGED <<group, begun>>
  PROVE  AcInv'
<1>1. UsersOK'
  BY DEF AcInv, UsersOK
<1>2. HandlersOK'
  BY DEF AcInv, HandlersOK
<1> QED BY <1>1, <1>2 DEF AcInv

\* The unique indexes refuse a save that would share an address.
LEMMA SaveIsFree ==
  ASSUME AcInv, NEW u \in Accounts, NEW sets, Suits(sets), ~Taken(u, sets)
  PROVE  Free(u, Over(sets, user[u]))
<1> DEFINE doc == Over(sets, user[u])
<1>1. user[u] \in UserDocs
  BY DEF AcInv, UsersOK, Accounts
<1>2. \A f \in UserFields : doc[f] = IF f \in DOMAIN sets THEN sets[f] ELSE user[u][f]
  BY <1>1, OverFits
<1> HIDE DEF doc
<1>3. ASSUME NEW v \in Accounts \ {u}
      PROVE  /\ doc["email"] # user[v]["email"]
             /\ doc["google"] = Absent \/ doc["google"] # user[v]["google"]
  <2>1. /\ user[u]["email"] # user[v]["email"]
        /\ user[u]["google"] = Absent \/ user[u]["google"] # user[v]["google"]
    BY <1>3 DEF AcInv, OneAccountPerAddress
  <2>2. /\ "email" \in DOMAIN sets => user[v]["email"] # sets["email"]
        /\ "google" \in DOMAIN sets /\ sets["google"] # Absent
             => user[v]["google"] # sets["google"]
    BY <1>3 DEF Taken
  <2> QED BY <1>2, <2>1, <2>2 DEF UserFields
<1> QED BY <1>3 DEF Free, doc

LEMMA SaveKeeps ==
  ASSUME AcInv, NEW h \in Handlers, Save(h)
  PROVE  AcInv'
<1> DEFINE v == serving[h]
           refused == Taken(v.ref, v.sets)
           doc == Over(v.sets, user[v.ref])
<1>1. v.pc = "save" /\ DOMAIN v = DOMAIN Idle
  BY DEF Save, At, AcInv, HandlersOK, IsHandler
<1>2. v.ref \in Accounts /\ v.ref \in Users /\ Suits(v.sets) /\ user[v.ref] \in UserDocs
  BY <1>1 DEF AcInv, HandlersOK, UsersOK, IsHandler, HasAccount, Accounts
<1>3. /\ user' = IF refused THEN user ELSE [user EXCEPT ![v.ref] = doc]
      /\ challenged' \subseteq challenged \cup {v.ref} /\ tokens' = tokens
      /\ UNCHANGED <<group, begun>>
      /\ \/ serving' = [serving EXCEPT ![h] = Idle]
         \/ serving' = [serving EXCEPT ![h] = Over([pc |-> "token"], v)]
  BY DEF Save, Finishes, Continues
<1>4. /\ user' \in [Users -> UserDocs \cup {Absent}]
      /\ Accounts' = Accounts /\ OneAccountPerAddress'
  <2>1. CASE refused
    BY <1>3, <2>1 DEF AcInv, UsersOK, OneAccountPerAddress, Accounts
  <2>2. CASE ~refused
    <3>1. doc \in UserDocs /\ Free(v.ref, doc)
      BY <1>2, <2>2, OverFits, SaveIsFree
    <3>2. user' = [user EXCEPT ![v.ref] = doc]
      BY <1>3, <2>2
    <3> HIDE DEF doc, refused, v
    <3>3. /\ user' \in [Users -> UserDocs \cup {Absent}]
          /\ Accounts' = Accounts \cup {v.ref} /\ OneAccountPerAddress'
      BY <1>2, <3>1, <3>2, WritingKeeps
    <3> QED BY <1>2, <3>3
  <2> QED BY <2>1, <2>2
<1>5. tokens' \subseteq Accounts' /\ challenged' \subseteq Accounts'
  BY <1>2, <1>3, <1>4 DEF AcInv, UsersOK
<1> DEFINE next == Over([pc |-> "token"], v)
<1>6. DOMAIN next = DOMAIN Idle /\ next.pc = "token" /\ next.ref = v.ref
  BY <1>1 DEF Over, Idle
<1>7. PICK w \in {Idle, next} : serving' = [serving EXCEPT ![h] = w]
  BY <1>3
<1> HIDE DEF next, v
<1>8. IsHandler(w) /\ (HasAccount(w) => w.ref \in Accounts')
  BY <1>2, <1>4, <1>6, <1>7, IdleIsHandler DEF IsHandler, HasAccount
<1> QED BY <1>3, <1>4, <1>5, <1>7, <1>8, WriterMoves

LEMMA NewUserFits ==
  ASSUME NEW w, w.sets["email"] \in Emails, w.arg \in Groups
  PROVE  NewUser(w) \in UserDocs /\ DOMAIN NewUser(w) = UserFields
<1>1. NewUser(w) \in UserDocs
  BY DEF NewUser, UserDocs, Roles, Statuses
<1> QED BY <1>1, DocHasFields

LEMMA InsertUserKeeps ==
  ASSUME AcInv, NEW h \in Handlers, NEW u \in Users, InsertUser(h, u)
  PROVE  AcInv'
<1> DEFINE v == serving[h]
           doc == NewUser(v)
<1>1. v.pc = "insert" /\ u \notin Accounts /\ UNCHANGED <<group, tokens, challenged, begun>>
  BY DEF InsertUser, At
<1>2. DOMAIN v = DOMAIN Idle /\ v.sets["email"] \in Emails /\ v.arg \in Groups
  BY <1>1 DEF AcInv, HandlersOK, IsHandler
<1>3. CASE Taken(u, doc)
  <2>1. Finishes(h) /\ KeepBooks /\ UNCHANGED begun
    BY <1>1, <1>3 DEF InsertUser, KeepBooks
  <2> QED BY <2>1, HandlerFinishes
<1>4. CASE ~Taken(u, doc)
  <2> DEFINE next == Over([pc |-> "token", ref |-> u, arg |-> TRUE], v)
  <2>1. /\ user' = [user EXCEPT ![u] = doc]
        /\ \/ serving' = [serving EXCEPT ![h] = Idle]
           \/ serving' = [serving EXCEPT ![h] = next]
    BY <1>4 DEF InsertUser, Finishes, Continues
  <2>2. doc \in UserDocs /\ DOMAIN doc = UserFields
    BY <1>2, NewUserFits
  <2>3. DOMAIN next = DOMAIN Idle /\ next.pc = "token" /\ next.ref = u
    BY <1>2 DEF Over, Idle
  <2> HIDE DEF next, doc, v
  <2>4. Free(u, doc)
    BY <1>4, <2>2 DEF Free, Taken, UserFields
  <2>5. /\ user' \in [Users -> UserDocs \cup {Absent}]
        /\ Accounts' = Accounts \cup {u} /\ OneAccountPerAddress'
    BY <2>1, <2>2, <2>4, WritingKeeps
  <2>6. PICK w \in {Idle, next} : serving' = [serving EXCEPT ![h] = w]
    BY <2>1
  <2>7. IsHandler(w) /\ (HasAccount(w) => w.ref \in Accounts')
    BY <2>3, <2>5, <2>6, IdleIsHandler DEF IsHandler, HasAccount
  <2>8. tokens' \subseteq Accounts' /\ challenged' \subseteq Accounts'
    BY <1>1, <2>5 DEF AcInv, UsersOK
  <2> QED BY <1>1, <2>5, <2>6, <2>7, <2>8, WriterMoves
<1> QED BY <1>3, <1>4

LEMMA IssueTokenKeeps ==
  ASSUME AcInv, NEW h \in Handlers, IssueToken(h)
  PROVE  AcInv'
<1>1. /\ serving[h].pc = "token" /\ serving' = [serving EXCEPT ![h] = Idle]
      /\ tokens' \subseteq tokens \cup {serving[h].ref}
      /\ UNCHANGED <<user, group, challenged, begun>>
  BY DEF IssueToken, At, Finishes
<1>2. serving[h].ref \in Accounts
  BY <1>1 DEF AcInv, HandlersOK, HasAccount
<1>3. Accounts' = Accounts /\ OneAccountPerAddress'
  BY <1>1 DEF Accounts, OneAccountPerAddress, AcInv
<1>4. /\ user' \in [Users -> UserDocs \cup {Absent}]
      /\ tokens' \subseteq Accounts' /\ challenged' \subseteq Accounts'
  BY <1>1, <1>2, <1>3 DEF AcInv, UsersOK
<1> QED BY <1>1, <1>3, <1>4, IdleIsHandler, WriterMoves

-----------------------------------------------------------------------------
(* Getting in *)

LEMMA RegisterKeeps ==
  ASSUME AcInv, NEW h \in Handlers, NEW e \in Emails, Register(h, e)
  PROVE  AcInv'
<1> DEFINE request == [op |-> "register", pc |-> "group", sets |-> [email |-> e]]
           w == Over(request, Idle)
<1>1. Begins(h, request) /\ KeepBooks
  BY DEF Register
<1>2. /\ DOMAIN w = DOMAIN Idle /\ w.op = "register" /\ w.pc = "group"
      /\ w.sets["email"] = e
  BY DEF Over, Idle
<1> HIDE DEF w, request
<1>3. IsHandler(w) /\ ~HasAccount(w)
  BY <1>2 DEF IsHandler, HasAccount
<1> QED BY <1>1, <1>3, HandlerBegins DEF w

LEMMA PickGroupKeeps ==
  ASSUME AcInv, NEW h \in Handlers, NEW g \in Groups, PickGroup(h, g)
  PROVE  AcInv'
<1> DEFINE v == serving[h]
           change == [pc |-> "insert", arg |-> g]
           w == Over(change, v)
<1>1. /\ v.pc = "group" /\ KeepBooks /\ UNCHANGED begun
      /\ Finishes(h) \/ Continues(h, change)
  BY DEF PickGroup, At
<1>2. IsHandler(v)
  BY DEF AcInv, HandlersOK
<1> HIDE DEF v
<1>3. /\ DOMAIN w = DOMAIN Idle /\ w.op = v.op /\ w.pc = "insert" /\ w.sets = v.sets
      /\ w.arg = g
  BY <1>2 DEF Over, Idle, IsHandler
<1> HIDE DEF w, change
<1>4. IsHandler(w) /\ ~HasAccount(w)
  BY <1>1, <1>2, <1>3 DEF IsHandler, HasAccount
<1> QED BY <1>1, <1>4, HandlerFinishes, HandlerContinues DEF w, v

\* A session token is about to be issued.
LEMMA TokenKeeps ==
  ASSUME AcInv, NEW h \in Handlers, NEW u \in Accounts, NEW op, NEW may,
         Begins(h, [op |-> op, pc |-> "token", ref |-> u, arg |-> may]), KeepBooks
  PROVE  AcInv'
<1> DEFINE request == [op |-> op, pc |-> "token", ref |-> u, arg |-> may]
           w == Over(request, Idle)
<1>1. DOMAIN w = DOMAIN Idle /\ w.pc = "token" /\ w.ref = u
  BY DEF Over, Idle
<1> HIDE DEF w
<1>2. IsHandler(w)
  BY <1>1 DEF IsHandler
<1>3. Begins(h, request)
  OBVIOUS
<1> HIDE DEF request
<1> QED BY <1>1, <1>2, <1>3, HandlerBegins DEF w

LEMMA LoginKeeps ==
  ASSUME AcInv, NEW h \in Handlers, NEW u \in Accounts, Login(h, u)
  PROVE  AcInv'
<1>1. CASE user[u].twoFactor
  <2>1. Edits(h, "login", u, [code |-> TRUE], {"code"})
    BY <1>1 DEF Login
  <2>2. Suits([code |-> TRUE]) /\ Entitled("login", [code |-> TRUE])
    BY MarkFits DEF Entitled, Deciders
  <2> QED BY <2>1, <2>2, EditsKeeps
<1>2. CASE ~user[u].twoFactor
  BY <1>2, TokenKeeps DEF Login
<1> QED BY <1>1, <1>2

LEMMA GoogleSignInKeeps ==
  ASSUME AcInv, NEW h \in Handlers, NEW e \in Emails, GoogleSignIn(h, e)
  PROVE  AcInv'
<1> DEFINE request == [op |-> "google", pc |-> "address", sets |-> [email |-> e]]
           w == Over(request, Idle)
<1>1. CASE Begins(h, request) /\ KeepBooks
  <2>1. /\ DOMAIN w = DOMAIN Idle /\ w.op = "google" /\ w.pc = "address"
        /\ w.sets = [email |-> e]
    BY DEF Over, Idle
  <2> HIDE DEF w, request
  <2>2. IsHandler(w) /\ ~HasAccount(w)
    BY <2>1 DEF IsHandler, HasAccount
  <2> QED BY <1>1, <2>2, HandlerBegins DEF w
<1>2. CASE \E u \in Accounts :
             Begins(h, [op |-> "google", pc |-> "token", ref |-> u, arg |-> MayEnter(user[u])])
             /\ KeepBooks
  BY <1>2, TokenKeeps
<1> QED BY <1>1, <1>2 DEF GoogleSignIn

LEMMA LinkGoogleKeeps ==
  ASSUME AcInv, NEW h \in Handlers, LinkGoogle(h)
  PROVE  AcInv'
<1> DEFINE v == serving[h]
           e == v.sets.email
           sets == [google |-> e, verified |-> TRUE]
<1>1. /\ v.pc = "address" /\ v.op = "google" /\ KeepBooks /\ UNCHANGED begun
      /\ \/ Continues(h, [pc |-> "group"])
         \/ \E u \in Accounts :
              Continues(h, [pc |-> "save", ref |-> u, arg |-> MayEnter(user[u]),
                            sets |-> Dirty(user[u], sets, {})])
  BY DEF LinkGoogle, At
<1>2. IsHandler(v)
  BY DEF AcInv, HandlersOK
<1>3. v.sets["email"] \in Emails /\ e \in Emails /\ DOMAIN v = DOMAIN Idle
  BY <1>1, <1>2 DEF IsHandler
<1>4. CASE Continues(h, [pc |-> "group"])
  <2> DEFINE change == [pc |-> "group"]
             w == Over(change, v)
  <2>1. DOMAIN w = DOMAIN Idle /\ w.op = v.op /\ w.pc = "group" /\ w.sets = v.sets
    BY <1>3 DEF Over, Idle
  <2>2. Continues(h, change)
    BY <1>4
  <2> HIDE DEF w, change, v
  <2>3. IsHandler(w) /\ ~HasAccount(w)
    BY <1>1, <1>3, <2>1 DEF IsHandler, HasAccount
  <2> QED BY <1>1, <2>2, <2>3, HandlerContinues DEF w, v
<1>5. ASSUME NEW u \in Accounts,
             Continues(h, [pc |-> "save", ref |-> u, arg |-> MayEnter(user[u]),
                           sets |-> Dirty(user[u], sets, {})])
      PROVE  AcInv'
  <2> DEFINE dirty == Dirty(user[u], sets, {})
             change == [pc |-> "save", ref |-> u, arg |-> MayEnter(user[u]), sets |-> dirty]
             w == Over(change, v)
  <2>1. Suits(sets)
    BY <1>3, MarkFits
  <2>2. Entitled("google", sets)
    BY DEF Entitled, Deciders
  <2> HIDE DEF sets
  <2>3. Suits(dirty) /\ Entitled("google", dirty)
    BY <2>1, <2>2, DirtyFits
  <2>4. Continues(h, change)
    BY <1>5
  <2> HIDE DEF dirty, v
  <2>5. /\ DOMAIN w = DOMAIN Idle /\ w.op = v.op /\ w.pc = "save" /\ w.ref = u
        /\ w.sets = dirty
    BY <1>3 DEF Over, Idle
  <2> HIDE DEF w, change
  <2>6. IsHandler(w)
    BY <1>1, <2>3, <2>5 DEF IsHandler
  <2> QED BY <1>1, <2>4, <2>5, <2>6, HandlerContinues DEF w, v
<1> QED BY <1>1, <1>4, <1>5

LEMMA ConfirmLoginKeeps ==
  ASSUME AcInv, NEW h \in Handlers, NEW u \in Accounts, NEW inTime \in BOOLEAN,
         ConfirmLogin(h, u, inTime)
  PROVE  AcInv'
<1> DEFINE op == IF user[u].code /\ inTime THEN "confirm" ELSE "expire"
           sets == [code |-> FALSE]
           dirty == Dirty(user[u], sets, {})
           request == [op |-> op, pc |-> "save", ref |-> u, arg |-> TRUE, sets |-> dirty]
           w == Over(request, Idle)
<1>1. Begins(h, request) /\ KeepBooks
  BY DEF ConfirmLogin
<1> HIDE DEF op
<1>2. Suits(sets) /\ Entitled(op, sets)
  BY MarkFits DEF Entitled, Deciders
<1> HIDE DEF sets
<1>3. Suits(dirty) /\ Entitled(op, dirty)
  BY <1>2, DirtyFits
<1> HIDE DEF dirty
<1>4. DOMAIN w = DOMAIN Idle /\ w.op = op /\ w.pc = "save" /\ w.ref = u /\ w.sets = dirty
  BY DEF Over, Idle
<1> HIDE DEF w, request
<1>5. IsHandler(w)
  BY <1>3, <1>4 DEF IsHandler
<1> QED BY <1>1, <1>4, <1>5, HandlerBegins DEF w

LEMMA EnterKeeps ==
  ASSUME AcInv, NEW h \in Handlers, Enter(h)
  PROVE  AcInv'
<1>1. ASSUME NEW u \in Accounts, VerifyEmail(h, u) PROVE AcInv'
  <2>1. Suits([verified |-> TRUE, link |-> FALSE])
    BY MarksFit
  <2>2. Entitled("verify", [verified |-> TRUE, link |-> FALSE])
    BY DEF Entitled, Deciders
  <2> QED BY <1>1, <2>1, <2>2, EditsKeeps DEF VerifyEmail
<1>2. ASSUME NEW u \in Accounts, ResendVerification(h, u) PROVE AcInv'
  <2>1. Suits([link |-> TRUE]) /\ Entitled("resend", [link |-> TRUE])
    BY MarkFits DEF Entitled, Deciders
  <2> QED BY <1>2, <2>1, EditsKeeps DEF ResendVerification
<1> QED BY <1>1, <1>2, RegisterKeeps, GoogleSignInKeeps, InsertUserKeeps, PickGroupKeeps,
           LoginKeeps, ConfirmLoginKeeps, LinkGoogleKeeps, SaveKeeps, IssueTokenKeeps DEF Enter

-----------------------------------------------------------------------------
(* The account's own settings *)

LEMMA AuthenticateKeeps ==
  ASSUME AcInv, NEW h \in Handlers, NEW u \in Accounts, Authenticate(h, u)
  PROVE  AcInv'
<1> DEFINE request == [op |-> "request", pc |-> "handle", ref |-> u]
           w == Over(request, Idle)
<1>1. Begins(h, request) /\ KeepBooks
  BY DEF Authenticate
<1>2. DOMAIN w = DOMAIN Idle /\ w.pc = "handle" /\ w.ref = u
  BY DEF Over, Idle
<1> HIDE DEF w, request
<1>3. IsHandler(w)
  BY <1>2 DEF IsHandler
<1> QED BY <1>1, <1>2, <1>3, HandlerBegins DEF w

LEMMA ManageKeeps ==
  ASSUME AcInv, NEW h \in Handlers, Manage(h)
  PROVE  AcInv'
<1>1. CASE RequestCode(h)
  <2>1. Suits([code |-> TRUE]) /\ Entitled("generate", [code |-> TRUE])
    BY MarkFits DEF Entitled, Deciders
  <2> QED BY <1>1, <2>1, HandlesKeeps DEF RequestCode
<1>2. ASSUME NEW b \in BOOLEAN, EnableTwoFactor(h, b) PROVE AcInv'
  <2>1. Suits([twoFactor |-> TRUE, code |-> FALSE]) /\ Suits([code |-> FALSE])
    BY MarkFits, MarksFit
  <2>2. /\ Entitled("enable", [twoFactor |-> TRUE, code |-> FALSE])
        /\ Entitled("expire", [code |-> FALSE])
    BY DEF Entitled, Deciders
  <2> QED BY <1>2, <2>1, <2>2, HandlesKeeps DEF EnableTwoFactor
<1>3. CASE DisableTwoFactor(h)
  <2>1. Suits([twoFactor |-> FALSE, code |-> FALSE])
    BY MarksFit
  <2>2. Entitled("disable", [twoFactor |-> FALSE, code |-> FALSE])
    BY DEF Entitled, Deciders
  <2> QED BY <1>3, <2>1, <2>2, HandlesKeeps DEF DisableTwoFactor
<1>4. CASE ChangeMyPassword(h)
  <2>1. Suits([password |-> TRUE]) /\ Entitled("profile", [password |-> TRUE])
    BY MarkFits DEF Entitled, Deciders
  <2> QED BY <1>4, <2>1, HandlesKeeps DEF ChangeMyPassword
<1>5. ASSUME NEW e \in Emails, UpdateMyProfile(h, e) PROVE AcInv'
  <2>1. Suits([email |-> e]) /\ Entitled("profile", [email |-> e])
    BY DEF Suits, UserFields, Marks, Entitled, Deciders
  <2> QED BY <1>5, <2>1, HandlesKeeps DEF UpdateMyProfile
<1>6. CASE Dismiss(h)
  BY <1>6, HandlerFinishes DEF Dismiss
<1> QED BY <1>1, <1>2, <1>3, <1>4, <1>5, <1>6, AuthenticateKeeps DEF Manage

-----------------------------------------------------------------------------
(* Administration *)

LEMMA SetEmailKeeps ==
  ASSUME AcInv, NEW h \in Handlers, NEW u \in Accounts, NEW e \in Emails, SetEmail(h, u, e)
  PROVE  AcInv'
<1> DEFINE request == [op |-> "update", pc |-> "address", ref |-> u, sets |-> [email |-> e]]
           w == Over(request, Idle)
<1>1. Begins(h, request) /\ KeepBooks
  BY DEF SetEmail
<1>2. /\ DOMAIN w = DOMAIN Idle /\ w.op = "update" /\ w.pc = "address" /\ w.ref = u
      /\ w.sets = [email |-> e]
  BY DEF Over, Idle
<1> HIDE DEF w, request
<1>3. IsHandler(w)
  BY <1>2 DEF IsHandler
<1> QED BY <1>1, <1>2, <1>3, HandlerBegins DEF w

LEMMA CheckEmailKeeps ==
  ASSUME AcInv, NEW h \in Handlers, CheckEmail(h)
  PROVE  AcInv'
<1> DEFINE v == serving[h]
           change == [pc |-> "save"]
           w == Over(change, v)
<1>1. /\ v.pc = "address" /\ v.op = "update" /\ KeepBooks /\ UNCHANGED begun
      /\ Finishes(h) \/ Continues(h, change)
  BY DEF CheckEmail, At
<1>2. IsHandler(v) /\ v.ref \in Accounts
  BY <1>1 DEF AcInv, HandlersOK, HasAccount
<1> HIDE DEF v
<1>3. /\ DOMAIN w = DOMAIN Idle /\ w.op = v.op /\ w.pc = "save" /\ w.ref = v.ref
      /\ w.sets = v.sets
  BY <1>2 DEF Over, Idle, IsHandler
<1>4. Suits(v.sets) /\ Entitled("update", v.sets)
  BY <1>1, <1>2 DEF IsHandler, Suits, UserFields, Marks, Entitled, Deciders
<1> HIDE DEF w, change
<1>5. IsHandler(w)
  BY <1>1, <1>3, <1>4 DEF IsHandler
<1> QED BY <1>1, <1>2, <1>3, <1>5, HandlerFinishes, HandlerContinues DEF w, v

LEMMA ChangeUserGroupKeeps ==
  ASSUME AcInv, NEW h \in Handlers, NEW u \in Accounts, NEW g \in Groups,
         ChangeUserGroup(h, u, g)
  PROVE  AcInv'
<1> DEFINE sets == [group |-> g]
           dirty == Dirty(user[u], sets, {})
           request == [op |-> "move", pc |-> "active", ref |-> u, arg |-> g, sets |-> dirty]
           w == Over(request, Idle)
<1>1. Begins(h, request) /\ KeepBooks
  BY DEF ChangeUserGroup
<1>2. Suits(sets) /\ Entitled("move", sets)
  BY DEF Suits, UserFields, Marks, Entitled, Deciders
<1> HIDE DEF sets
<1>3. Suits(dirty) /\ Entitled("move", dirty)
  BY <1>2, DirtyFits
<1> HIDE DEF dirty
<1>4. /\ DOMAIN w = DOMAIN Idle /\ w.op = "move" /\ w.pc = "active" /\ w.ref = u
      /\ w.sets = dirty
  BY DEF Over, Idle
<1> HIDE DEF w, request
<1>5. IsHandler(w)
  BY <1>3, <1>4 DEF IsHandler
<1> QED BY <1>1, <1>4, <1>5, HandlerBegins DEF w

LEMMA CheckActiveKeeps ==
  ASSUME AcInv, NEW h \in Handlers, CheckActive(h)
  PROVE  AcInv'
<1> DEFINE v == serving[h]
           change == [pc |-> "save"]
           w == Over(change, v)
<1>1. /\ v.pc = "active" /\ KeepBooks /\ UNCHANGED begun
      /\ Finishes(h) \/ Continues(h, change)
  BY DEF CheckActive, At
<1>2. IsHandler(v) /\ v.ref \in Accounts
  BY <1>1 DEF AcInv, HandlersOK, HasAccount
<1> HIDE DEF v
<1>3. /\ DOMAIN w = DOMAIN Idle /\ w.op = v.op /\ w.pc = "save" /\ w.ref = v.ref
      /\ w.sets = v.sets
  BY <1>2 DEF Over, Idle, IsHandler
<1> HIDE DEF w, change
<1>4. IsHandler(w)
  BY <1>1, <1>2, <1>3 DEF IsHandler
<1> QED BY <1>1, <1>2, <1>3, <1>4, HandlerFinishes, HandlerContinues DEF w, v

LEMMA AdministerKeeps ==
  ASSUME AcInv, NEW h \in Handlers, Administer(h)
  PROVE  AcInv'
<1>1. ASSUME NEW u \in Accounts, ApproveUser(h, u) PROVE AcInv'
  <2> DEFINE sets == [status |-> "ACTIVE", verified |-> TRUE, approved |-> TRUE,
                      rejected |-> FALSE, link |-> FALSE]
  <2>1. Suits(sets)
    BY ApprovalFits DEF Statuses
  <2>2. Entitled("approve", sets)
    BY DEF Entitled, Deciders
  <2> QED BY <1>1, <2>1, <2>2, EditsKeeps DEF ApproveUser
<1>2. ASSUME NEW u \in Accounts, RejectUser(h, u) PROVE AcInv'
  <2> DEFINE sets == [status |-> "REJECTED", rejected |-> TRUE, approved |-> FALSE]
  <2>1. Suits(sets)
    BY StatusFits DEF Statuses
  <2>2. Entitled("reject", sets)
    BY DEF Entitled, Deciders
  <2> QED BY <1>2, <2>1, <2>2, EditsKeeps DEF RejectUser
<1>3. ASSUME NEW u \in Accounts, NEW status \in Statuses, SetStatus(h, u, status) PROVE AcInv'
  <2>1. /\ Suits([status |-> status, verified |-> TRUE, link |-> FALSE])
        /\ Suits([status |-> status])
    BY StatusFits
  <2>2. /\ Entitled("update", [status |-> status, verified |-> TRUE, link |-> FALSE])
        /\ Entitled("update", [status |-> status])
    BY DEF Entitled, Deciders
  <2> QED BY <1>3, <2>1, <2>2, EditsKeeps DEF SetStatus
<1>4. ASSUME NEW u \in Accounts, NEW b \in BOOLEAN, SetVerified(h, u, b) PROVE AcInv'
  <2>1. Suits([verified |-> b])
    BY MarkFits
  <2>2. Entitled("update", [verified |-> b])
    BY DEF Entitled, Deciders
  <2> QED BY <1>4, <2>1, <2>2, EditsKeeps DEF SetVerified
<1>5. ASSUME NEW u \in Accounts, NEW g \in Groups, SetGroup(h, u, g) PROVE AcInv'
  <2>1. Suits([group |-> g]) /\ Entitled("update", [group |-> g])
    BY DEF Suits, UserFields, Marks, Entitled, Deciders
  <2> QED BY <1>5, <2>1, EditsKeeps DEF SetGroup
<1>6. ASSUME NEW u \in Accounts, DeleteUser(h, u) PROVE AcInv'
  <2>1. Suits([deleted |-> TRUE, status |-> "REJECTED"])
    BY StatusFits DEF Statuses
  <2>2. Entitled("delete", [deleted |-> TRUE, status |-> "REJECTED"])
    BY DEF Entitled, Deciders
  <2> QED BY <1>6, <2>1, <2>2, EditsKeeps DEF DeleteUser
<1>7. ASSUME NEW u \in Accounts, RestoreUser(h, u) PROVE AcInv'
  <2>1. Suits([deleted |-> FALSE, status |-> "ACTIVE"])
    BY StatusFits DEF Statuses
  <2>2. Entitled("restore", [deleted |-> FALSE, status |-> "ACTIVE"])
    BY DEF Entitled, Deciders
  <2> QED BY <1>7, <2>1, <2>2, EditsKeeps DEF RestoreUser
<1>8. ASSUME NEW u \in Accounts, NEW role \in Roles, UpdateUserRole(h, u, role) PROVE AcInv'
  <2>1. Suits([role |-> role]) /\ Entitled("role", [role |-> role])
    BY DEF Suits, UserFields, Marks, Entitled, Deciders
  <2> QED BY <1>8, <2>1, EditsKeeps DEF UpdateUserRole
<1>9. ASSUME NEW u \in Accounts, ResetUserPassword(h, u) PROVE AcInv'
  <2>1. Suits([password |-> TRUE]) /\ Entitled("password", [password |-> TRUE])
    BY MarkFits DEF Entitled, Deciders
  <2> QED BY <1>9, <2>1, EditsKeeps DEF ResetUserPassword
<1>10. ASSUME NEW u \in Accounts, NEW limit \in {0, 1}, UpdateUserCreditLimit(h, u, limit)
       PROVE  AcInv'
  <2>1. Suits([limit |-> limit]) /\ Entitled("limit", [limit |-> limit])
    BY DEF Suits, UserFields, Marks, Entitled, Deciders
  <2> QED BY <1>10, <2>1, EditsKeeps DEF UpdateUserCreditLimit
<1> QED BY <1>1, <1>2, <1>3, <1>4, <1>5, <1>6, <1>7, <1>8, <1>9, <1>10, SetEmailKeeps,
           CheckEmailKeeps, ChangeUserGroupKeeps, CheckActiveKeeps DEF Administer

LEMMA EditsGroupKeeps ==
  ASSUME AcInv, NEW h \in Handlers, NEW g \in Groups, NEW sets, FitsGroup(sets),
         EditsGroup(h, g, sets)
  PROVE  AcInv'
<1> DEFINE dirty == Dirty(group[g], sets, {})
           request == [op |-> "group", pc |-> "saveGroup", ref |-> g, sets |-> dirty]
           w == Over(request, Idle)
<1>1. Begins(h, request) /\ KeepBooks
  BY DEF EditsGroup
<1>2. FitsGroup(dirty)
  BY DirtyFits
<1> HIDE DEF dirty
<1>3. DOMAIN w = DOMAIN Idle /\ w.pc = "saveGroup" /\ w.ref = g /\ w.sets = dirty
  BY DEF Over, Idle
<1> HIDE DEF w, request
<1>4. IsHandler(w) /\ ~HasAccount(w)
  BY <1>2, <1>3 DEF IsHandler, HasAccount
<1> QED BY <1>1, <1>4, HandlerBegins DEF w

LEMMA SaveGroupKeeps ==
  ASSUME AcInv, NEW h \in Handlers, SaveGroup(h)
  PROVE  AcInv'
<1> DEFINE v == serving[h]
           doc == Over(v.sets, group[v.ref])
<1>1. /\ v.pc = "saveGroup" /\ group' = [group EXCEPT ![v.ref] = doc]
      /\ serving' = [serving EXCEPT ![h] = Idle] /\ UNCHANGED <<user, tokens, challenged, begun>>
  BY DEF SaveGroup, At, Finishes
<1>2. v.ref \in Groups /\ FitsGroup(v.sets)
  BY <1>1 DEF AcInv, HandlersOK, IsHandler
<1>3. doc \in GroupDocs
  BY <1>2, OverFitsGroup DEF AcInv, UsersOK
<1> HIDE DEF doc, v
<1>4. group' \in [Groups -> GroupDocs]
  BY <1>1, <1>3 DEF AcInv, UsersOK
<1>5. Accounts' = Accounts /\ OneAccountPerAddress'
  BY <1>1 DEF Accounts, OneAccountPerAddress, AcInv
<1>6. UsersOK'
  BY <1>1, <1>4, <1>5 DEF AcInv, UsersOK
<1>7. HandlersOK'
  BY <1>1, <1>5, IdleIsHandler DEF AcInv, HandlersOK
<1> QED BY <1>5, <1>6, <1>7 DEF AcInv

LEMMA ArrangeKeeps ==
  ASSUME AcInv, NEW h \in Handlers, Arrange(h)
  PROVE  AcInv'
<1>1. ASSUME NEW g \in Groups, DeleteGroup(h, g) PROVE AcInv'
  <2>1. FitsGroup([deleted |-> TRUE, active |-> FALSE])
    BY MarksFit
  <2> QED BY <1>1, <2>1, EditsGroupKeeps DEF DeleteGroup
<1>2. ASSUME NEW g \in Groups, NEW p \in Percentages, UpdateGroupPercentage(h, g, p)
      PROVE  AcInv'
  <2>1. FitsGroup([percentage |-> p])
    BY DEF FitsGroup
  <2> QED BY <1>2, <2>1, EditsGroupKeeps DEF UpdateGroupPercentage
<1>3. ASSUME NEW g \in Groups, NEW b \in BOOLEAN, SwitchGroup(h, g, b) PROVE AcInv'
  <2>1. FitsGroup([active |-> b])
    BY MarkFits
  <2> QED BY <1>3, <2>1, EditsGroupKeeps DEF SwitchGroup
<1> QED BY <1>1, <1>2, <1>3, SaveGroupKeeps DEF Arrange

-----------------------------------------------------------------------------
(* The accounts there are, every step, and the theorems *)

LEMMA MemberIsAccount ==
  ASSUME NEW e \in Emails, NEW g \in Groups
  PROVE  Newcomer(e, g) \in UserDocs /\ Member(e, g) \in UserDocs
<1> DEFINE w == [op |-> "register", sets |-> [email |-> e], arg |-> g]
           sets == [verified |-> TRUE, link |-> FALSE, approved |-> TRUE]
<1>1. w.sets["email"] \in Emails /\ w.arg \in Groups
  OBVIOUS
<1> HIDE DEF w
<1>2. NewUser(w) \in UserDocs
  BY <1>1, NewUserFits
<1>3. Newcomer(e, g) \in UserDocs
  BY <1>2 DEF Newcomer, w
<1>4. \A x, y \in BOOLEAN : Suits([verified |-> x, link |-> y, approved |-> x])
  BY DEF Suits, UserFields, Marks
<1>5. Suits(sets)
  BY <1>4
<1> HIDE DEF sets
<1>6. Over(sets, Newcomer(e, g)) \in UserDocs
  BY <1>3, <1>5, OverFits
<1> QED BY <1>3, <1>6 DEF Member, sets

LEMMA KnownAreAccounts ==
  ASSUME NEW e \in Emails, NEW g \in Groups, NEW doc \in Known(e, g)
  PROVE  doc \in UserDocs
<1>1. CASE doc = Newcomer(e, g)
  BY <1>1, MemberIsAccount
<1>2. CASE doc = NewUser([op |-> "google", sets |-> [email |-> e], arg |-> g])
  <2> DEFINE w == [op |-> "google", sets |-> [email |-> e], arg |-> g]
  <2>1. w.sets["email"] \in Emails /\ w.arg \in Groups /\ doc = NewUser(w)
    BY <1>2
  <2> HIDE DEF w
  <2> QED BY <2>1, NewUserFits
<1>3. ASSUME NEW b \in BOOLEAN, NEW c \in BOOLEAN,
             doc = Over([twoFactor |-> b, code |-> c], Member(e, g))
      PROVE  doc \in UserDocs
  BY <1>3, MarksFit, MemberIsAccount, OverFits
<1>4. ASSUME NEW d \in BOOLEAN,
             doc = Over([status |-> "REJECTED", approved |-> FALSE, rejected |-> ~d,
                         deleted |-> d], Member(e, g))
      PROVE  doc \in UserDocs
  <2> DEFINE sets == [status |-> "REJECTED", approved |-> FALSE, rejected |-> ~d, deleted |-> d]
  <2>1. \A status \in Statuses, x, y, z \in BOOLEAN :
          Suits([status |-> status, approved |-> x, rejected |-> y, deleted |-> z])
    BY DEF Suits, UserFields, Marks
  <2>2. "REJECTED" \in Statuses /\ (~d) \in BOOLEAN
    BY DEF Statuses
  <2>3. Suits(sets)
    BY <2>1, <2>2
  <2>4. doc = Over(sets, Member(e, g))
    BY <1>4
  <2> HIDE DEF sets
  <2> QED BY <2>3, <2>4, MemberIsAccount, OverFits
<1>5. \/ doc = Newcomer(e, g)
      \/ doc = NewUser([op |-> "google", sets |-> [email |-> e], arg |-> g])
      \/ \E b, c \in BOOLEAN : doc = Over([twoFactor |-> b, code |-> c], Member(e, g))
      \/ \E d \in BOOLEAN :
           doc = Over([status |-> "REJECTED", approved |-> FALSE, rejected |-> ~d, deleted |-> d],
                      Member(e, g))
  BY DEF Known
<1> QED BY <1>1, <1>2, <1>3, <1>4, <1>5

LEMMA AccountsInitKeeps == AccountsInit => AcInv
<1> SUFFICES ASSUME AccountsInit PROVE AcInv
  OBVIOUS
<1>1. /\ OneAccountPerAddress /\ begun = 0 /\ serving = [h \in Handlers |-> Idle]
      /\ tokens \subseteq Accounts /\ challenged \subseteq Accounts
      /\ group \in [Groups -> GroupDocs]
  BY DEF AccountsInit
<1>2. user \in [Users -> UserDocs \cup {Absent}]
  <2>1. PICK g \in Groups, e \in Emails, v \in Users :
          \E doc \in {Absent} \cup Known(e, g),
             other \in {Absent} \cup {Member(f, g) : f \in Emails \ {e}} :
            user = [u \in Users |-> IF u = v THEN doc ELSE other]
    BY Zenon DEF AccountsInit
  <2>2. PICK doc \in {Absent} \cup Known(e, g),
             other \in {Absent} \cup {Member(f, g) : f \in Emails \ {e}} :
          user = [u \in Users |-> IF u = v THEN doc ELSE other]
    BY <2>1
  <2>3. doc \in UserDocs \cup {Absent}
    BY KnownAreAccounts
  <2>4. other \in UserDocs \cup {Absent}
    BY MemberIsAccount
  <2> QED BY <2>2, <2>3, <2>4
<1>3. begun \in 0..MaxBegun
  BY <1>1, AccountBounds
<1>4. HandlersOK
  BY <1>1, IdleIsHandler DEF HandlersOK
<1> QED BY <1>1, <1>2, <1>3, <1>4 DEF AcInv, UsersOK

LEMMA AccountsNextKeeps == AcInv /\ [AccountsNext]_accountVars => AcInv'
<1> SUFFICES ASSUME AcInv, [AccountsNext]_accountVars PROVE AcInv'
  OBVIOUS
<1>1. CASE UNCHANGED accountVars
  <2>1. UNCHANGED <<user, group, tokens, challenged, serving, begun>>
    BY <1>1 DEF accountVars
  <2>2. Accounts' = Accounts
    BY <2>1 DEF Accounts
  <2> QED BY <2>1, <2>2 DEF AcInv, UsersOK, HandlersOK, OneAccountPerAddress
<1>2. CASE AccountsNext
  BY <1>2, EnterKeeps, ManageKeeps, AdministerKeeps, ArrangeKeeps DEF AccountsNext
<1> QED BY <1>1, <1>2

LEMMA AccountsInvariant == AccountsSpec => []AcInv
BY AccountsInitKeeps, AccountsNextKeeps, PTL DEF AccountsSpec

\* Every variable of the accounts keeps to its values, whatever overlaps: a save
\* writes what an earlier read assigned over whatever is stored by then.
THEOREM AccountTypesHold == AccountsSpec => []AccountsTypeOK
<1>1. AcInv => AccountsTypeOK
  BY DEF AcInv, UsersOK, HandlersOK, Accounts, AccountsTypeOK
<1> QED BY <1>1, AccountsInvariant, PTL

\* No two accounts share an address or a Google identity, however registrations,
\* Google sign-ins and changes of address overlap.
THEOREM AddressesAreUnique == AccountsSpec => []OneAccountPerAddress
<1>1. AcInv => OneAccountPerAddress
  BY DEF AcInv
<1> QED BY <1>1, AccountsInvariant, PTL

-----------------------------------------------------------------------------
(* Decisions *)

\* The steps that write no account.
LEMMA OthersKeepUsers ==
  ASSUME NEW h \in Handlers, Enter(h) \/ Manage(h) \/ Administer(h) \/ Arrange(h),
         ~Save(h), \A u \in Users : ~InsertUser(h, u)
  PROVE  user' = user
<1>1. CASE Enter(h)
  BY <1>1 DEF Enter, Register, GoogleSignIn, PickGroup, VerifyEmail, ResendVerification, Login,
     ConfirmLogin, LinkGoogle, IssueToken, Edits, KeepBooks
<1>2. CASE Manage(h)
  BY <1>2 DEF Manage, Authenticate, RequestCode, DisableTwoFactor, ChangeMyPassword, Dismiss,
     EnableTwoFactor, UpdateMyProfile, Handles, KeepBooks
<1>3. CASE Administer(h)
  BY <1>3 DEF Administer, ApproveUser, RejectUser, DeleteUser, RestoreUser, ResetUserPassword,
     SetStatus, SetVerified, SetEmail, UpdateUserRole, UpdateUserCreditLimit, SetGroup,
     ChangeUserGroup, CheckEmail, CheckActive, Edits, KeepBooks
<1>4. CASE Arrange(h)
  BY <1>4 DEF Arrange, DeleteGroup, UpdateGroupPercentage, SwitchGroup, SaveGroup, EditsGroup,
     KeepBooks
<1> QED BY <1>1, <1>2, <1>3, <1>4

\* A field that changes was written by a handler that is entitled to it.
LEMMA SaveDecides ==
  ASSUME AcInv, NEW h \in Handlers, Save(h), NEW u \in Accounts, NEW f \in DOMAIN Deciders,
         user'[u][f] # user[u][f]
  PROVE  serving[h].op \in Deciders[f] /\ serving[h].ref = u /\ serving'[h] # serving[h]
<1> DEFINE v == serving[h]
           doc == Over(v.sets, user[v.ref])
<1>1. /\ v.pc = "save"
      /\ user' = IF Taken(v.ref, v.sets) THEN user ELSE [user EXCEPT ![v.ref] = doc]
      /\ \/ serving' = [serving EXCEPT ![h] = Idle]
         \/ serving' = [serving EXCEPT ![h] = Over([pc |-> "token"], v)]
  BY DEF Save, At, Finishes, Continues
<1>2. /\ DOMAIN v = DOMAIN Idle /\ Suits(v.sets) /\ Entitled(v.op, v.sets)
      /\ v.ref \in Users /\ user[v.ref] \in UserDocs /\ DOMAIN serving = Handlers
      /\ user \in [Users -> UserDocs \cup {Absent}] /\ u \in Users
  BY <1>1 DEF AcInv, HandlersOK, UsersOK, IsHandler, HasAccount, Accounts
<1>3. f \in UserFields
  BY DEF Deciders, UserFields
<1>4. doc[f] = IF f \in DOMAIN v.sets THEN v.sets[f] ELSE user[v.ref][f]
  BY <1>2, <1>3, OverFits
<1>5. Idle.pc # "save" /\ Over([pc |-> "token"], v).pc # "save"
  BY <1>2 DEF Idle, Over
<1> HIDE DEF doc
<1>6. u = v.ref /\ f \in DOMAIN v.sets
  BY <1>1, <1>2, <1>4
<1>7. v.op \in Deciders[f]
  BY <1>2, <1>6 DEF Entitled
<1>8. serving'[h] # v
  BY <1>1, <1>2, <1>5
<1> QED BY <1>6, <1>7, <1>8

\* What was decided about an account (its status, verification, deletion, group,
\* role, second factor, address) changes only by a save of a handler that decides
\* about it, at work on that account: a save writes the fields that its handler
\* assigned, so that no stale read puts an older decision back.
THEOREM DecisionsAreKept == AccountsSpec => DecisionsHold
<1> DEFINE Decided ==
      \A u \in Accounts : \A f \in DOMAIN Deciders :
        user'[u][f] # user[u][f]
          => \E h \in Handlers : serving[h].op \in Deciders[f] /\ serving[h].ref = u
                                 /\ serving'[h] # serving[h]
<1>1. ASSUME AcInv, [AccountsNext]_accountVars PROVE Decided
  <2> SUFFICES ASSUME NEW u \in Accounts, NEW f \in DOMAIN Deciders,
                      user'[u][f] # user[u][f]
               PROVE  \E h \in Handlers : /\ serving[h].op \in Deciders[f]
                                          /\ serving[h].ref = u /\ serving'[h] # serving[h]
    OBVIOUS
  <2>1. user' # user
    OBVIOUS
  <2>2. PICK h \in Handlers : Enter(h) \/ Manage(h) \/ Administer(h) \/ Arrange(h)
    BY <1>1, <2>1 DEF AccountsNext, accountVars
  <2>3. CASE Save(h)
    BY <1>1, <2>3, SaveDecides
  <2>4. ASSUME NEW x \in Users, InsertUser(h, x) PROVE FALSE
    <3>1. x \notin Accounts /\ (user' = user \/ user' = [user EXCEPT ![x] = NewUser(serving[h])])
      BY <2>4 DEF InsertUser
    <3>2. user'[u] = user[u]
      BY <1>1, <3>1 DEF AcInv, UsersOK, Accounts
    <3> QED BY <3>2
  <2> QED BY <2>1, <2>2, <2>3, <2>4, OthersKeepUsers
<1>2. AcInv /\ [AccountsNext]_accountVars => [Decided]_accountVars
  BY <1>1
<1> HIDE DEF Decided
<1>3. AccountsSpec => [][Decided]_accountVars
  BY <1>2, AccountsInvariant, PTL DEF AccountsSpec
<1> QED BY <1>3 DEF Decided, DecisionsHold

=============================================================================
