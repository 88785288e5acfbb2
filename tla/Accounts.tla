------------------------------ MODULE Accounts ------------------------------
(***************************************************************************)
(* Customer accounts: registration, e-mail verification, Google sign-in,   *)
(* login with and without a mailed code, the account's own settings, and   *)
(* what administrators do to accounts and pricing groups.  A handler reads *)
(* a document and saves it later, other handlers in between; Mongoose      *)
(* writes the fields that the handler changed.  A link or a code is the    *)
(* one stored last or none: an earlier one finds or matches nothing, which *)
(* changes nothing.  Refused requests, mails and audit rows are left out,  *)
(* and so are the fields that nothing here depends on.                     *)
(***************************************************************************)
EXTENDS Integers

CONSTANTS
  Handlers,     \* requests at work at once
  Users,        \* account documents there is room for
  Emails,       \* addresses; a Google identity is named by its address
  Groups,       \* group documents
  Percentages,  \* markups of groups
  MaxBegun,     \* bound on the requests of a behaviour
  Absent

ASSUME PercentagesAssumption == Percentages \subseteq Nat
ASSUME AccountBounds == MaxBegun \in Nat

VARIABLES
  user,        \* the accounts, Absent where there is none
  group,       \* the pricing groups
  tokens,      \* accounts whose holder has a session token
  challenged,  \* accounts whose holder has a token of a login that awaits its code
  serving,     \* the handlers
  begun        \* how many have begun

accountVars == <<user, group, tokens, challenged, serving, begun>>

-----------------------------------------------------------------------------
Statuses == {"PENDING", "ACTIVE", "REJECTED"}
Roles == {"ADMIN", "SUPERVISOR", "CUSTOMER"}

\* approved and rejected: approvedBy and rejectedBy are set.  link and code:
\* emailVerificationToken and twoFactorOtp are set.
UserDocs == [email: Emails, google: Emails \cup {Absent}, password: BOOLEAN, verified: BOOLEAN,
             link: BOOLEAN, role: Roles, status: Statuses, approved: BOOLEAN, rejected: BOOLEAN,
             group: Groups, limit: {0, 1}, twoFactor: BOOLEAN, code: BOOLEAN, deleted: BOOLEAN]

GroupDocs == [percentage: Percentages, active: BOOLEAN, deleted: BOOLEAN]

ASSUME AbsentAssumption == Absent \notin UserDocs

Accounts == {u \in Users : user[u] # Absent}

\* A record with the fields of another written over its own.
Over(sets, doc) == [f \in DOMAIN doc |-> IF f \in DOMAIN sets THEN sets[f] ELSE doc[f]]

Idle == [op |-> "none", pc |-> "none", ref |-> Absent, arg |-> Absent, sets |-> << >>]

Begins(h, request) ==
  /\ serving[h] = Idle /\ begun < MaxBegun
  /\ serving' = [serving EXCEPT ![h] = Over(request, Idle)]
  /\ begun' = begun + 1

At(h, pc) == serving[h].pc = pc
Continues(h, change) == serving' = [serving EXCEPT ![h] = Over(change, @)]
Finishes(h) == serving' = [serving EXCEPT ![h] = Idle]
KeepBooks == UNCHANGED <<user, group, tokens, challenged>>

\* Mutant: the document is written as the handler has it.
Whole(doc, sets, unread) == Over(sets, doc)

\* The fields that a save writes: what was assigned and differs from what was
\* read, or was not read (select: false).
Dirty(doc, sets, unread) ==
  [f \in {g \in DOMAIN sets : g \in unread \/ sets[g] # doc[g]} |-> sets[f]]

\* A handler has read the account and assigned its fields.
Edits(h, op, u, sets, unread) ==
  /\ Begins(h, [op |-> op, pc |-> "save", ref |-> u, sets |-> Dirty(user[u], sets, unread)])
  /\ KeepBooks

\* Mutant: addresses without a unique index.
TakenByGoogle(u, sets) ==
  \E v \in Accounts \ {u} : "google" \in DOMAIN sets /\ user[v].google = sets.google

\* The unique indexes.
Taken(u, sets) ==
  \E v \in Accounts \ {u} :
    \/ "email" \in DOMAIN sets /\ user[v].email = sets.email
    \/ "google" \in DOMAIN sets /\ sets.google # Absent /\ user[v].google = sets.google

-----------------------------------------------------------------------------
(* Saving, and what follows *)

\* What is left to do after the save of this operation.
AfterSave(op) == IF op \in {"confirm", "google"} THEN "token" ELSE "none"

Save(h) ==
  /\ At(h, "save")
  /\ LET w == serving[h]
         refused == Taken(w.ref, w.sets)
     IN /\ user' = IF refused THEN user ELSE [user EXCEPT ![w.ref] = Over(w.sets, @)]
        /\ challenged' = IF w.op = "login" THEN challenged \cup {w.ref} ELSE challenged
        /\ IF refused \/ AfterSave(w.op) = "none"
             THEN Finishes(h) ELSE Continues(h, [pc |-> "token"])
  /\ UNCHANGED <<group, tokens, begun>>

\* signToken; arg is FALSE for a Google account that may not enter.
IssueToken(h) ==
  /\ At(h, "token")
  /\ tokens' = IF serving[h].arg THEN tokens \cup {serving[h].ref} ELSE tokens
  /\ Finishes(h)
  /\ UNCHANGED <<user, group, challenged, begun>>

-----------------------------------------------------------------------------
(* Getting in *)

Register(h, e) ==
  /\ \A u \in Accounts : user[u].email # e
  /\ Begins(h, [op |-> "register", pc |-> "group", sets |-> [email |-> e]])
  /\ KeepBooks

\* getHighestPercentageGroup: active ones, deleted or not.
PickGroup(h, g) ==
  /\ At(h, "group")
  /\ LET actives == {k \in Groups : group[k].active}
     IN IF actives = {} THEN Finishes(h)
        ELSE /\ g \in actives
             /\ \A k \in actives : group[k].percentage <= group[g].percentage
             /\ Continues(h, [pc |-> "insert", arg |-> g])
  /\ KeepBooks /\ UNCHANGED begun

\* Registered by password: a link is mailed.  Through Google: verified.
NewUser(w) ==
  LET byGoogle == w.op = "google"
  IN [email |-> w.sets.email, google |-> IF byGoogle THEN w.sets.email ELSE Absent,
      password |-> ~byGoogle, verified |-> byGoogle, link |-> ~byGoogle, role |-> "CUSTOMER",
      status |-> "ACTIVE", approved |-> FALSE, rejected |-> FALSE, group |-> w.arg, limit |-> 0,
      twoFactor |-> FALSE, code |-> FALSE, deleted |-> FALSE]

InsertUser(h, u) ==
  /\ At(h, "insert") /\ u \notin Accounts
  /\ LET w == serving[h]
     IN IF Taken(u, NewUser(w))
          THEN Finishes(h) /\ UNCHANGED user
          ELSE /\ user' = [user EXCEPT ![u] = NewUser(w)]
               /\ IF w.op = "google"
                    THEN Continues(h, [pc |-> "token", ref |-> u, arg |-> TRUE])
                    ELSE Finishes(h)
  /\ UNCHANGED <<group, tokens, challenged, begun>>

\* The holder opens the link mailed last, in time.
VerifyEmail(h, u) ==
  /\ user[u].link
  /\ Edits(h, "verify", u, [verified |-> TRUE, link |-> FALSE], {})

ResendVerification(h, u) ==
  /\ ~user[u].verified
  /\ Edits(h, "resend", u, [link |-> TRUE], {"link"})

MayEnter(doc) == doc.status = "ACTIVE"

\* With the right password.  The password is compared, a token signed or a code
\* stored, after the checks.
Login(h, u) ==
  /\ user[u].verified /\ MayEnter(user[u]) /\ user[u].password
  /\ IF user[u].twoFactor
       THEN Edits(h, "login", u, [code |-> TRUE], {"code"})
       ELSE /\ Begins(h, [op |-> "login", pc |-> "token", ref |-> u, arg |-> TRUE])
            /\ KeepBooks

\* The Google strategy: by Google identity, else by address, else a new account.
GoogleSignIn(h, e) ==
  /\ \/ \E u \in Accounts :
          /\ user[u].google = e
          /\ Begins(h, [op |-> "google", pc |-> "token", ref |-> u, arg |-> MayEnter(user[u])])
     \/ /\ \A u \in Accounts : user[u].google # e
        /\ Begins(h, [op |-> "google", pc |-> "address", sets |-> [email |-> e]])
  /\ KeepBooks

LinkGoogle(h) ==
  /\ At(h, "address") /\ serving[h].op = "google"
  /\ LET e == serving[h].sets.email
         found == {u \in Accounts : user[u].email = e}
     IN IF found = {} THEN Continues(h, [pc |-> "group"])
        ELSE \E u \in found :
               Continues(h, [pc |-> "save", ref |-> u, arg |-> MayEnter(user[u]),
                             sets |-> Dirty(user[u], [google |-> e, verified |-> TRUE], {})])
  /\ KeepBooks /\ UNCHANGED begun

\* verify2FA: the right code in time; without one, or too late, it is cleared.
ConfirmLogin(h, u, inTime) ==
  /\ u \in challenged /\ MayEnter(user[u]) /\ user[u].twoFactor
  /\ Begins(h, [op |-> IF user[u].code /\ inTime THEN "confirm" ELSE "expire", pc |-> "save",
                ref |-> u, arg |-> TRUE, sets |-> Dirty(user[u], [code |-> FALSE], {})])
  /\ KeepBooks

-----------------------------------------------------------------------------
(* The account's own settings, behind authenticate *)

Authenticate(h, u) ==
  /\ u \in tokens /\ MayEnter(user[u])
  /\ Begins(h, [op |-> "request", pc |-> "handle", ref |-> u])
  /\ KeepBooks

\* The handler reads the account again.
Handles(h, op, sets, unread) ==
  /\ At(h, "handle")
  /\ Continues(h, [op |-> op, pc |-> "save", sets |-> Dirty(user[serving[h].ref], sets, unread)])
  /\ KeepBooks /\ UNCHANGED begun

Own(h) == user[serving[h].ref]

RequestCode(h) ==
  /\ At(h, "handle") /\ ~Own(h).twoFactor
  /\ Handles(h, "generate", [code |-> TRUE], {"code"})

EnableTwoFactor(h, inTime) ==
  /\ At(h, "handle") /\ ~Own(h).twoFactor
  /\ IF Own(h).code /\ inTime
       THEN Handles(h, "enable", [twoFactor |-> TRUE, code |-> FALSE], {})
       ELSE Handles(h, "expire", [code |-> FALSE], {})

DisableTwoFactor(h) ==
  /\ At(h, "handle") /\ Own(h).twoFactor /\ Own(h).password
  /\ Handles(h, "disable", [twoFactor |-> FALSE, code |-> FALSE], {"code"})

UpdateMyProfile(h, e) == Handles(h, "profile", [email |-> e], {})
ChangeMyPassword(h) == Handles(h, "profile", [password |-> TRUE], {"password"})

\* The request is refused, or changes nothing here.
Dismiss(h) == At(h, "handle") /\ Finishes(h) /\ KeepBooks /\ UNCHANGED begun

-----------------------------------------------------------------------------
(* Administration of accounts *)

\* findByIdAndUpdate after the check: every field is written.
ApproveUser(h, u) ==
  /\ user[u].status # "ACTIVE"
  /\ Edits(h, "approve", u,
           [status |-> "ACTIVE", verified |-> TRUE, approved |-> TRUE, rejected |-> FALSE,
            link |-> FALSE],
           {"status", "verified", "approved", "rejected", "link"})

RejectUser(h, u) ==
  /\ user[u].status # "REJECTED"
  /\ Edits(h, "reject", u, [status |-> "REJECTED", rejected |-> TRUE, approved |-> FALSE],
           {"rejected"})

\* Activation overrides the verification.
SetStatus(h, u, status) ==
  IF status = "ACTIVE"
    THEN Edits(h, "update", u, [status |-> status, verified |-> TRUE, link |-> FALSE], {"link"})
    ELSE Edits(h, "update", u, [status |-> status], {})

SetVerified(h, u, verified) == Edits(h, "update", u, [verified |-> verified], {})
SetGroup(h, u, g) == Edits(h, "update", u, [group |-> g], {})

\* A new address is looked up first, excluding the account itself.
SetEmail(h, u, e) ==
  /\ user[u].email # e
  /\ Begins(h, [op |-> "update", pc |-> "address", ref |-> u, sets |-> [email |-> e]])
  /\ KeepBooks

CheckEmail(h) ==
  /\ At(h, "address") /\ serving[h].op = "update"
  /\ IF Taken(serving[h].ref, serving[h].sets)
       THEN Finishes(h) ELSE Continues(h, [pc |-> "save"])
  /\ KeepBooks /\ UNCHANGED begun

DeleteUser(h, u) ==
  /\ ~user[u].deleted /\ user[u].role # "ADMIN"
  /\ Edits(h, "delete", u, [deleted |-> TRUE, status |-> "REJECTED"], {})

RestoreUser(h, u) ==
  /\ user[u].deleted
  /\ Edits(h, "restore", u, [deleted |-> FALSE, status |-> "ACTIVE"], {})

\* By another administrator.
UpdateUserRole(h, u, role) == Edits(h, "role", u, [role |-> role], {})
ResetUserPassword(h, u) == Edits(h, "password", u, [password |-> TRUE], {"password"})
UpdateUserCreditLimit(h, u, limit) == Edits(h, "limit", u, [limit |-> limit], {})

\* changeUserGroup, and updateUser of the user service: the group must be active
\* when it is looked up.
ChangeUserGroup(h, u, g) ==
  /\ Begins(h, [op |-> "move", pc |-> "active", ref |-> u, arg |-> g,
                sets |-> Dirty(user[u], [group |-> g], {})])
  /\ KeepBooks

CheckActive(h) ==
  /\ At(h, "active")
  /\ IF group[serving[h].arg].active THEN Continues(h, [pc |-> "save"]) ELSE Finishes(h)
  /\ KeepBooks /\ UNCHANGED begun

-----------------------------------------------------------------------------
(* Pricing groups; their names are left out *)

EditsGroup(h, g, sets) ==
  /\ Begins(h, [op |-> "group", pc |-> "saveGroup", ref |-> g, sets |-> Dirty(group[g], sets, {})])
  /\ KeepBooks

UpdateGroupPercentage(h, g, percentage) == EditsGroup(h, g, [percentage |-> percentage])
SwitchGroup(h, g, active) == EditsGroup(h, g, [active |-> active])
DeleteGroup(h, g) ==
  ~group[g].deleted /\ EditsGroup(h, g, [deleted |-> TRUE, active |-> FALSE])

SaveGroup(h) ==
  /\ At(h, "saveGroup")
  /\ group' = [group EXCEPT ![serving[h].ref] = Over(serving[h].sets, @)]
  /\ Finishes(h)
  /\ UNCHANGED <<user, tokens, challenged, begun>>

-----------------------------------------------------------------------------
\* No two accounts share an address or a Google identity, however registrations,
\* Google sign-ins and changes of address overlap: each looks before it writes.
OneAccountPerAddress ==
  \A u, v \in Accounts :
    u # v => user[u].email # user[v].email
             /\ (user[u].google = Absent \/ user[u].google # user[v].google)

\* Accounts as they come: registered, in use with or without codes, rejected
\* after an approval, deleted.
Newcomer(e, g) == NewUser([op |-> "register", sets |-> [email |-> e], arg |-> g])
Member(e, g) == Over([verified |-> TRUE, link |-> FALSE, approved |-> TRUE], Newcomer(e, g))
Known(e, g) ==
  {Newcomer(e, g), NewUser([op |-> "google", sets |-> [email |-> e], arg |-> g])}
    \cup {Over([twoFactor |-> b, code |-> c], Member(e, g)) : b, c \in BOOLEAN}
    \cup {Over([status |-> "REJECTED", approved |-> FALSE, rejected |-> ~d, deleted |-> d],
              Member(e, g)) : d \in BOOLEAN}

AccountsInit ==
  /\ group \in [Groups -> GroupDocs]
  /\ \A g, k \in Groups : ~group[g].deleted /\ group[g].active = group[k].active
  /\ \E g \in Groups, e \in Emails, v \in Users :
       \E doc \in {Absent} \cup Known(e, g),
          other \in {Absent} \cup {Member(f, g) : f \in Emails \ {e}} :
         user = [u \in Users |-> IF u = v THEN doc ELSE other]
  /\ OneAccountPerAddress
  /\ tokens = {u \in Accounts : user[u].verified /\ ~user[u].code}
  /\ challenged = {u \in Accounts : user[u].twoFactor /\ user[u].code}
  /\ serving = [h \in Handlers |-> Idle] /\ begun = 0

Enter(h) ==
  \/ \E e \in Emails : Register(h, e) \/ GoogleSignIn(h, e)
  \/ \E u \in Users : InsertUser(h, u)
  \/ \E g \in Groups : PickGroup(h, g)
  \/ \E u \in Accounts : VerifyEmail(h, u) \/ ResendVerification(h, u) \/ Login(h, u)
  \/ \E u \in Accounts, b \in BOOLEAN : ConfirmLogin(h, u, b)
  \/ LinkGoogle(h) \/ Save(h) \/ IssueToken(h)

Manage(h) ==
  \/ \E u \in Accounts : Authenticate(h, u)
  \/ RequestCode(h) \/ DisableTwoFactor(h) \/ ChangeMyPassword(h) \/ Dismiss(h)
  \/ \E b \in BOOLEAN : EnableTwoFactor(h, b)
  \/ \E e \in Emails : UpdateMyProfile(h, e)

Administer(h) ==
  \/ \E u \in Accounts :
       \/ ApproveUser(h, u) \/ RejectUser(h, u) \/ DeleteUser(h, u) \/ RestoreUser(h, u)
       \/ ResetUserPassword(h, u)
       \/ \E status \in Statuses : SetStatus(h, u, status)
       \/ \E b \in BOOLEAN : SetVerified(h, u, b)
       \/ \E e \in Emails : SetEmail(h, u, e)
       \/ \E role \in Roles : UpdateUserRole(h, u, role)
       \/ \E limit \in {0, 1} : UpdateUserCreditLimit(h, u, limit)
       \/ \E g \in Groups : SetGroup(h, u, g) \/ ChangeUserGroup(h, u, g)
  \/ CheckEmail(h) \/ CheckActive(h)

Arrange(h) ==
  \/ \E g \in Groups :
       \/ DeleteGroup(h, g)
       \/ \E p \in Percentages : UpdateGroupPercentage(h, g, p)
       \/ \E b \in BOOLEAN : SwitchGroup(h, g, b)
  \/ SaveGroup(h)

AccountsNext == \E h \in Handlers : Enter(h) \/ Manage(h) \/ Administer(h) \/ Arrange(h)

AccountsSpec == AccountsInit /\ [][AccountsNext]_accountVars

-----------------------------------------------------------------------------
AccountsTypeOK ==
  /\ user \in [Users -> UserDocs \cup {Absent}]
  /\ group \in [Groups -> GroupDocs]
  /\ tokens \subseteq Users /\ challenged \subseteq Users
  /\ DOMAIN serving = Handlers /\ begun \in 0..MaxBegun

\* Who may decide about a field of an account.
Deciders ==
  [status |-> {"approve", "reject", "update", "delete", "restore"},
   verified |-> {"verify", "google", "approve", "update"},
   deleted |-> {"delete", "restore"}, group |-> {"move", "update"}, role |-> {"role"},
   twoFactor |-> {"enable", "disable"}, email |-> {"profile", "update"}]

\* What was decided about an account stands until a handler that decides about it
\* again: one that read the account earlier for another purpose does not undo it.
DecisionsHold ==
  [][\A u \in Accounts : \A f \in DOMAIN Deciders :
       user'[u][f] # user[u][f]
         => \E h \in Handlers : serving[h].op \in Deciders[f] /\ serving[h].ref = u
                                /\ serving'[h] # serving[h]]_accountVars

=============================================================================
