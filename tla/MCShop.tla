------------------------------- MODULE MCShop -------------------------------
(***************************************************************************)
(* The catalogue, the accounts, the notifier, the order form and the       *)
(* adapters in one run.  They share no state, so that one of them moves in *)
(* a behaviour and the others rest: interleaving them would add nothing to *)
(* properties that are about one.                                          *)
(***************************************************************************)
EXTENDS Catalog, Accounts, Notifier, OrderForm, AdapterAnswers, TLC

\* A fixed markup of nothing and a percentage that doubles the price.
MCMarkups == {[type |-> "fixed", value |-> 0], [type |-> "percentage", value |-> 100]}

\* Forms of two fields: a text that is required and any other, or an inactive
\* field and a text.
MCForms ==
  {[kind |-> "none", fields |-> <<>>]} \cup
  {[kind |-> kind, fields |-> <<[key |-> "a", also |-> also, type |-> "text", required |-> TRUE,
                                 active |-> TRUE], other>>] :
     kind \in {"formal", "dynamic"}, also \in {{}, {"c"}},
     other \in [key: {"b"}, also: {{}, {"a"}, {"c"}}, type: Types, required: BOOLEAN,
                active: {TRUE}]} \cup
  {[kind |-> "formal", fields |-> <<[key |-> "a", also |-> {"c"}, type |-> "number",
                                     required |-> FALSE, active |-> FALSE], other>>] :
     other \in [key: {"b"}, also: {{}, {"a"}, {"c"}}, type: {"text"}, required: BOOLEAN,
                active: {TRUE}]}

\* Nothing is renamed, two keys are exchanged, two share a parameter.
MCMappings ==
  {[n \in Names |-> n], [n \in Names |-> IF n = "a" THEN "b" ELSE IF n = "b" THEN "a" ELSE n],
   [n \in Names |-> "a"]}

VARIABLE part  \* the one that moves

Init ==
  /\ part \in {"catalog", "accounts", "notifier", "form", "suppliers"}
  /\ NotifierInit
  /\ IF part = "catalog"
       THEN CatalogInit
       ELSE /\ supply = [price |-> None, edition |-> 0]
            /\ provider = [there |-> FALSE, active |-> FALSE] /\ raw = None
            /\ product = [g \in Products |-> None]
            /\ lock = [p \in Processes |-> FALSE] /\ cached = [p \in Processes |-> None]
            /\ open = Processes /\ home = [s \in Staff |-> CHOOSE p \in Processes : TRUE]
            /\ work = [s \in Staff |-> Resting] /\ started = 0 /\ torn = FALSE
  /\ IF part = "accounts"
       THEN AccountsInit
       ELSE /\ user = [u \in Users |-> Absent]
            /\ group = [g \in Groups |-> Absent]
            /\ tokens = {} /\ challenged = {}
            /\ serving = [h \in Handlers |-> Idle] /\ begun = 0
  /\ IF part = "form"
       THEN FormInit
       ELSE /\ form = [kind |-> "none", fields |-> <<>>, mapping |-> CHOOSE m \in Mappings : TRUE]
            /\ asked = form /\ request = <<>> /\ entries = <<>>
            /\ stored = <<>> /\ sent = <<>> /\ stage = "filled"
  /\ IF part = "suppliers"
       THEN SuppliersInit
       ELSE /\ adapter = CHOOSE a \in Adapters : TRUE
            /\ sale = "none" /\ call = NoCall /\ result = Failure
            /\ order = NewOrder

Next ==
  /\ UNCHANGED part
  /\ \/ part = "catalog" /\ CatalogNext
        /\ UNCHANGED <<accountVars, notifierVars, formVars, supplierVars>>
     \/ part = "accounts" /\ AccountsNext
        /\ UNCHANGED <<catalogVars, notifierVars, formVars, supplierVars>>
     \/ part = "notifier" /\ NotifierNext
        /\ UNCHANGED <<catalogVars, accountVars, formVars, supplierVars>>
     \/ part = "form" /\ FormNext
        /\ UNCHANGED <<catalogVars, accountVars, notifierVars, supplierVars>>
     \/ part = "suppliers" /\ SuppliersNext
        /\ UNCHANGED <<catalogVars, accountVars, notifierVars, formVars>>

allVars == <<part, catalogVars, accountVars, notifierVars, formVars, supplierVars>>

Spec == Init /\ [][Next]_allVars

\* Every variable of the part that moves has a value of its kind.
ShopTypeOK ==
  /\ part = "catalog" => CatalogTypeOK
  /\ part = "accounts" => AccountsTypeOK
  /\ NotifierTypeOK
  /\ part = "form" => FormTypeOK
  /\ part = "suppliers" => SuppliersTypeOK

\* Nothing tells the members of these sets apart.  Handlers and Users have the same
\* members as Staff and Products, which are never in use at the same time.
Symmetry ==
  Permutations(Staff) \cup Permutations(Products) \cup Permutations(Emails)
    \cup Permutations(Groups)

ASSUME SharedSets == Handlers = Staff /\ Users = Products

=============================================================================
