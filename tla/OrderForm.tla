----------------------------- MODULE OrderForm ------------------------------
(***************************************************************************)
(* The fields of an order: what the customer fills in, under the names     *)
(* that the product's form has for its fields, is resolved to the fields'  *)
(* keys, checked and converted when the order is created, stored with it,  *)
(* and renamed to the provider's parameters when it is executed.  In       *)
(* between an administrator may change the product.  A reseller's request  *)
(* has its names resolved once before, by another rule.                    *)
(*                                                                         *)
(* Names are compared in lower case, so that one name of a form may be     *)
(* filled in twice, in two spellings.  Of a value only its kind counts:    *)
(* digits is a string of digits, number and zero are JSON numbers, mixed   *)
(* is a string that begins with digits, word one that satisfies a choice   *)
(* or a pattern.  Only 0 itself is zero.                                   *)
(***************************************************************************)
EXTENDS Naturals, Sequences, FiniteSetsExt

CONSTANTS
  Names,       \* names of fields and parameters, in lower case
  Forms,       \* the forms products have
  Mappings,    \* providerMapping: parameters of keys, those not named included
  MaxEntries   \* bound on what is filled in

Values == {"empty", "blank", "digits", "number", "zero", "mixed", "word"}
Types == {"text", "number", "choice"}

\* also: the label and the id.  formal: orderFields; dynamic: dynamicFields; none:
\* a product with neither.
Fields == [key: Names, also: SUBSET Names, type: Types, required: BOOLEAN, active: BOOLEAN]
FormKinds == {"formal", "dynamic", "none"}
Entries == [name: Names, value: Values]

ASSUME FormsAssumption ==
  \A form \in Forms :
    /\ form.kind \in FormKinds /\ form.fields \in Seq(Fields)
    /\ \A i, j \in DOMAIN form.fields : i # j => form.fields[i].key # form.fields[j].key
    /\ form.kind = "dynamic" => \A i \in DOMAIN form.fields : form.fields[i].active
ASSUME MappingsAssumption == Mappings \subseteq [Names -> Names] /\ Mappings # {}
ASSUME EntriesAssumption == MaxEntries \in Nat

VARIABLES
  form,      \* the form of the product and its mapping, as they are now
  asked,     \* history: the form when the order was created
  request,   \* what the customer or a reseller has filled in, in order
  entries,   \* the same as createOrder gets it
  stored,    \* order.customerInput.values: keys and values by their places
  sent,      \* the parameters of placeOrder
  stage      \* filled, resolved, refused, ordered, sent

formVars == <<form, asked, request, entries, stored, sent, stage>>

-----------------------------------------------------------------------------
(* Names *)

AllNames(field) == {field.key} \cup field.also

\* Mutant: only keys are recognised.
ClaimingByKey(fields, name) == {i \in DOMAIN fields : name = fields[i].key}

Claiming(fields, name) == {i \in DOMAIN fields : name \in AllNames(fields[i])}

\* The first field that claims a name has it, active or not.
KeyOf(fields, name) ==
  LET claiming == Claiming(fields, name)
  IN IF claiming = {} THEN name ELSE fields[Min(claiming)].key

\* The last entry for a key counts.
Answer(fields, key) ==
  LET given == {i \in DOMAIN entries : KeyOf(fields, entries[i].name) = key}
  IN IF given = {} THEN "empty" ELSE entries[Max(given)].value

-----------------------------------------------------------------------------
(* Values *)

\* validateOrderFields: parseFloat reads the digits that a string begins with, and
\* a text must be a string.
FitsFormal(type) ==
  CASE type = "text" -> {"digits", "mixed", "word"}
    [] type = "number" -> {"digits", "number", "zero", "mixed"}
    [] type = "choice" -> {"word"}

\* validateDynamicFieldsInput: Number makes 0 of blanks, and of digits and letters
\* no number; String makes a text of anything but 0, also for a select.
FitsDynamic(type) ==
  CASE type = "text" -> {"digits", "number", "mixed", "word"}
    [] type = "number" -> {"digits", "number", "zero", "blank"}
    [] type = "choice" -> {"word"}

Fits(kind, type) == IF kind = "formal" THEN FitsFormal(type) ELSE FitsDynamic(type)

Converted(type, value) ==
  CASE value = "empty" -> value
    [] value # "empty" /\ type = "number" -> IF value \in {"blank", "zero"} THEN "zero" ELSE "number"
    [] value # "empty" /\ type # "number" -> IF value = "number" THEN "digits" ELSE value

Wrong(kind, field, value) ==
  IF value = "empty" THEN field.required ELSE value \notin Fits(kind, field.type)

-----------------------------------------------------------------------------
(* The reseller interface resolves the names before createOrder does *)

\* normalizeFields: the last active field that claims a name has it.
ResellersKeyOf(fields, name) ==
  LET claiming == {i \in Claiming(fields, name) : fields[i].active}
  IN IF claiming = {} THEN name ELSE fields[Max(claiming)].key

ResolveForReseller ==
  /\ stage = "filled"
  /\ entries' = [i \in DOMAIN entries |-> [entries[i] EXCEPT !.name = ResellersKeyOf(form.fields, @)]]
  /\ stage' = "resolved"
  /\ UNCHANGED <<form, asked, request, stored, sent>>

-----------------------------------------------------------------------------
(* The order is created *)

Active(fields) == {i \in DOMAIN fields : fields[i].active}
Keys(fields) == {fields[i].key : i \in Active(fields)}

\* A name that no active field has, a required field left out, a value that does
\* not fit: no order.
Refused ==
  /\ form.kind # "none"
  /\ \/ \E i \in DOMAIN entries : KeyOf(form.fields, entries[i].name) \notin Keys(form.fields)
     \/ \E i \in Active(form.fields) :
          Wrong(form.kind, form.fields[i], Answer(form.fields, form.fields[i].key))

\* validatedValues: in the order of the fields, those that are not empty.
FormalValues ==
  LET Stored(f) == [key |-> f.key, value |-> Converted(f.type, Answer(form.fields, f.key))]
      given == {i \in Active(form.fields) : Stored(form.fields[i]).value # "empty"}
  IN [i \in given |-> Stored(form.fields[i])]

\* mappedValues: in the order of the entries, a key where it comes first and what
\* is empty included.
DynamicValues ==
  LET Key(i) == KeyOf(form.fields, entries[i].name)
      TypeOf(key) == form.fields[CHOOSE f \in DOMAIN form.fields : form.fields[f].key = key].type
      first == {i \in DOMAIN entries : \A j \in 1..(i - 1) : Key(j) # Key(i)}
  IN [i \in first |->
        [key |-> Key(i), value |-> Converted(TypeOf(Key(i)), Answer(form.fields, Key(i)))]]

\* Without a form everything goes to the provider as it is.
RawValues == [i \in DOMAIN entries |-> [key |-> entries[i].name, value |-> entries[i].value]]

CreateOrder ==
  /\ stage \in {"filled", "resolved"}
  /\ asked' = form
  /\ IF Refused
       THEN stage' = "refused" /\ UNCHANGED stored
       ELSE /\ stage' = "ordered"
            /\ stored' = CASE form.kind = "formal" -> FormalValues
                           [] form.kind = "dynamic" -> DynamicValues
                           [] form.kind = "none" -> RawValues
  /\ UNCHANGED <<form, request, entries, sent>>

-----------------------------------------------------------------------------
(* The order is executed *)

\* applyProviderMapping: of several keys with one parameter the last has it.
Parameters(mapping, values) ==
  LET Bearing(p) == {i \in DOMAIN values : mapping[values[i].key] = p}
  IN [p \in {mapping[values[i].key] : i \in DOMAIN values} |-> values[Max(Bearing(p))].value]

\* The mapping is the product's of now.
ExecuteOrder ==
  /\ stage = "ordered"
  /\ sent' = Parameters(form.mapping, stored)
  /\ stage' = "sent"
  /\ UNCHANGED <<form, asked, request, entries, stored>>

\* updateProduct, with another mapping and perhaps without the fields.
EditForm ==
  /\ stage = "ordered"
  /\ \E m \in Mappings, fields \in {form.fields, <<>>} :
       form' = [form EXCEPT !.mapping = m, !.fields = fields]
  /\ UNCHANGED <<asked, request, entries, stored, sent, stage>>

FormInit ==
  /\ \E f \in Forms :
       form = [kind |-> f.kind, fields |-> f.fields, mapping |-> CHOOSE m \in Mappings : TRUE]
  /\ asked = form
  /\ entries \in UNION {[1..n -> Entries] : n \in 0..MaxEntries}
  /\ request = entries
  /\ form.kind = "none" => \A i, j \in DOMAIN entries : entries[i].name = entries[j].name => i = j
  /\ stored = <<>> /\ sent = <<>> /\ stage = "filled"

FormNext == ResolveForReseller \/ CreateOrder \/ ExecuteOrder \/ EditForm

FormSpec == FormInit /\ [][FormNext]_formVars

-----------------------------------------------------------------------------
FormTypeOK ==
  /\ form.kind \in FormKinds /\ form.mapping \in Mappings
  /\ request \in Seq(Entries) /\ entries \in Seq(Entries)
  /\ DOMAIN stored \subseteq DOMAIN asked.fields \cup DOMAIN entries
  /\ \A i \in DOMAIN stored : stored[i] \in [key: Names, value: Values]
  /\ DOMAIN sent \subseteq Names /\ \A p \in DOMAIN sent : sent[p] \in Values
  /\ stage \in {"filled", "resolved", "refused", "ordered", "sent"}

\* No two fields share a name.
Unambiguous(fields) ==
  \A i, j \in DOMAIN fields : i # j => AllNames(fields[i]) \cap AllNames(fields[j]) = {}

\* What the customer has filled in for a field, last, under any of its names.
Told(field) ==
  LET given == {i \in DOMAIN request : request[i].name \in AllNames(field)}
  IN IF given = {} THEN "empty" ELSE request[Max(given)].value

\* Where no two fields share a name, an order is refused exactly when a name is no
\* active field's or a field is filled in wrongly, and what was filled in for a
\* field reaches the provider under its parameter, unless another field has it too.
AnswersArrive ==
  LET fields == asked.fields
      Parameter(i) == form.mapping[fields[i].key]
      Alone(i) == \A j \in Active(fields) \ {i} : Parameter(j) # Parameter(i)
  IN stage \in {"refused", "ordered", "sent"} /\ asked.kind # "none" /\ Unambiguous(fields) =>
       /\ stage = "refused" <=>
            \/ \E e \in DOMAIN request : \A i \in Active(fields) :
                 request[e].name \notin AllNames(fields[i])
            \/ \E i \in Active(fields) : Wrong(asked.kind, fields[i], Told(fields[i]))
       /\ stage = "sent" =>
            \A i \in Active(fields) : Told(fields[i]) # "empty" /\ Alone(i) =>
              /\ Parameter(i) \in DOMAIN sent
              /\ sent[Parameter(i)] = Converted(fields[i].type, Told(fields[i]))
=============================================================================
