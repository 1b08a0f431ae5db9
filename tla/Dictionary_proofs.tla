------------------------- MODULE Dictionary_proofs -------------------------
(***************************************************************************)
(* Proofs about Dictionary, for any staff, codes, units, histories of      *)
(* releases and number of writes.  The sync and staff never change a row   *)
(* together, so each lemma looks at one write: what the plan of a sync     *)
(* keeps, reverts and follows, and what an edit or a restore leaves.  That *)
(* every write of what is stored moves the revision is what makes a form   *)
(* with the present revision a true picture.                               *)
(***************************************************************************)
EXTENDS Dictionary, TLAPS, FiniteSetTheorems

Fields == LockedFields \cup EditableFields

\* A row as the database returns it; a stored attribute, and a stored value: staff edit what the API offers them,
\* and may add a code.
Written(val) == HasFields(val, DOMAIN val)
AttrRow(r) == DOMAIN r.val = Fields /\ Written(r.val) /\ r.origin \subseteq OfferedFields
ValueRow(r) == DOMAIN r.val = ValueFields /\ Written(r.val) /\ r.origin \subseteq ValueFields \cup {"code"}

\* Rows that are built field by field, and rows with the same fields.
LEMMA WrittenRows ==
    /\ \A F, val : HasFields(val, F) => DOMAIN val = F /\ Written(val)
    /\ \A v, w : Written(v) /\ Written(w) /\ DOMAIN v = DOMAIN w /\ (\A f \in DOMAIN v : v[f] = w[f]) => v = w
<1>1. ASSUME NEW F, NEW val, HasFields(val, F) PROVE DOMAIN val = F /\ Written(val)
  <2>1. DOMAIN val = F
    BY <1>1 DEF HasFields
  <2>2. QED
    BY <1>1, <2>1 DEF Written
<1>2. ASSUME NEW v, NEW w, Written(v), Written(w), DOMAIN v = DOMAIN w, \A f \in DOMAIN v : v[f] = w[f] PROVE v = w
  <2>1. v = [f \in DOMAIN v |-> v[f]] /\ w = [f \in DOMAIN v |-> w[f]]
    BY <1>2 DEF Written, HasFields
  <2>2. [f \in DOMAIN v |-> v[f]] = [f \in DOMAIN v |-> w[f]]
    BY <1>2
  <2>3. QED
    BY <2>1, <2>2
<1>3. QED
  BY <1>1, <1>2

Permitted(val) == val["displayUnit"] # Null => val["displayUnit"] \in val["displayUnits"]

\* A dictionary of the code as validateDictionary lets it pass.
CodeRow(code) ==
    /\ code.attribute # Null =>
          DOMAIN code.attribute = Fields /\ Written(code.attribute) /\ Permitted(code.attribute)
    /\ DOMAIN code.values \subseteq Code
    /\ \A c \in DOMAIN code.values : DOMAIN code.values[c] = ValueFields /\ Written(code.values[c])

-----------------------------------------------------------------------------
(* The edits that stay *)

RuleFields == {"storedUnit", "displayUnits", "displayUnit"}

\* No rule of an edited field is broken.
Valid(stored, code, edited) ==
    LET rules == Broken(Resolved(stored, code, EditableFields, edited), code)
    IN  \A i \in 1 .. 4 : rules[i][1] \in edited => ~rules[i][2]

\* The four rules, each with the field it is about.
LEMMA RulesOfAttribute ==
    ASSUME NEW resolved, NEW code
    PROVE  LET rules == Broken(resolved, code)
           IN  /\ DOMAIN rules = 1 .. 4
               /\ rules[1][1] = "storedUnit" /\ rules[2][1] = "displayUnits"
               /\ rules[3][1] = "displayUnit" /\ rules[4][1] = "displayUnits"
               /\ rules[3][2] = (resolved["displayUnit"] # Null /\ resolved["displayUnit"] \notin resolved["displayUnits"])
               /\ rules[4][2] = (resolved["displayUnit"] # Null /\ resolved["displayUnit"] \notin resolved["displayUnits"])
  BY DEF Broken

\* One round takes back one edit of a field that has a rule, or finds every edit valid.
LEMMA TakeBackOne ==
    ASSUME NEW stored, NEW code, NEW edited
    PROVE  LET next == TakeBack(stored, code, EditableFields, edited, "attribute")
           IN  \/ next = edited /\ Valid(stored, code, edited)
               \/ \E f \in edited \cap RuleFields : next = edited \ {f}
<1> DEFINE rules == Broken(Resolved(stored, code, EditableFields, edited), code)
           broken == {i \in 1 .. 4 : rules[i][1] \in edited /\ rules[i][2]}
           first == {j \in broken : \A k \in broken : j <= k}
           next == TakeBack(stored, code, EditableFields, edited, "attribute")
<1>1. DOMAIN rules = 1 .. 4 /\ \A i \in 1 .. 4 : rules[i][1] \in RuleFields
  BY RulesOfAttribute DEF RuleFields
<1>2. next = edited \ {rules[i][1] : i \in first}
  BY <1>1 DEF TakeBack, Rules
<1>3. CASE broken = {}
  BY <1>2, <1>3 DEF Valid
<1>4. CASE broken # {}
  <2>1. PICK j \in broken : \A k \in broken : j <= k
    <3> HIDE DEF rules
    <3>1. CASE 1 \in broken
      BY <3>1
    <3>2. CASE 1 \notin broken /\ 2 \in broken
      BY <3>2
    <3>3. CASE 1 \notin broken /\ 2 \notin broken /\ 3 \in broken
      BY <3>3
    <3>4. CASE 1 \notin broken /\ 2 \notin broken /\ 3 \notin broken /\ 4 \in broken
      BY <3>4
    <3>5. QED
      BY <1>4, <3>1, <3>2, <3>3, <3>4
  <2>2. first = {j}
    <3> HIDE DEF rules
    <3>1. QED
      BY <2>1
  <2>3. next = edited \ {rules[j][1]}
    BY <1>2, <2>2
  <2>4. QED
    BY <1>1, <2>1, <2>3
<1>5. QED
  BY <1>3, <1>4

\* Three rounds are enough: three fields have rules.
LEMMA KeptIsValid ==
    ASSUME NEW stored, NEW code, NEW edited
    PROVE  LET kept == Kept(stored, code, EditableFields, edited, "attribute")
           IN  kept \subseteq edited /\ Valid(stored, code, kept)
<1> DEFINE Again(e) == TakeBack(stored, code, EditableFields, e, "attribute")
           e1 == Again(edited)
           e2 == Again(e1)
           e3 == Again(e2)
<1>0. Kept(stored, code, EditableFields, edited, "attribute") = e3
  BY DEF Kept
<1>1. ASSUME NEW e PROVE \/ Again(e) = e /\ Valid(stored, code, e)
                         \/ \E f \in e \cap RuleFields : Again(e) = e \ {f}
  BY TakeBackOne
<1> HIDE DEF Again
<1>2. CASE e1 = edited /\ Valid(stored, code, edited)
  BY <1>0, <1>2
<1>3. ASSUME NEW f \in edited \cap RuleFields, e1 = edited \ {f}
      PROVE  e3 \subseteq edited /\ Valid(stored, code, e3)
  <2>1. CASE e2 = e1 /\ Valid(stored, code, e1)
    BY <1>3, <2>1
  <2>2. ASSUME NEW g \in e1 \cap RuleFields, e2 = e1 \ {g}
        PROVE  e3 \subseteq edited /\ Valid(stored, code, e3)
    <3>1. CASE e3 = e2 /\ Valid(stored, code, e2)
      BY <1>3, <2>2, <3>1
    <3>2. ASSUME NEW h \in e2 \cap RuleFields, e3 = e2 \ {h}
          PROVE  e3 \subseteq edited /\ Valid(stored, code, e3)
      <4>1. \A k \in RuleFields : k = f \/ k = g \/ k = h
        BY <1>3, <2>2, <3>2 DEF RuleFields
      <4>2. e3 \cap RuleFields = {}
        BY <1>3, <2>2, <3>2, <4>1
      <4>3. Again(e3) = e3 /\ Valid(stored, code, e3)
        BY <1>1, <4>2
      <4>4. QED
        BY <1>3, <2>2, <3>2, <4>3
    <3>3. QED
      BY <1>1, <3>1, <3>2
  <2>3. QED
    BY <1>1, <2>1, <2>2
<1>4. e3 \subseteq edited /\ Valid(stored, code, e3)
  BY <1>1, <1>2, <1>3
<1>5. QED
  BY <1>0, <1>4

\* A listed value has no rule: every edit of it stays.
LEMMA KeptOfValue ==
    ASSUME NEW stored, NEW code, NEW editable, NEW edited
    PROVE  Kept(stored, code, editable, edited, "value") = edited
<1>1. ASSUME NEW e PROVE TakeBack(stored, code, editable, e, "value") = e
  BY DEF TakeBack, Rules
<1>2. QED
  BY <1>1 DEF Kept

-----------------------------------------------------------------------------
(* What a sync plans *)

\* A row with its fields is not NoRow, and staff are offered fields the row has.
LEMMA RowsAreStored ==
    /\ \A r : AttrRow(r) \/ ValueRow(r) => r # NoRow
    /\ EditableFields \subseteq Fields /\ OfferedFields \subseteq EditableFields
<1>1. DOMAIN NoRow.val = {}
  BY DEF NoRow
<1>2. QED
  BY <1>1 DEF AttrRow, ValueRow, Fields, LockedFields, EditableFields, ValueFields, OfferedFields

\* What every plan of a row does: the edits that stay keep what they wrote, and every other field follows
\* the code where the code has the row.
Follows(p, stored) ==
    /\ p.reverted \subseteq Fields \cup ValueFields
    /\ p.row.origin \subseteq stored.origin \ p.reverted
    /\ \A f \in p.row.origin \ {"code"} : p.row.val[f] = stored.val[f]

\* A stored row for which nothing is written stays.
Quiet(p, stored) == p.reverted = {} /\ ~p.updated => p.row.val = stored.val

\* What the plan of an attribute the code has does to it.
AttrPlan(p, stored, code) ==
    /\ AttrRow(p.row) /\ Permitted(p.row.val) /\ Follows(p, stored) /\ Quiet(p, stored)
    /\ p.row.origin = stored.origin \ p.reverted
    /\ \A f \in Fields \ p.row.origin : p.row.val[f] = code[f]

\* The plan of an attribute the code and the table have.
LEMMA ReconciledAttr ==
    ASSUME NEW stored, AttrRow(stored), NEW code, Permitted(code)
    PROVE  AttrPlan(Reconcile(stored, code, LockedFields, EditableFields, "attribute"), stored, code)
<1> DEFINE edited == stored.origin \cap EditableFields
           kept == Kept(stored.val, code, EditableFields, edited, "attribute")
           p == Reconcile(stored, code, LockedFields, EditableFields, "attribute")
           moved == {f \in LockedFields : stored.val[f] # code[f]}
           followed == (moved \ stored.origin) \cup {f \in EditableFields \ edited : stored.val[f] # code[f]}
           val == [f \in Fields |-> IF f \in kept THEN stored.val[f] ELSE code[f]]
<1>1. kept \subseteq edited /\ Valid(stored.val, code, kept)
  BY KeptIsValid
<1>2. edited = stored.origin /\ stored.origin \subseteq EditableFields /\ stored.origin \cap LockedFields = {}
  BY DEF AttrRow, OfferedFields, EditableFields, LockedFields
<1>3. DOMAIN stored.val = Fields /\ Written(stored.val) /\ DOMAIN val = Fields /\ Written(val)
  <2> HIDE DEF kept
  <2>1. HasFields(val, Fields)
    BY DEF HasFields
  <2>2. QED
    BY <2>1, WrittenRows DEF AttrRow
<1>4. /\ p.row.val = val
      /\ p.reverted = (edited \ kept) \cup (stored.origin \cap moved)
      /\ p.row.origin = stored.origin \ (p.reverted \cup ((stored.origin \cap LockedFields) \ moved))
      /\ p.updated <=> followed \cup ((stored.origin \cap LockedFields) \ moved) # {}
  <2> HIDE DEF kept
  <2>1. /\ p.row.val = [f \in DOMAIN stored.val |-> IF f \in kept THEN stored.val[f] ELSE code[f]]
        /\ p.reverted = (edited \ kept) \cup (stored.origin \cap moved)
        /\ p.row.origin = stored.origin \ (p.reverted \cup ((stored.origin \cap LockedFields) \ moved))
        /\ p.updated <=> followed \cup ((stored.origin \cap LockedFields) \ moved) # {}
    BY DEF Reconcile, kept
  <2>2. QED
    BY <1>3, <2>1
<1> HIDE DEF p, kept
<1>5. p.row.origin = kept /\ p.reverted = stored.origin \ kept
  BY <1>1, <1>2, <1>4
<1>6. AttrRow(p.row)
  BY <1>1, <1>2, <1>3, <1>4, <1>5 DEF AttrRow
<1>7. Follows(p, stored) /\ \A f \in Fields \ p.row.origin : p.row.val[f] = code[f]
  <2>1. \A f \in kept : f \in Fields
    BY <1>1, RowsAreStored
  <2>2. p.reverted \subseteq Fields
    BY <1>2, <1>5, RowsAreStored
  <2>3. \A f \in p.row.origin : p.row.val[f] = stored.val[f]
    BY <1>4, <1>5, <2>1
  <2>4. p.row.origin \subseteq stored.origin \ p.reverted
    BY <1>1, <1>2, <1>5
  <2>5. Follows(p, stored)
    BY <2>2, <2>3, <2>4 DEF Follows
  <2>6. QED
    BY <1>4, <1>5, <2>5
<1>8. Permitted(val)
  <2> DEFINE resolved == Resolved(stored.val, code, EditableFields, kept)
             rules == Broken(resolved, code)
  <2>1. /\ resolved["displayUnit"] = val["displayUnit"] /\ resolved["displayUnits"] = val["displayUnits"]
        /\ "displayUnit" \in Fields /\ "displayUnits" \in Fields
    BY DEF Resolved, EditableFields, Fields
  <2>2. CASE "displayUnit" \in kept
    <3>1. ~rules[3][2]
      BY <1>1, <2>2, RulesOfAttribute DEF Valid
    <3>2. QED
      BY <2>1, <3>1, RulesOfAttribute DEF Permitted
  <2>3. CASE "displayUnits" \in kept
    <3>1. ~rules[4][2]
      BY <1>1, <2>3, RulesOfAttribute DEF Valid
    <3>2. QED
      BY <2>1, <3>1, RulesOfAttribute DEF Permitted
  <2>4. CASE "displayUnit" \notin kept /\ "displayUnits" \notin kept
    BY <2>1, <2>4 DEF Permitted
  <2>5. QED
    BY <2>2, <2>3, <2>4
<1>9. p.row.origin = stored.origin \ p.reverted
  BY <1>1, <1>2, <1>5
<1>10. Quiet(p, stored)
  <2>1. SUFFICES ASSUME p.reverted = {}, ~p.updated PROVE val = stored.val
    BY <1>4 DEF Quiet
  <2>2. kept = stored.origin /\ followed = {}
    BY <1>1, <1>2, <1>4, <1>5, <2>1
  <2>3. ASSUME NEW f \in Fields PROVE val[f] = stored.val[f]
    <3>1. CASE f \in LockedFields
      BY <1>2, <2>2, <3>1
    <3>2. CASE f \in EditableFields
      BY <1>2, <2>2, <3>2
    <3>3. QED
      BY <3>1, <3>2 DEF Fields
  <2> HIDE DEF val
  <2>4. QED
    BY <1>3, <2>3, WrittenRows
<1>11. QED
  BY <1>4, <1>6, <1>7, <1>8, <1>9, <1>10 DEF AttrPlan, p

\* The plan of the attribute: what is stored stays stored, in the same form and with a unit shown that is
\* permitted; exactly the reverted edits lose their mark; and the fields without one are the code's.
LEMMA PlannedAttrHolds ==
    ASSUME NEW stored, stored = NoRow \/ AttrRow(stored), AttrRow(stored) => Permitted(stored.val),
           NEW code, CodeRow(code)
    PROVE  LET p == PlannedAttr(stored, code)
           IN  /\ p.row = NoRow => stored = NoRow /\ code.attribute = Null
               /\ p.row # NoRow => AttrRow(p.row) /\ Permitted(p.row.val)
               /\ Follows(p, stored) /\ p.row.origin = stored.origin \ p.reverted
               /\ stored = NoRow => p.reverted = {} /\ p.row.origin = {}
               /\ stored # NoRow => Quiet(p, stored)
               /\ code.attribute # Null => \A f \in Fields \ p.row.origin : p.row.val[f] = code.attribute[f]
<1> DEFINE p == PlannedAttr(stored, code)
<1>0. NoRow.origin = {}
  BY DEF NoRow
<1>1. CASE stored = NoRow /\ code.attribute = Null
  <2>1. p = Unchanged(NoRow)
    BY <1>1 DEF PlannedAttr
  <2>2. QED
    BY <1>0, <1>1, <2>1 DEF Unchanged, Follows
<1>2. CASE stored = NoRow /\ code.attribute # Null
  <2>1. p = Inserted(code.attribute)
    BY <1>2 DEF PlannedAttr
  <2>2. p.row.val = code.attribute /\ p.row.origin = {} /\ p.reverted = {}
    BY <2>1 DEF Inserted
  <2>3. AttrRow(p.row) /\ Permitted(p.row.val)
    BY <1>2, <2>2 DEF AttrRow, CodeRow
  <2> HIDE DEF p
  <2>4. p.row # NoRow
    BY <2>3, RowsAreStored
  <2>4a. Follows(p, stored)
    BY <1>0, <1>2, <2>2 DEF Follows
  <2>5. QED
    BY <1>0, <1>2, <2>2, <2>3, <2>4, <2>4a DEF p
<1>3. CASE stored # NoRow /\ code.attribute = Null /\ stored.val["validTo"] # Null
  <2>1. p = Unchanged(stored)
    BY <1>3 DEF PlannedAttr
  <2>2. p.row = stored /\ p.reverted = {}
    BY <2>1 DEF Unchanged
  <2> HIDE DEF p
  <2>3. Follows(p, stored) /\ Quiet(p, stored)
    BY <2>2 DEF Follows, Quiet
  <2>4. QED
    BY <1>3, <2>2, <2>3 DEF p
<1>4. CASE stored # NoRow /\ code.attribute = Null /\ stored.val["validTo"] = Null
  <2>1. /\ p.row.val = [stored.val EXCEPT !["validTo"] = Today] /\ p.row.origin = stored.origin \ {"validTo"}
        /\ p.reverted = {"validTo"}
    BY <1>4 DEF PlannedAttr
  <2>2. AttrRow(stored) /\ Permitted(stored.val)
    BY <1>4
  <2> HIDE DEF p
  <2>3. DOMAIN p.row.val = Fields /\ \A f \in Fields \ {"validTo"} : p.row.val[f] = stored.val[f]
    BY <2>1, <2>2 DEF AttrRow
  <2>3a. Written(p.row.val) /\ Quiet(p, stored)
    BY <2>1 DEF Written, HasFields, Quiet
  <2>4. AttrRow(p.row)
    BY <2>1, <2>2, <2>3, <2>3a DEF AttrRow
  <2>5. Permitted(p.row.val)
    BY <2>2, <2>3 DEF Permitted, Fields, EditableFields
  <2>6. Follows(p, stored)
    <3>1. \A f \in p.row.origin : f \in Fields \ {"validTo"}
      BY <2>1, <2>2, RowsAreStored DEF AttrRow
    <3>2. QED
      <4>1. p.row.origin \subseteq stored.origin \ p.reverted
        BY <2>1
      <4>2. \A f \in p.row.origin : p.row.val[f] = stored.val[f]
        BY <2>3, <3>1
      <4>3. QED
        BY <2>1, <4>1, <4>2 DEF Follows, Fields, EditableFields
  <2>7. QED
    BY <1>4, <2>1, <2>3a, <2>4, <2>5, <2>6, RowsAreStored DEF p
<1>5. CASE stored # NoRow /\ code.attribute # Null
  <2>1. p = Reconcile(stored, code.attribute, LockedFields, EditableFields, "attribute")
    BY <1>5 DEF PlannedAttr
  <2>2. /\ AttrRow(p.row) /\ Permitted(p.row.val) /\ Follows(p, stored)
        /\ p.row.origin = stored.origin \ p.reverted /\ Quiet(p, stored)
        /\ \A f \in Fields \ p.row.origin : p.row.val[f] = code.attribute[f]
    <3>1. AttrRow(stored) /\ Permitted(code.attribute)
      BY <1>5 DEF CodeRow
    <3>2. AttrPlan(p, stored, code.attribute)
      BY <2>1, <3>1, ReconciledAttr
    <3>3. QED
      BY <3>2 DEF AttrPlan
  <2> HIDE DEF p
  <2>3. QED
    BY <1>5, <2>2, RowsAreStored DEF p
<1>6. QED
  BY <1>1, <1>2, <1>3, <1>4, <1>5

\* The plan of a value the code and the table have.
LEMMA ReconciledValue ==
    ASSUME NEW stored, ValueRow(stored), NEW code, NEW locked \in SUBSET ValueFields
    PROVE  LET p == Reconcile(stored, code, locked, ValueFields \ locked, "value")
           IN  /\ ValueRow(p.row) /\ Follows(p, stored) /\ Quiet(p, stored)
               /\ \A f \in ValueFields \ p.row.origin : p.row.val[f] = code[f]
               /\ \A f \in locked : p.row.val[f] = code[f]
<1> DEFINE edited == stored.origin \cap (ValueFields \ locked)
           p == Reconcile(stored, code, locked, ValueFields \ locked, "value")
           moved == {f \in locked : stored.val[f] # code[f]}
           followed == (moved \ stored.origin) \cup {f \in (ValueFields \ locked) \ edited : stored.val[f] # code[f]}
<1>1. Kept(stored.val, code, ValueFields \ locked, edited, "value") = edited
  BY KeptOfValue
<1>2. /\ p.row.val = [f \in DOMAIN stored.val |-> IF f \in edited THEN stored.val[f] ELSE code[f]]
      /\ p.reverted = (edited \ edited) \cup (stored.origin \cap moved)
      /\ p.row.origin = stored.origin \ (p.reverted \cup ((stored.origin \cap locked) \ moved))
      /\ p.updated <=> followed \cup ((stored.origin \cap locked) \ moved) # {}
  BY <1>1 DEF Reconcile
<1>3. DOMAIN stored.val = ValueFields /\ Written(stored.val) /\ stored.origin \subseteq ValueFields \cup {"code"}
  BY DEF ValueRow
<1> HIDE DEF p
<1>4. p.row.origin = stored.origin \ locked /\ p.reverted = stored.origin \cap moved
  BY <1>2
<1>5. ValueRow(p.row)
  <2>1. HasFields(p.row.val, ValueFields)
    BY <1>2, <1>3 DEF HasFields
  <2>2. QED
    BY <1>3, <1>4, <2>1, WrittenRows DEF ValueRow
<1>6. Follows(p, stored)
  BY <1>2, <1>3, <1>4 DEF Follows
<1>7. /\ \A f \in ValueFields \ p.row.origin : p.row.val[f] = code[f]
      /\ \A f \in locked : p.row.val[f] = code[f]
  BY <1>2, <1>3, <1>4
<1>8. Quiet(p, stored)
  <2>1. SUFFICES ASSUME p.reverted = {}, ~p.updated PROVE p.row.val = stored.val
    BY DEF Quiet
  <2>2. \A f \in ValueFields : p.row.val[f] = stored.val[f]
    <3>1. followed = {} /\ moved = {}
      BY <1>2, <1>4, <2>1
    <3>2. QED
      BY <1>2, <1>3, <3>1
  <2>3. QED
    BY <1>3, <1>5, <2>2, WrittenRows DEF ValueRow
<1>9. QED
  BY <1>5, <1>6, <1>7, <1>8 DEF p

\* The plan of a listed value; in a closed list what is in use is what the code has in use.
LEMMA PlannedValueHolds ==
    ASSUME NEW stored, stored = NoRow \/ ValueRow(stored), NEW code, CodeRow(code), code.attribute # Null, NEW c \in Code
    PROVE  LET p == PlannedValue(stored, code, c)
           IN  /\ p.row = NoRow => stored = NoRow /\ c \notin DOMAIN code.values
               /\ p.row # NoRow => ValueRow(p.row)
               /\ Follows(p, stored)
               /\ stored = NoRow => p.reverted = {} /\ p.row.origin = {}
               /\ stored # NoRow => Quiet(p, stored)
               /\ c \in DOMAIN code.values => \A f \in ValueFields \ p.row.origin : p.row.val[f] = code.values[c][f]
               /\ code.attribute["codeList"] = "closed" =>
                     /\ c \in DOMAIN code.values => p.row.val["retired"] = code.values[c]["retired"]
                     /\ c \notin DOMAIN code.values => p.row = NoRow \/ p.row.val["retired"]
<1> DEFINE p == PlannedValue(stored, code, c)
           locked == LockedValueFields(code.attribute["codeList"])
<1>0. NoRow.origin = {}
  BY DEF NoRow
<1>0a. locked \in SUBSET ValueFields /\ (code.attribute["codeList"] = "closed" => locked = {"retired"})
  BY DEF LockedValueFields, ValueFields
<1>1. CASE c \in DOMAIN code.values /\ stored = NoRow
  <2>1. p = Inserted(code.values[c])
    BY <1>1 DEF PlannedValue
  <2>2. p.row.val = code.values[c] /\ p.row.origin = {} /\ p.reverted = {}
    BY <2>1 DEF Inserted
  <2> HIDE DEF p
  <2>3. ValueRow(p.row)
    BY <1>1, <2>2 DEF ValueRow, CodeRow
  <2>4. Follows(p, stored) /\ p.row # NoRow
    BY <1>0, <1>1, <2>2, <2>3, RowsAreStored DEF Follows
  <2>5. QED
    BY <1>1, <2>2, <2>3, <2>4 DEF p
<1>2. CASE c \in DOMAIN code.values /\ stored # NoRow
  <2>1. p = Reconcile(stored, code.values[c], locked, ValueFields \ locked, "value")
    BY <1>2 DEF PlannedValue
  <2>2. ValueRow(stored)
    BY <1>2
  <2> HIDE DEF locked
  <2>3. /\ ValueRow(p.row) /\ Follows(p, stored) /\ Quiet(p, stored)
        /\ \A f \in ValueFields \ p.row.origin : p.row.val[f] = code.values[c][f]
        /\ \A f \in locked : p.row.val[f] = code.values[c][f]
    BY <1>0a, <2>1, <2>2, ReconciledValue
  <2> HIDE DEF p
  <2>4. QED
    BY <1>0a, <1>2, <2>3, RowsAreStored DEF p
<1>3. CASE /\ c \notin DOMAIN code.values
           /\ \/ stored = NoRow
              \/ stored.val["retired"]
              \/ "code" \in stored.origin /\ code.attribute["codeList"] = "open"
  <2>1. p = Unchanged(stored)
    BY <1>3 DEF PlannedValue
  <2>2. p.row = stored /\ p.reverted = {}
    BY <2>1 DEF Unchanged
  <2> HIDE DEF p
  <2>3. Follows(p, stored) /\ Quiet(p, stored)
    BY <2>2 DEF Follows, Quiet
  <2>4. QED
    BY <1>0, <1>3, <2>2, <2>3 DEF p
<1>4. CASE /\ c \notin DOMAIN code.values
           /\ ~ \/ stored = NoRow
                \/ stored.val["retired"]
                \/ "code" \in stored.origin /\ code.attribute["codeList"] = "open"
  <2>1. p = Retired(stored)
    BY <1>4 DEF PlannedValue
  <2>2. /\ p.row.val = [stored.val EXCEPT !["retired"] = TRUE] /\ p.row.origin = stored.origin \ {"retired"}
        /\ p.reverted = {"retired"}
    <3> DEFINE marked == [stored.val EXCEPT !["retired"] = TRUE]
               plan == [row |-> [val |-> marked, origin |-> stored.origin \ {"retired"}],
                        reverted |-> {"retired"}, updated |-> FALSE]
    <3>1. p = plan
      BY <2>1 DEF Retired
    <3> HIDE DEF p, marked
    <3>2. p.row.val = marked /\ p.row.origin = stored.origin \ {"retired"} /\ p.reverted = {"retired"}
      BY <3>1
    <3>3. QED
      BY <3>2 DEF marked
  <2>3. ValueRow(stored)
    BY <1>4
  <2> HIDE DEF p
  <2>4. /\ DOMAIN p.row.val = ValueFields /\ p.row.val["retired"] = TRUE
        /\ \A f \in ValueFields \ {"retired"} : p.row.val[f] = stored.val[f]
    BY <2>2, <2>3 DEF ValueRow, ValueFields
  <2>4a. Written(p.row.val) /\ Quiet(p, stored)
    BY <2>2 DEF Written, HasFields, Quiet
  <2>5. ValueRow(p.row)
    BY <2>2, <2>3, <2>4, <2>4a DEF ValueRow
  <2>6. Follows(p, stored)
    <3>1. p.reverted \subseteq ValueFields /\ p.row.origin \subseteq stored.origin \ p.reverted
      BY <2>2 DEF ValueFields
    <3>2. \A f \in p.row.origin \ {"code"} : p.row.val[f] = stored.val[f]
      BY <2>2, <2>3, <2>4 DEF ValueRow
    <3>3. QED
      BY <3>1, <3>2 DEF Follows
  <2>7. QED
    BY <1>4, <2>4, <2>4a, <2>5, <2>6, RowsAreStored DEF p
<1>5. QED
  BY <1>1, <1>2, <1>3, <1>4

-----------------------------------------------------------------------------
(* The invariant *)

TypeOK ==
    /\ releases \in Releases /\ running \in 1 .. Len(releases) /\ syncedAt \in 0 .. running
    /\ attr = NoRow \/ AttrRow(attr)
    /\ DOMAIN values = Code /\ \A c \in Code : values[c] = NoRow \/ ValueRow(values[c])
    /\ DOMAIN periods = Date /\ DOMAIN newest = HistoryKeys /\ DOMAIN form = Staff
    /\ revision \in Nat /\ writes \in Nat

\* A form shows an attribute that is stored.
FormsOpen == \A u \in Staff : form[u] # Null => attr # NoRow

\* What a sync has read is what is stored: it holds the lock from before it reads.
ReadFresh ==
    sync # Null =>
        /\ sync = [release |-> sync.release, read |-> sync.read] /\ sync.release \in 1 .. running
        /\ sync.read # Null => lock = "sync" /\ sync.read = [attr |-> attr, values |-> values]

\* A row nobody inserted yet has no history of edits.
Explained ==
    /\ attr = NoRow => \A f \in OfferedFields : newest[<<"attr", f>>].reason # "edit"
    /\ HistoryExplainsRow

\* A sync of the running code leaves every row the code has, and staff delete none.
Followed ==
    LET code == CodeOf(running)
    IN  syncedAt = running /\ code.attribute # Null =>
            attr # NoRow /\ \A c \in DOMAIN code.values : values[c] # NoRow

\* A form with the revision its attribute has shows what is stored, but for the values a sync inserted since.
Shows(f) ==
    /\ f.attr = attr.val
    /\ f.values # Null => \A c \in Code : f.values[c] # Null => values[c] # NoRow /\ f.values[c] = values[c].val
Vouched ==
    \A u \in Staff : form[u] # Null =>
        /\ form[u] = [revision |-> form[u].revision, attr |-> form[u].attr, values |-> form[u].values]
        /\ form[u].revision \in Nat /\ form[u].revision <= revision
        /\ form[u].revision = revision => Shows(form[u])

IInv == TypeOK /\ FormsOpen /\ ReadFresh /\ Explained /\ UnitsAgree /\ Followed /\ SyncedRowsFollowCode
        /\ Vouched

\* Every release that ran so far passes validateDictionary.
LEMMA CodeIsChecked ==
    ASSUME TypeOK, NEW r \in 1 .. running
    PROVE  CodeRow(CodeOf(r))
<1>1. r \in 1 .. Len(releases)
  BY DictionaryAssumption DEF TypeOK
<1> DEFINE code == CodeOf(r)
<1>2. /\ code.attribute # Null => HasFields(code.attribute, Fields) /\ Permitted(code.attribute)
      /\ DOMAIN code.values \subseteq Code
      /\ \A c \in DOMAIN code.values : HasFields(code.values[c], ValueFields)
  BY <1>1, ReleasesAssumption DEF TypeOK, CodeOf, Permitted, Fields
<1> HIDE DEF code
<1>3. CodeRow(code)
  BY <1>2, WrittenRows DEF CodeRow
<1>4. QED
  BY <1>3 DEF code

\* The keys of the history of an attribute and of a value.
LEMMA Keys ==
    /\ \A f \in EditableFields : <<"attr", f>> \in HistoryKeys
    /\ \A c \in Code, f \in ValueFields : <<c, f>> \in HistoryKeys /\ c # "attr"
  BY DictionaryAssumption DEF HistoryKeys

\* History rows are written for the fields of one row.
LEMMA RecordedAt ==
    ASSUME TypeOK, NEW owner, NEW fs, NEW val, NEW reason
    PROVE  LET after == Recorded(newest, owner, fs, val, reason)
           IN  /\ DOMAIN after = HistoryKeys
               /\ \A f \in EditableFields :
                     after[<<"attr", f>>] = IF owner = "attr" /\ f \in fs THEN [value |-> val[f], reason |-> reason]
                                            ELSE newest[<<"attr", f>>]
               /\ \A c \in Code, f \in ValueFields :
                     after[<<c, f>>] = IF owner = c /\ f \in fs THEN [value |-> val[f], reason |-> reason]
                                       ELSE newest[<<c, f>>]
<1> DEFINE after == Recorded(newest, owner, fs, val, reason)
<1>1. after = [k \in HistoryKeys |-> IF k[1] = owner /\ k[2] \in fs THEN [value |-> val[k[2]], reason |-> reason]
                                    ELSE newest[k]]
  BY DEF TypeOK, Recorded
<1> HIDE DEF after
<1>2. ASSUME NEW k \in HistoryKeys
      PROVE  after[k] = IF k[1] = owner /\ k[2] \in fs THEN [value |-> val[k[2]], reason |-> reason] ELSE newest[k]
  BY <1>1
<1>3. DOMAIN after = HistoryKeys
  BY <1>1
<1>4. ASSUME NEW f \in EditableFields
      PROVE  after[<<"attr", f>>] = IF owner = "attr" /\ f \in fs THEN [value |-> val[f], reason |-> reason]
                                    ELSE newest[<<"attr", f>>]
  BY <1>2, Keys
<1>5. ASSUME NEW c \in Code, NEW f \in ValueFields
      PROVE  after[<<c, f>>] = IF owner = c /\ f \in fs THEN [value |-> val[f], reason |-> reason]
                               ELSE newest[<<c, f>>]
  BY <1>2, Keys
<1>6. QED
  BY <1>3, <1>4, <1>5 DEF after

\* Before the first sync nothing is stored and nothing has a history.
LEMMA InitHolds == Init => IInv
<1> SUFFICES ASSUME Init PROVE IInv
  OBVIOUS
<1>1. TypeOK
  BY DictionaryAssumption DEF Init, TypeOK
<1>2. Explained
  <2>1. \A k \in HistoryKeys : newest[k].reason # "edit"
    BY DEF Init, NoHistory
  <2>2. \A c \in Code : values[c] = NoRow
    BY DEF Init
  <2>3. attr = NoRow
    BY DEF Init
  <2>4. ASSUME NEW f \in OfferedFields PROVE newest[<<"attr", f>>].reason # "edit"
    <3>1. f \in EditableFields
      BY RowsAreStored
    <3> DEFINE k == <<"attr", f>>
    <3>2. k \in HistoryKeys
      BY <3>1, Keys
    <3> HIDE DEF k
    <3>3. newest[k].reason # "edit"
      BY <2>1, <3>2
    <3>4. QED
      BY <3>3 DEF k
  <2>5. QED
    BY <2>2, <2>3, <2>4 DEF Explained, HistoryExplainsRow
<1>3. FormsOpen /\ ReadFresh /\ UnitsAgree /\ Followed /\ SyncedRowsFollowCode /\ Vouched
  BY DEF Init, Vouched, FormsOpen, ReadFresh, UnitsAgree, ShownUnitPermitted, CorrectionIsDated, Followed, SyncedRowsFollowCode
<1>4. QED
  BY <1>1, <1>2, <1>3 DEF IInv

-----------------------------------------------------------------------------
(* Steps that change no row *)

\* Starting, reading and giving up of a sync, a new release, and the reads of a form.
LEMMA QuietStep ==
    ASSUME IInv, UNCHANGED rows,
           \/ SyncStarts \/ SyncReads \/ SyncRollsBack \/ Deploy
           \/ \E u \in Staff : FormReadsAttribute(u) \/ FormReadsValues(u) \/ Refused(u)
           \/ UNCHANGED vars
    PROVE  IInv'
<1> USE DEF IInv
<1>1. UNCHANGED <<attr, revision, values, periods, newest>> /\ writes' = writes
  BY DEF rows, vars, SyncStarts, SyncReads, SyncRollsBack, Deploy, FormReadsAttribute, FormReadsValues, Refused
<1>2. Explained' /\ UnitsAgree'
  BY <1>1 DEF Explained, HistoryExplainsRow, UnitsAgree, ShownUnitPermitted, CorrectionIsDated
<1>3. ASSUME running' = running, releases' = releases, syncedAt' = syncedAt, DOMAIN form' = Staff
      PROVE  TypeOK' /\ Followed' /\ SyncedRowsFollowCode'
  <2>1. TypeOK'
    BY <1>1, <1>3 DEF TypeOK
  <2>2. Followed' /\ SyncedRowsFollowCode'
    BY <1>1, <1>3 DEF Followed, SyncedRowsFollowCode, CodeOf
  <2>3. QED
    BY <2>1, <2>2
<1>3a. ASSUME form' = form PROVE Vouched'
  BY <1>1, <1>3a DEF Vouched, Shows
<1>4. CASE SyncStarts
  <2>1. FormsOpen' /\ Vouched'
    BY <1>1, <1>3a, <1>4 DEF SyncStarts, FormsOpen
  <2>2. ReadFresh'
    BY <1>4 DEF SyncStarts, ReadFresh, TypeOK, deployed
  <2>3. QED
    BY <1>2, <1>3, <1>4, <2>1, <2>2 DEF SyncStarts, deployed, TypeOK
<1>5. CASE SyncReads
  <2>1. FormsOpen' /\ Vouched'
    BY <1>1, <1>3a, <1>5 DEF SyncReads, FormsOpen
  <2>2. sync # Null /\ sync' = [sync EXCEPT !.read = [attr |-> attr, values |-> values]] /\ lock' = "sync" /\ running' = running
    BY <1>5 DEF SyncReads, deployed
  <2>3. sync = [release |-> sync.release, read |-> sync.read] /\ sync.release \in 1 .. running
    BY <2>2 DEF ReadFresh
  <2>4. sync' = [release |-> sync.release, read |-> [attr |-> attr, values |-> values]]
    BY <2>2, <2>3
  <2>5. ReadFresh'
    BY <1>1, <2>2, <2>3, <2>4 DEF ReadFresh
  <2>6. QED
    BY <1>2, <1>3, <1>5, <2>1, <2>5 DEF SyncReads, deployed, TypeOK
<1>6. CASE SyncRollsBack
  <2>1. FormsOpen' /\ ReadFresh' /\ Vouched'
    BY <1>1, <1>3a, <1>6 DEF SyncRollsBack, FormsOpen, ReadFresh
  <2>2. QED
    BY <1>2, <1>3, <1>6, <2>1 DEF SyncRollsBack, deployed, TypeOK
<1>7. CASE Deploy
  <2>1. running < Len(releases) /\ running' = running + 1 /\ UNCHANGED <<releases, lock, sync, syncedAt, form>>
    BY <1>7 DEF Deploy
  <2>2. Len(releases) \in Nat
    BY DictionaryAssumption DEF TypeOK
  <2>3. TypeOK'
    BY <1>1, <2>1, <2>2 DEF TypeOK
  <2>4. FormsOpen' /\ ReadFresh' /\ Vouched'
    BY <1>1, <1>3a, <2>1, <2>2 DEF FormsOpen, ReadFresh, TypeOK
  <2>5. syncedAt' # running'
    BY <2>1, <2>2 DEF TypeOK
  <2>6. Followed' /\ SyncedRowsFollowCode'
    BY <2>5 DEF Followed, SyncedRowsFollowCode
  <2>7. QED
    BY <1>2, <2>3, <2>4, <2>6
<1>8. ASSUME NEW u \in Staff, FormReadsAttribute(u) \/ FormReadsValues(u) \/ Refused(u) PROVE IInv'
  <2>1. UNCHANGED <<releases, running, lock, sync, syncedAt>> /\ DOMAIN form' = Staff
    BY <1>8 DEF FormReadsAttribute, FormReadsValues, Refused, deployed, TypeOK
  <2>2. ReadFresh'
    BY <1>1, <2>1 DEF ReadFresh
  <2>3. FormsOpen'
    <3>1. \A v \in Staff : v # u => form'[v] = form[v]
      BY <1>8 DEF FormReadsAttribute, FormReadsValues, Refused, TypeOK
    <3>2. form'[u] # Null => attr # NoRow
      BY <1>8 DEF FormReadsAttribute, FormReadsValues, Refused, TypeOK, FormsOpen
    <3>3. QED
      BY <1>1, <3>1, <3>2 DEF FormsOpen
  <2>4. Vouched'
    <3>1. ASSUME NEW v \in Staff, v # u, form'[v] # Null
          PROVE  /\ form'[v] = [revision |-> form'[v].revision, attr |-> form'[v].attr, values |-> form'[v].values]
                 /\ form'[v].revision \in Nat /\ form'[v].revision <= revision'
                 /\ form'[v].revision = revision' => Shows(form[v])'
      <4>1. form'[v] = form[v]
        BY <1>8, <3>1 DEF FormReadsAttribute, FormReadsValues, Refused, TypeOK
      <4>2. QED
        BY <1>1, <3>1, <4>1 DEF Vouched, Shows
    <3>2. CASE FormReadsAttribute(u)
      <4>1. form'[u] = [revision |-> revision, attr |-> attr.val, values |-> Null]
        BY <3>2 DEF FormReadsAttribute, TypeOK
      <4>2. form'[u].revision = revision /\ form'[u].attr = attr.val /\ form'[u].values = Null
        BY <4>1
      <4>3. QED
        <5>1. form'[u] = [revision |-> form'[u].revision, attr |-> form'[u].attr, values |-> form'[u].values]
          BY <4>1, <4>2
        <5>2. form'[u].revision \in Nat /\ form'[u].revision <= revision'
          BY <1>1, <4>2 DEF TypeOK
        <5>3. Shows(form[u])'
          BY <1>1, <4>2 DEF Shows
        <5>4. QED
          BY <3>1, <5>1, <5>2, <5>3 DEF Vouched
    <3>3. CASE FormReadsValues(u)
      <4> DEFINE listed == [c \in Code |-> IF values[c] = NoRow THEN Null ELSE values[c].val]
      <4>1. form[u] # Null /\ form' = [form EXCEPT ![u].values = listed]
        BY <3>3 DEF FormReadsValues
      <4>2. form'[u] = [form[u] EXCEPT !.values = listed]
        BY <4>1 DEF TypeOK
      <4>3. \A c \in Code : listed[c] # Null => values[c] # NoRow /\ listed[c] = values[c].val
        OBVIOUS
      <4> HIDE DEF listed
      <4>4. /\ form[u].revision \in Nat /\ form[u].revision <= revision
            /\ form[u].revision = revision => form[u].attr = attr.val
        BY <4>1 DEF Vouched, Shows
      <4>5. form'[u] = [revision |-> form[u].revision, attr |-> form[u].attr, values |-> listed]
        <5>1. ASSUME NEW f, f = [revision |-> f.revision, attr |-> f.attr, values |-> f.values]
              PROVE  [f EXCEPT !.values = listed] = [revision |-> f.revision, attr |-> f.attr, values |-> listed]
          BY <5>1
        <5>2. form[u] = [revision |-> form[u].revision, attr |-> form[u].attr, values |-> form[u].values]
          BY <4>1 DEF Vouched
        <5>3. QED
          BY <4>2, <5>1, <5>2
      <4>6. /\ form'[u].revision = form[u].revision /\ form'[u].attr = form[u].attr /\ form'[u].values = listed
        BY <4>5
      <4>7. QED
        BY <1>1, <3>1, <4>3, <4>4, <4>5, <4>6 DEF Vouched, Shows
    <3>4. CASE Refused(u)
      <4>1. form'[u] = Null
        BY <3>4 DEF Refused, TypeOK
      <4>2. QED
        BY <3>1, <4>1 DEF Vouched
    <3>5. QED
      BY <1>8, <3>2, <3>3, <3>4
  <2>5. QED
    BY <1>2, <1>3, <2>1, <2>2, <2>3, <2>4
<1>9. CASE UNCHANGED vars
  <2>1. UNCHANGED <<releases, running, lock, sync, syncedAt, form>>
    BY <1>9 DEF vars, deployed
  <2>2. FormsOpen' /\ ReadFresh' /\ Vouched'
    BY <1>1, <1>3a, <2>1 DEF FormsOpen, ReadFresh
  <2>3. QED
    BY <1>2, <1>3, <2>1, <2>2 DEF TypeOK
<1>10. QED
  BY <1>4, <1>5, <1>6, <1>7, <1>8, <1>9

-----------------------------------------------------------------------------
(* The sync *)

\* The plan of every code, whether the code of the release has the attribute or not.
LEMMA ListedHolds ==
    ASSUME TypeOK, NEW code, CodeRow(code), NEW c \in Code
    PROVE  LET p == PlannedValues(values, code)[c]
           IN  /\ p.row # NoRow => ValueRow(p.row)
               /\ Follows(p, values[c])
               /\ values[c] = NoRow => p.reverted = {} /\ p.row.origin = {}
               /\ values[c] # NoRow => p.row # NoRow /\ Quiet(p, values[c])
               /\ code.attribute # Null => p = PlannedValue(values[c], code, c)
<1>0. values[c] = NoRow \/ ValueRow(values[c])
  BY DEF TypeOK
<1>1. CASE code.attribute = Null
  <2>1. PlannedValues(values, code)[c] = Unchanged(values[c])
    BY <1>1 DEF PlannedValues
  <2> DEFINE p == PlannedValues(values, code)[c]
  <2>2. p.row = values[c] /\ p.reverted = {}
    BY <2>1 DEF Unchanged
  <2> HIDE DEF p
  <2>3. Follows(p, values[c]) /\ Quiet(p, values[c])
    BY <2>2 DEF Follows, Quiet
  <2>4. NoRow.origin = {}
    BY DEF NoRow
  <2>5. QED
    BY <1>0, <1>1, <2>2, <2>3, <2>4 DEF p
<1>2. CASE code.attribute # Null
  <2>1. PlannedValues(values, code)[c] = PlannedValue(values[c], code, c)
    BY <1>2 DEF PlannedValues
  <2>2. QED
    BY <1>0, <1>2, <2>1, PlannedValueHolds
<1>3. QED
  BY <1>1, <1>2

\* The plan of a sync, owner by owner.
LEMMA PlanAt ==
    ASSUME NEW read, NEW code
    PROVE  /\ Plan(read, code)["attr"] = PlannedAttr(read.attr, code)
           /\ \A c \in Code : Plan(read, code)[c] = PlannedValues(read.values, code)[c]
<1>1. "attr" \in Owners /\ \A c \in Code : c \in Owners /\ c # "attr"
  BY DictionaryAssumption DEF Owners
<1>2. QED
  BY <1>1 DEF Plan

\* What a sync counts is finite.
LEMMA FieldsAreFinite == IsFiniteSet(Fields \cup ValueFields) /\ IsFiniteSet(Owners)
<1>1. /\ IsFiniteSet({"label"}) /\ IsFiniteSet({"storedUnit"}) /\ IsFiniteSet({"displayUnits"})
      /\ IsFiniteSet({"displayUnit"}) /\ IsFiniteSet({"codeList"}) /\ IsFiniteSet({"validTo"})
      /\ IsFiniteSet({"validFrom"}) /\ IsFiniteSet({"name"}) /\ IsFiniteSet({"retired"}) /\ IsFiniteSet({"attr"})
  BY FS_Singleton
<1> DEFINE S1 == {"label"} \cup {"storedUnit"}
           S2 == {"displayUnits"} \cup {"displayUnit"}
           S3 == {"codeList"} \cup {"validTo"}
           S4 == {"validFrom"} \cup {"name"}
           S5 == (S1 \cup S2) \cup (S3 \cup S4)
<1>2. IsFiniteSet(S1) /\ IsFiniteSet(S2) /\ IsFiniteSet(S3) /\ IsFiniteSet(S4)
  BY <1>1, FS_Union
<1>3. Fields \cup ValueFields = S5 \cup {"retired"}
  BY DEF Fields, LockedFields, EditableFields, ValueFields
<1> HIDE DEF S1, S2, S3, S4
<1>4. IsFiniteSet(S1 \cup S2) /\ IsFiniteSet(S3 \cup S4)
  BY <1>2, FS_Union
<1>5. IsFiniteSet(S5)
  BY <1>4, FS_Union
<1> HIDE DEF S5
<1>6. IsFiniteSet(Fields \cup ValueFields)
  BY <1>1, <1>3, <1>5, FS_Union
<1>7. IsFiniteSet(Owners)
  BY <1>1, DictionaryAssumption, FS_Union DEF Owners
<1>8. QED
  BY <1>6, <1>7

\* The revision moves unless nothing stored is written.
LEMMA BumpsCount ==
    ASSUME NEW plan, \A o \in Owners : plan[o].reverted \subseteq Fields \cup ValueFields
    PROVE  /\ Bumps(plan) \in Nat
           /\ Bumps(plan) = 0 => \A o \in Owners : plan[o].reverted = {} /\ ~plan[o].updated
<1> DEFINE F == Fields \cup ValueFields
           W == UNION {{o} \X plan[o].reverted : o \in Owners}
           U == {o \in Owners : plan[o].updated}
<1>1. W \in SUBSET (Owners \X F) /\ U \in SUBSET Owners
  OBVIOUS
<1>2. IsFiniteSet(F) /\ IsFiniteSet(Owners)
  BY FieldsAreFinite
<1>3. Bumps(plan) = Cardinality(W) + Cardinality(U)
  BY DEF Bumps
<1>4. ASSUME NEW o \in Owners, W = {} PROVE plan[o].reverted = {}
  <2>1. ASSUME NEW f \in plan[o].reverted PROVE FALSE
    <3>1. <<o, f>> \in {o} \X plan[o].reverted
      OBVIOUS
    <3>2. <<o, f>> \in W
      BY <3>1
    <3>3. QED
      BY <1>4, <3>2
  <2>2. QED
    BY <2>1
<1>5. ASSUME NEW o \in Owners, U = {} PROVE ~plan[o].updated
  BY <1>5
<1> HIDE DEF F, W, U
<1>6. IsFiniteSet(Owners \X F)
  BY <1>2, FS_Product
<1>7. IsFiniteSet(W) /\ IsFiniteSet(U)
  BY <1>1, <1>2, <1>6, FS_Subset
<1>8. Cardinality(W) \in Nat /\ Cardinality(U) \in Nat
  BY <1>7, FS_CardinalityType
<1>9. /\ Cardinality(W) = 0 => W = {}
      /\ Cardinality(U) = 0 => U = {}
  BY <1>7, FS_EmptySet
<1>10. QED
  BY <1>3, <1>4, <1>5, <1>8, <1>9

\* The commit of a sync: its plan was made from the rows as they are, because it has held the lock since before it
\* read them.
LEMMA SyncCommitsStep ==
    ASSUME IInv, SyncCommits
    PROVE  IInv'
<1> USE DEF IInv
<1> DEFINE code == CodeOf(sync.release)
           planned == PlannedAttr(attr, code)
           listed(c) == PlannedValues(values, code)[c]
           plan == Plan(sync.read, code)
<1>1. /\ sync # Null /\ sync.read # Null /\ sync.release \in 1 .. running
      /\ sync.read.attr = attr /\ sync.read.values = values
  BY DEF SyncCommits, ReadFresh
<1>2. CodeRow(code)
  BY <1>1, CodeIsChecked
<1>2a. /\ plan["attr"] = planned
       /\ \A c \in Code : plan[c] = listed(c)
  BY <1>1, PlanAt
<1>2b. /\ attr' = plan["attr"].row /\ values' = [c \in Code |-> plan[c].row]
       /\ revision' = IF attr = NoRow /\ attr' # NoRow THEN 1 ELSE revision + Bumps(plan)
       /\ newest' = [k \in HistoryKeys |-> IF k[2] \in plan[k[1]].reverted
                                           THEN [value |-> plan[k[1]].row.val[k[2]], reason |-> "sync"] ELSE newest[k]]
       /\ syncedAt' = sync.release /\ sync' = Null /\ writes' = writes
       /\ UNCHANGED <<releases, running, periods, form>>
  <2>1. DOMAIN newest = HistoryKeys
    BY DEF TypeOK
  <2>2. QED
    BY <2>1 DEF SyncCommits, deployed
<1>3. /\ attr' = planned.row /\ values' = [c \in Code |-> listed(c).row]
      /\ syncedAt' = sync.release /\ sync' = Null
      /\ UNCHANGED <<releases, running, periods, form>>
  <2> HIDE DEF plan, planned, listed
  <2>1. QED
    BY <1>2a, <1>2b
<1>4. /\ planned.row = NoRow => attr = NoRow /\ code.attribute = Null
      /\ planned.row # NoRow => AttrRow(planned.row) /\ Permitted(planned.row.val)
      /\ Follows(planned, attr) /\ planned.row.origin = attr.origin \ planned.reverted
      /\ attr = NoRow => planned.reverted = {} /\ planned.row.origin = {}
      /\ attr # NoRow => Quiet(planned, attr)
      /\ code.attribute # Null => \A f \in Fields \ planned.row.origin : planned.row.val[f] = code.attribute[f]
  <2>1. AttrRow(attr) => Permitted(attr.val)
    BY RowsAreStored DEF UnitsAgree, ShownUnitPermitted, Permitted
  <2>2. attr = NoRow \/ AttrRow(attr)
    BY DEF TypeOK
  <2>3. QED
    BY <1>2, <2>1, <2>2, PlannedAttrHolds
<1>5. ASSUME NEW c \in Code
      PROVE  /\ listed(c).row # NoRow => ValueRow(listed(c).row)
             /\ Follows(listed(c), values[c])
             /\ values[c] = NoRow => listed(c).reverted = {} /\ listed(c).row.origin = {}
             /\ values[c] # NoRow => listed(c).row # NoRow /\ Quiet(listed(c), values[c])
             /\ code.attribute # Null => listed(c) = PlannedValue(values[c], code, c)
  BY <1>2, ListedHolds
<1>6. /\ \A f \in EditableFields : newest'[<<"attr", f>>] =
                IF f \in planned.reverted THEN [value |-> planned.row.val[f], reason |-> "sync"] ELSE newest[<<"attr", f>>]
      /\ \A c \in Code, f \in ValueFields : newest'[<<c, f>>] =
                IF f \in listed(c).reverted THEN [value |-> listed(c).row.val[f], reason |-> "sync"] ELSE newest[<<c, f>>]
  <2> HIDE DEF plan, planned, listed
  <2>1. ASSUME NEW k \in HistoryKeys
        PROVE  newest'[k] = IF k[2] \in plan[k[1]].reverted
                            THEN [value |-> plan[k[1]].row.val[k[2]], reason |-> "sync"] ELSE newest[k]
    BY <1>2b
  <2>2. ASSUME NEW f \in EditableFields
        PROVE  newest'[<<"attr", f>>] = IF f \in planned.reverted THEN [value |-> planned.row.val[f], reason |-> "sync"]
                                        ELSE newest[<<"attr", f>>]
    BY <1>2a, <2>1, Keys
  <2>3. ASSUME NEW c \in Code, NEW f \in ValueFields
        PROVE  newest'[<<c, f>>] = IF f \in listed(c).reverted THEN [value |-> listed(c).row.val[f], reason |-> "sync"]
                                   ELSE newest[<<c, f>>]
    BY <1>2a, <2>1, Keys
  <2>4. QED
    BY <2>2, <2>3
<1>6a. \A o \in Owners : plan[o].reverted \subseteq Fields \cup ValueFields
  <2> HIDE DEF plan, planned, listed
  <2>1. QED
    BY <1>2a, <1>4, <1>5 DEF Owners, Follows
<1> HIDE DEF plan, planned, listed, code
<1>7. TypeOK'
  <2>1. attr' = NoRow \/ AttrRow(attr')
    BY <1>3, <1>4
  <2>2. DOMAIN values' = Code /\ \A c \in Code : values'[c] = NoRow \/ ValueRow(values'[c])
    BY <1>3, <1>5
  <2>3. DOMAIN newest' = HistoryKeys
    BY <1>2b
  <2>4. syncedAt' \in 0 .. running'
    BY <1>1, <1>3 DEF TypeOK
  <2>5. revision' \in Nat /\ writes' \in Nat
    BY <1>2b, <1>6a, BumpsCount DEF TypeOK
  <2>6. QED
    BY <1>3, <2>1, <2>2, <2>3, <2>4, <2>5 DEF TypeOK
<1>8. FormsOpen' /\ ReadFresh'
  BY <1>3, <1>4 DEF FormsOpen, ReadFresh
<1>9. Explained'
  <2>1. ASSUME NEW f \in OfferedFields
        PROVE  /\ attr' = NoRow => newest'[<<"attr", f>>].reason # "edit"
               /\ attr' # NoRow => /\ f \in attr'.origin <=> newest'[<<"attr", f>>].reason = "edit"
                                   /\ f \in attr'.origin => newest'[<<"attr", f>>].value = attr'.val[f]
    <3>1. f \in EditableFields /\ f # "code"
      BY RowsAreStored DEF OfferedFields, EditableFields
    <3>2. newest'[<<"attr", f>>] = IF f \in planned.reverted THEN [value |-> planned.row.val[f], reason |-> "sync"]
                                  ELSE newest[<<"attr", f>>]
      BY <1>6, <3>1
    <3>3. CASE attr = NoRow
      <4>1. newest[<<"attr", f>>].reason # "edit"
        BY <3>3 DEF Explained
      <4>2. QED
        BY <1>3, <1>4, <3>2, <3>3, <4>1
    <3>4. CASE attr # NoRow
      <4>1. /\ f \in attr.origin <=> newest[<<"attr", f>>].reason = "edit"
            /\ f \in attr.origin => newest[<<"attr", f>>].value = attr.val[f]
        BY <3>4 DEF Explained, HistoryExplainsRow
      <4>2. f \in planned.row.origin => f \in attr.origin /\ f \notin planned.reverted /\ planned.row.val[f] = attr.val[f]
        BY <1>4, <3>1 DEF Follows
      <4>3. planned.row # NoRow
        BY <1>4, <3>4
      <4>4. CASE f \in planned.reverted
        BY <1>3, <3>2, <4>2, <4>3, <4>4
      <4>5. CASE f \notin planned.reverted
        BY <1>3, <1>4, <3>2, <4>1, <4>2, <4>3, <4>5
      <4>6. QED
        BY <4>4, <4>5
    <3>5. QED
      BY <3>3, <3>4
  <2>2. ASSUME NEW c \in Code, values'[c] # NoRow, NEW f \in values'[c].origin \ {"code"}
        PROVE  newest'[<<c, f>>] = [value |-> values'[c].val[f], reason |-> "edit"]
    <3>1. values'[c] = listed(c).row /\ ValueRow(listed(c).row)
      BY <1>3, <1>5, <2>2
    <3>2. f \in ValueFields
      BY <2>2, <3>1 DEF ValueRow
    <3>3. f \in values[c].origin \ listed(c).reverted /\ listed(c).row.val[f] = values[c].val[f] /\ values[c] # NoRow
      BY <1>5, <2>2, <3>1 DEF Follows
    <3>4. newest[<<c, f>>] = [value |-> values[c].val[f], reason |-> "edit"]
      BY <2>2, <3>3 DEF Explained, HistoryExplainsRow
    <3>5. QED
      BY <1>6, <3>1, <3>2, <3>3, <3>4
  <2>3. QED
    BY <2>1, <2>2 DEF Explained, HistoryExplainsRow
<1>10. UnitsAgree'
  <2>1. ShownUnitPermitted'
    BY <1>3, <1>4 DEF ShownUnitPermitted, Permitted
  <2>2. CorrectionIsDated'
    <3>1. SUFFICES ASSUME attr' # NoRow, "storedUnit" \in attr'.origin
                   PROVE  \E d \in Date : periods[d] = attr'.val["storedUnit"] /\ \A e \in Date : periods[e] # Null => e <= d
      BY <1>3 DEF CorrectionIsDated
    <3>2. "storedUnit" \in attr.origin /\ attr'.val["storedUnit"] = attr.val["storedUnit"] /\ attr # NoRow
      BY <1>3, <1>4, <3>1 DEF Follows
    <3>3. QED
      BY <3>2 DEF UnitsAgree, CorrectionIsDated
  <2>3. QED
    BY <2>1, <2>2 DEF UnitsAgree
<1>11. Followed' /\ SyncedRowsFollowCode'
  <2>1. SUFFICES ASSUME syncedAt' = running', CodeOf(running)'.attribute # Null PROVE Followed' /\ SyncedRowsFollowCode'
    BY DEF Followed, SyncedRowsFollowCode
  <2>2. CodeOf(running)' = code /\ code.attribute # Null
    BY <1>3, <2>1 DEF code, CodeOf
  <2>3. attr' # NoRow /\ AttrRow(attr') /\ \A f \in Fields \ attr'.origin : attr'.val[f] = code.attribute[f]
    BY <1>3, <1>4, <2>2
  <2>4. ASSUME NEW c \in Code
        PROVE  /\ values'[c] = NoRow => c \notin DOMAIN code.values
               /\ c \in DOMAIN code.values => \A f \in ValueFields \ values'[c].origin : values'[c].val[f] = code.values[c][f]
               /\ code.attribute["codeList"] = "closed" =>
                     /\ c \in DOMAIN code.values => values'[c].val["retired"] = code.values[c]["retired"]
                     /\ c \notin DOMAIN code.values => values'[c] = NoRow \/ values'[c].val["retired"]
    <3>1. values'[c] = PlannedValue(values[c], code, c).row
      BY <1>3, <1>5, <2>2
    <3>2. values[c] = NoRow \/ ValueRow(values[c])
      BY DEF TypeOK
    <3>3. QED
      BY <1>2, <2>2, <3>1, <3>2, PlannedValueHolds
  <2>5. DOMAIN code.values \subseteq Code
    BY <1>2 DEF CodeRow
  <2>6. Followed'
    BY <2>2, <2>3, <2>4, <2>5 DEF Followed
  <2>7. code.attribute["codeList"] = "closed" =>
            {c \in Code : values'[c] # NoRow /\ ~values'[c].val["retired"]}
              = {c \in DOMAIN code.values : ~code.values[c]["retired"]}
    BY <2>4, <2>5
  <2>8. SyncedRowsFollowCode'
    BY <2>2, <2>3, <2>4, <2>5, <2>7 DEF SyncedRowsFollowCode, AttrRow
  <2>9. QED
    BY <2>6, <2>8
<1>12. Vouched'
  <2>1. SUFFICES ASSUME NEW u \in Staff, form[u] # Null
                 PROVE  /\ form[u].revision \in Nat /\ form[u].revision <= revision'
                        /\ form[u].revision = revision' => Shows(form[u])'
    BY <1>3 DEF Vouched
  <2>2. attr # NoRow
    BY <2>1 DEF FormsOpen
  <2>3. /\ form[u].revision \in Nat /\ form[u].revision <= revision
        /\ form[u].revision = revision => Shows(form[u])
    BY <2>1 DEF Vouched
  <2>4. revision' = revision + Bumps(plan) /\ Bumps(plan) \in Nat /\ revision \in Nat
    BY <1>2b, <1>6a, <2>2, BumpsCount DEF TypeOK
  <2>5. ASSUME form[u].revision = revision' PROVE Shows(form[u])'
    <3>1. Bumps(plan) = 0 /\ Shows(form[u])
      BY <2>3, <2>4, <2>5
    <3>2. \A o \in Owners : plan[o].reverted = {} /\ ~plan[o].updated
      BY <1>6a, <3>1, BumpsCount
    <3>3. attr'.val = attr.val
      BY <1>2a, <1>3, <1>4, <2>2, <3>2 DEF Quiet, Owners
    <3>4. ASSUME NEW c \in Code, values[c] # NoRow PROVE values'[c] # NoRow /\ values'[c].val = values[c].val
      BY <1>2a, <1>3, <1>5, <3>2, <3>4 DEF Quiet, Owners
    <3>5. QED
      BY <1>3, <3>1, <3>3, <3>4 DEF Shows
  <2>6. QED
    BY <2>3, <2>4, <2>5
<1>13. QED
  BY <1>7, <1>8, <1>9, <1>10, <1>11, <1>12

-----------------------------------------------------------------------------
(* Staff writes *)

\* A staff write leaves the sync and the release alone, and finds no sync that has read: that one holds the lock.
LEMMA StaffKeeps ==
    ASSUME IInv, NEW u \in Staff, StaffWrite(u)
    PROVE  /\ AttrRow(attr) /\ attr # NoRow /\ UNCHANGED <<releases, running, syncedAt>> /\ DOMAIN form' = Staff
           /\ writes' \in Nat
           /\ attr' # NoRow => FormsOpen'
           /\ ReadFresh'
<1> USE DEF IInv
<1>1. /\ form[u] # Null /\ lock = Nobody /\ form' = [form EXCEPT ![u] = Null]
      /\ UNCHANGED <<releases, running, lock, sync, syncedAt>>
  BY DEF StaffWrite, LockDictionary, deployed
<1>2. attr # NoRow /\ AttrRow(attr)
  BY <1>1 DEF FormsOpen, TypeOK
<1>3. DOMAIN form' = Staff /\ (attr' # NoRow => FormsOpen')
  BY <1>1 DEF FormsOpen, TypeOK
<1>4. sync # Null => sync.read = Null
  BY <1>1, DictionaryAssumption DEF ReadFresh
<1>5. ReadFresh'
  BY <1>1, <1>4 DEF ReadFresh
<1>6. writes' \in Nat
  BY DEF StaffWrite, TypeOK
<1>7. QED
  BY <1>1, <1>2, <1>3, <1>5, <1>6

\* Either the revision moves, which makes every open form out of date, or what a form shows stays.
LEMMA WriteVouches ==
    ASSUME IInv, NEW u \in Staff, StaffWrite(u),
           \/ revision' = revision + 1
           \/ /\ revision' = revision /\ attr'.val = attr.val
              /\ \A c \in Code : values[c] # NoRow => values'[c] # NoRow /\ values'[c].val = values[c].val
    PROVE  revision' \in Nat /\ Vouched'
<1>1. revision' \in Nat /\ revision' >= revision /\ revision \in Nat
  BY DEF IInv, TypeOK
<1>2. SUFFICES ASSUME NEW v \in Staff, form'[v] # Null
               PROVE  /\ form'[v] = [revision |-> form'[v].revision, attr |-> form'[v].attr, values |-> form'[v].values]
                      /\ form'[v].revision \in Nat /\ form'[v].revision <= revision'
                      /\ form'[v].revision = revision' => Shows(form[v])'
  BY <1>1 DEF Vouched
<1>3. form'[v] = form[v]
  BY <1>2 DEF StaffWrite, IInv, TypeOK
<1>4. /\ form[v] = [revision |-> form[v].revision, attr |-> form[v].attr, values |-> form[v].values]
      /\ form[v].revision \in Nat /\ form[v].revision <= revision
      /\ form[v].revision = revision => Shows(form[v])
  BY <1>2, <1>3 DEF IInv, Vouched
<1>5. ASSUME form[v].revision = revision' PROVE Shows(form[v])'
  <2>1. revision' = revision /\ Shows(form[v])
    BY <1>1, <1>4, <1>5
  <2>2. /\ attr'.val = attr.val
        /\ \A c \in Code : values[c] # NoRow => values'[c] # NoRow /\ values'[c].val = values[c].val
    BY <1>1, <2>1
  <2>3. QED
    BY <1>3, <2>1, <2>2 DEF Shows
<1>6. QED
  BY <1>1, <1>3, <1>4, <1>5

\* A write of the attribute keeps the invariant when the fields of fs, and no others, get a history row that
\* explains them, and every field left unmarked is the code's or untouched.
LEMMA AttributeStep ==
    ASSUME IInv, NEW u \in Staff, StaffWrite(u), UNCHANGED values, DOMAIN periods' = Date, AttrRow(attr'),
           NEW fs, NEW val, NEW reason, newest' = Recorded(newest, "attr", fs, val, reason),
           \A f \in OfferedFields : f \in attr'.origin <=> IF f \in fs THEN reason = "edit" ELSE f \in attr.origin,
           \A f \in attr'.origin : attr'.val[f] = IF f \in fs THEN val[f] ELSE attr.val[f],
           \A f \in Fields \ attr'.origin :
               \/ f \notin attr.origin /\ attr'.val[f] = attr.val[f]
               \/ attr'.val[f] = CodeOf(running).attribute[f],
           revision' = revision + 1 \/ (revision' = revision /\ attr'.val = attr.val),
           UnitsAgree'
    PROVE  IInv'
<1> USE DEF IInv
<1>1. /\ AttrRow(attr) /\ attr # NoRow /\ attr' # NoRow /\ UNCHANGED <<releases, running, syncedAt>>
      /\ DOMAIN form' = Staff /\ writes' \in Nat /\ FormsOpen' /\ ReadFresh'
  BY StaffKeeps, RowsAreStored
<1>2. /\ DOMAIN newest' = HistoryKeys
      /\ \A f \in EditableFields : newest'[<<"attr", f>>] = IF f \in fs THEN [value |-> val[f], reason |-> reason]
                                                            ELSE newest[<<"attr", f>>]
      /\ \A c \in Code, f \in ValueFields : newest'[<<c, f>>] = newest[<<c, f>>]
  <2> DEFINE after == Recorded(newest, "attr", fs, val, reason)
  <2>1. /\ DOMAIN after = HistoryKeys
        /\ \A f \in EditableFields : after[<<"attr", f>>] = IF f \in fs THEN [value |-> val[f], reason |-> reason]
                                                            ELSE newest[<<"attr", f>>]
        /\ \A c \in Code, f \in ValueFields : after[<<c, f>>] = IF "attr" = c /\ f \in fs
                                                               THEN [value |-> val[f], reason |-> reason]
                                                               ELSE newest[<<c, f>>]
    BY RecordedAt
  <2>2. newest' = after
    OBVIOUS
  <2> HIDE DEF after
  <2>3. QED
    BY <2>1, <2>2, DictionaryAssumption
<1>2a. revision' \in Nat /\ Vouched'
  <2>1. \A c \in Code : values[c] # NoRow => values'[c] # NoRow /\ values'[c].val = values[c].val
    OBVIOUS
  <2>2. QED
    BY <2>1, WriteVouches
<1>3. TypeOK'
  BY <1>1, <1>2, <1>2a DEF TypeOK
<1>4. Explained'
  <2>1. ASSUME NEW f \in OfferedFields
        PROVE  /\ f \in attr'.origin <=> newest'[<<"attr", f>>].reason = "edit"
               /\ f \in attr'.origin => newest'[<<"attr", f>>].value = attr'.val[f]
    <3>1. newest'[<<"attr", f>>] = IF f \in fs THEN [value |-> val[f], reason |-> reason] ELSE newest[<<"attr", f>>]
      BY <1>2, RowsAreStored
    <3>2. /\ f \in attr.origin <=> newest[<<"attr", f>>].reason = "edit"
          /\ f \in attr.origin => newest[<<"attr", f>>].value = attr.val[f]
      BY <1>1 DEF Explained, HistoryExplainsRow
    <3>3. QED
      BY <3>1, <3>2
  <2>2. ASSUME NEW c \in Code, values'[c] # NoRow, NEW f \in values'[c].origin \ {"code"}
        PROVE  newest'[<<c, f>>] = [value |-> values'[c].val[f], reason |-> "edit"]
    <3>1. f \in ValueFields
      BY <2>2 DEF TypeOK, ValueRow
    <3>2. newest[<<c, f>>] = [value |-> values[c].val[f], reason |-> "edit"]
      BY <2>2 DEF Explained, HistoryExplainsRow
    <3>3. QED
      BY <1>2, <3>1, <3>2
  <2>3. QED
    BY <1>1, <2>1, <2>2 DEF Explained, HistoryExplainsRow
<1>5. Followed' /\ SyncedRowsFollowCode'
  <2>1. SUFFICES ASSUME syncedAt' = running', CodeOf(running)'.attribute # Null PROVE Followed' /\ SyncedRowsFollowCode'
    BY DEF Followed, SyncedRowsFollowCode
  <2>2. CodeOf(running)' = CodeOf(running) /\ syncedAt = running
    BY <1>1, <2>1 DEF CodeOf
  <2>3. Followed'
    BY <1>1, <2>1, <2>2 DEF Followed
  <2>4. \A f \in DOMAIN attr.val \ attr.origin : attr.val[f] = CodeOf(running).attribute[f]
    BY <2>1, <2>2 DEF SyncedRowsFollowCode
  <2>5. \A f \in DOMAIN attr'.val \ attr'.origin : attr'.val[f] = CodeOf(running).attribute[f]
    BY <1>1, <2>4 DEF AttrRow
  <2>6. SyncedRowsFollowCode'
    BY <2>1, <2>2, <2>5 DEF SyncedRowsFollowCode
  <2>7. QED
    BY <2>3, <2>6
<1>6. QED
  BY <1>1, <1>2a, <1>3, <1>4, <1>5

\* A write of the value c keeps the invariant when its history explains it and, while the rows follow the
\* code, it leaves what the code decides.
LEMMA ValueStep ==
    ASSUME IInv, NEW u \in Staff, StaffWrite(u), UNCHANGED <<attr, periods>>,
           NEW c \in Code, NEW row, ValueRow(row), values' = [values EXCEPT ![c] = row],
           NEW fs, NEW val, NEW reason, newest' = Recorded(newest, c, fs, val, reason),
           \A f \in row.origin \ {"code"} :
               IF f \in fs THEN reason = "edit" /\ row.val[f] = val[f]
               ELSE values[c] # NoRow /\ f \in values[c].origin /\ row.val[f] = values[c].val[f],
           \/ revision' = revision + 1
           \/ revision' = revision /\ values[c] # NoRow /\ row.val = values[c].val,
           CodeOf(running).attribute # Null /\ syncedAt = running =>
               /\ c \in DOMAIN CodeOf(running).values =>
                     \A f \in ValueFields \ row.origin : row.val[f] = CodeOf(running).values[c][f]
               /\ attr.val["codeList"] = "closed" => values[c] # NoRow /\ row.val["retired"] = values[c].val["retired"]
    PROVE  IInv'
<1> USE DEF IInv
<1>1. /\ AttrRow(attr) /\ attr # NoRow /\ UNCHANGED <<releases, running, syncedAt>>
      /\ DOMAIN form' = Staff /\ writes' \in Nat /\ FormsOpen' /\ ReadFresh' /\ row # NoRow
  BY StaffKeeps, RowsAreStored
<1>2. /\ DOMAIN newest' = HistoryKeys
      /\ \A f \in EditableFields : newest'[<<"attr", f>>] = newest[<<"attr", f>>]
      /\ \A d \in Code, f \in ValueFields : newest'[<<d, f>>] = IF d = c /\ f \in fs THEN [value |-> val[f], reason |-> reason]
                                                                 ELSE newest[<<d, f>>]
  <2> DEFINE after == Recorded(newest, c, fs, val, reason)
  <2>1. c # "attr"
    BY DictionaryAssumption
  <2>2. /\ DOMAIN after = HistoryKeys
        /\ \A f \in EditableFields : after[<<"attr", f>>] = IF c = "attr" /\ f \in fs
                                                            THEN [value |-> val[f], reason |-> reason]
                                                            ELSE newest[<<"attr", f>>]
        /\ \A d \in Code, f \in ValueFields : after[<<d, f>>] = IF c = d /\ f \in fs
                                                               THEN [value |-> val[f], reason |-> reason]
                                                               ELSE newest[<<d, f>>]
    BY RecordedAt
  <2>3. newest' = after
    OBVIOUS
  <2> HIDE DEF after
  <2>4. QED
    BY <2>1, <2>2, <2>3
<1>3. /\ DOMAIN values' = Code /\ values'[c] = row
      /\ \A d \in Code : d # c => values'[d] = values[d]
  BY DEF TypeOK
<1>3a. revision' \in Nat /\ Vouched'
  <2>1. CASE revision' = revision + 1
    BY <2>1, WriteVouches
  <2>2. CASE revision' = revision /\ values[c] # NoRow /\ row.val = values[c].val
    <3>1. \A d \in Code : values[d] # NoRow => values'[d] # NoRow /\ values'[d].val = values[d].val
      BY <1>1, <1>3, <2>2
    <3>2. QED
      BY <2>2, <3>1, WriteVouches
  <2>3. QED
    BY <2>1, <2>2
<1>4. TypeOK'
  BY <1>1, <1>2, <1>3, <1>3a DEF TypeOK
<1>5. Explained'
  <2>1. ASSUME NEW f \in OfferedFields
        PROVE  /\ f \in attr'.origin <=> newest'[<<"attr", f>>].reason = "edit"
               /\ f \in attr'.origin => newest'[<<"attr", f>>].value = attr'.val[f]
    <3>1. f \in EditableFields
      BY RowsAreStored
    <3>2. newest'[<<"attr", f>>] = newest[<<"attr", f>>] /\ attr' = attr
      BY <1>2, <3>1
    <3>3. /\ f \in attr.origin <=> newest[<<"attr", f>>].reason = "edit"
          /\ f \in attr.origin => newest[<<"attr", f>>].value = attr.val[f]
      BY <1>1 DEF Explained, HistoryExplainsRow
    <3>4. QED
      BY <3>2, <3>3
  <2>2. ASSUME NEW d \in Code, values'[d] # NoRow, NEW f \in values'[d].origin \ {"code"}
        PROVE  newest'[<<d, f>>] = [value |-> values'[d].val[f], reason |-> "edit"]
    <3>1. f \in ValueFields
      BY <1>4, <2>2 DEF TypeOK, ValueRow
    <3>2. values[d] # NoRow /\ f \in values[d].origin => newest[<<d, f>>] = [value |-> values[d].val[f], reason |-> "edit"]
      BY <2>2 DEF Explained, HistoryExplainsRow
    <3>3. CASE d = c
      <4>1. values'[d] = row
        BY <1>3, <3>3
      <4>2. f \in row.origin \ {"code"}
        BY <2>2, <4>1
      <4>3. CASE f \in fs
        BY <1>2, <3>1, <3>3, <4>1, <4>2, <4>3
      <4>4. CASE f \notin fs
        BY <1>2, <3>1, <3>2, <3>3, <4>1, <4>2, <4>4
      <4>5. QED
        BY <4>3, <4>4
    <3>4. CASE d # c
      BY <1>2, <1>3, <2>2, <3>1, <3>2, <3>4
    <3>5. QED
      BY <3>3, <3>4
  <2>3. QED
    BY <1>1, <2>1, <2>2 DEF Explained, HistoryExplainsRow
<1>6. UnitsAgree'
  BY DEF UnitsAgree, ShownUnitPermitted, CorrectionIsDated
<1>7. Followed' /\ SyncedRowsFollowCode'
  <2> DEFINE code == CodeOf(running)
  <2>1. SUFFICES ASSUME syncedAt' = running', CodeOf(running)'.attribute # Null PROVE Followed' /\ SyncedRowsFollowCode'
    BY DEF Followed, SyncedRowsFollowCode
  <2>2. CodeOf(running)' = code /\ syncedAt = running
    BY <1>1, <2>1 DEF CodeOf
  <2>3. CodeRow(code)
    BY CodeIsChecked DEF TypeOK
  <2>4. DOMAIN code.values \subseteq Code
    BY <2>3 DEF CodeRow
  <2> HIDE DEF code
  <2>5. Followed'
    BY <1>1, <1>3, <2>1, <2>2, <2>4 DEF Followed, code
  <2>6. \A d \in DOMAIN code.values : \A f \in ValueFields \ values'[d].origin : values'[d].val[f] = code.values[d][f]
    BY <1>3, <2>1, <2>2, <2>4 DEF SyncedRowsFollowCode, code
  <2>7. \A f \in DOMAIN attr.val \ attr.origin : attr.val[f] = code.attribute[f]
    BY <2>1, <2>2 DEF SyncedRowsFollowCode, code
  <2>8. attr.val["codeList"] = code.attribute["codeList"]
    BY <1>1, <2>7 DEF AttrRow, Fields, EditableFields, OfferedFields
  <2>9. ASSUME code.attribute["codeList"] = "closed"
        PROVE  {d \in Code : values'[d] # NoRow /\ ~values'[d].val["retired"]}
                 = {d \in DOMAIN code.values : ~code.values[d]["retired"]}
    <3>1. \A d \in Code : values'[d] # NoRow /\ ~values'[d].val["retired"] <=> values[d] # NoRow /\ ~values[d].val["retired"]
      BY <1>1, <1>3, <2>1, <2>2, <2>8, <2>9 DEF code
    <3>2. {d \in Code : values[d] # NoRow /\ ~values[d].val["retired"]} = {d \in DOMAIN code.values : ~code.values[d]["retired"]}
      BY <2>1, <2>2, <2>9 DEF SyncedRowsFollowCode, code
    <3>3. QED
      BY <3>1, <3>2
  <2>10. SyncedRowsFollowCode'
    BY <2>1, <2>2, <2>6, <2>7, <2>9 DEF SyncedRowsFollowCode
  <2>11. QED
    BY <2>5, <2>10
<1>8. QED
  BY <1>1, <1>3a, <1>4, <1>5, <1>6, <1>7

\* What an edit does to a row: the fields whose value changes are marked, the others stay.
LEMMA EditedRow ==
    ASSUME NEW row, NEW set, DOMAIN set \subseteq DOMAIN row.val
    PROVE  LET after == Edited(row, set)
               changing == Changing(row.val, set)
           IN  /\ after.origin = row.origin \cup changing /\ DOMAIN after.val = DOMAIN row.val /\ Written(after.val)
               /\ changing \subseteq DOMAIN set
               /\ \A f \in DOMAIN row.val : after.val[f] = IF f \in changing THEN set[f] ELSE row.val[f]
               /\ \A f \in DOMAIN row.val \ DOMAIN set : after.val[f] = row.val[f]
  BY DEF Edited, Changing, With, Written, HasFields

\* A corrected unit is the one the dated periods end with.
LEMMA CorrectionDated ==
    ASSUME DOMAIN periods = Date, NEW val, NEW unit, NEW from \in Date, CheckStoredUnit(val, unit, from)
    PROVE  LET after == WithPeriod(val, unit, from)
           IN  DOMAIN after = Date /\ after[from] = unit /\ \A e \in Date : after[e] # Null => e <= from
<1> DEFINE none == \A d \in Date : periods[d] = Null
           covered == IF none THEN [periods EXCEPT ![val["validFrom"]] = val["storedUnit"]] ELSE periods
           after == [covered EXCEPT ![from] = unit]
<1>1. DOMAIN covered = Date
  OBVIOUS
<1>2. \A e \in Date : covered[e] # Null => e = val["validFrom"] \/ periods[e] # Null
  OBVIOUS
<1>3. from >= val["validFrom"] /\ \A d \in Date : periods[d] # Null => from >= d
  BY DEF CheckStoredUnit
<1>4. \A e \in Date : e \in Int
  BY DictionaryAssumption DEF Date
<1> HIDE DEF covered
<1>5. DOMAIN after = Date /\ after[from] = unit /\ \A e \in Date : e # from => after[e] = covered[e]
  BY <1>1
<1>6. WithPeriod(val, unit, from) = after
  BY DEF WithPeriod, covered
<1> HIDE DEF after
<1>7. QED
  BY <1>2, <1>3, <1>4, <1>5, <1>6

\* An edit of the attribute: checkAttribute keeps the unit shown permitted, checkStoredUnit the correction dated.
LEMMA EditAttributeStep ==
    ASSUME IInv, NEW u \in Staff, NEW edit \in AttributeEdit, NEW from \in EditDate(edit), EditAttribute(u, edit, from)
    PROVE  IInv'
<1> USE DEF IInv
<1> DEFINE changing == Changing(attr.val, edit)
           correcting == "storedUnit" \in changing
<1>1. /\ StaffWrite(u) /\ CheckAttribute(attr.val, edit)
      /\ correcting => CheckStoredUnit(attr.val, edit["storedUnit"], from)
      /\ attr' = Edited(attr, edit) /\ BumpIf(changing # {})
      /\ newest' = Recorded(newest, "attr", changing, edit, "edit")
      /\ periods' = IF correcting THEN WithPeriod(attr.val, edit["storedUnit"], from) ELSE periods
      /\ values' = values
  BY DEF EditAttribute
<1>2. AttrRow(attr) /\ attr # NoRow
  BY <1>1, StaffKeeps
<1>3. DOMAIN edit \subseteq OfferedFields /\ DOMAIN edit \subseteq Fields
  BY DEF AttributeEdit, OfferedFields, EditableFields, Fields
<1>4. /\ attr'.origin = attr.origin \cup changing /\ DOMAIN attr'.val = Fields /\ Written(attr'.val)
      /\ changing \subseteq DOMAIN edit
      /\ \A f \in Fields : attr'.val[f] = IF f \in changing THEN edit[f] ELSE attr.val[f]
      /\ \A f \in Fields \ DOMAIN edit : attr'.val[f] = attr.val[f]
  BY <1>1, <1>2, <1>3, EditedRow DEF AttrRow
<1>5. from \in Date
  BY DictionaryAssumption DEF EditDate, Date
<1>6. "storedUnit" \in Fields /\ "displayUnit" \in Fields /\ "displayUnits" \in Fields
  BY DEF Fields, EditableFields
<1>7. correcting => /\ DOMAIN periods' = Date /\ periods'[from] = edit["storedUnit"]
                    /\ \A e \in Date : periods'[e] # Null => e <= from
  <2> HIDE DEF changing
  <2>1. CASE correcting
    BY <1>1, <1>5, <2>1, CorrectionDated DEF TypeOK
  <2>2. QED
    BY <2>1
<1>8. ShownUnitPermitted'
  <2>1. /\ attr'.val["displayUnit"] = With(attr.val, edit)["displayUnit"]
        /\ attr'.val["displayUnits"] = With(attr.val, edit)["displayUnits"]
    BY <1>1 DEF Edited
  <2>2. CASE "displayUnit" \in DOMAIN edit \/ "displayUnits" \in DOMAIN edit
    BY <1>1, <2>1, <2>2 DEF CheckAttribute, ShownUnitPermitted
  <2>3. CASE "displayUnit" \notin DOMAIN edit /\ "displayUnits" \notin DOMAIN edit
    BY <1>2, <1>4, <1>6, <2>3 DEF UnitsAgree, ShownUnitPermitted
  <2>4. QED
    BY <2>2, <2>3
<1> HIDE DEF changing
<1>9. CorrectionIsDated'
  <2>1. CASE correcting
    <3>1. attr'.val["storedUnit"] = edit["storedUnit"]
      BY <1>4, <1>6, <2>1
    <3>2. QED
      BY <1>5, <1>7, <2>1, <3>1 DEF CorrectionIsDated
  <2>2. CASE ~correcting
    <3>1. attr'.val["storedUnit"] = attr.val["storedUnit"] /\ periods' = periods
          /\ ("storedUnit" \in attr'.origin => "storedUnit" \in attr.origin)
      BY <1>1, <1>4, <1>6, <2>2
    <3>2. QED
      BY <1>2, <3>1 DEF UnitsAgree, CorrectionIsDated
  <2>3. QED
    BY <2>1, <2>2
<1>10. AttrRow(attr')
  BY <1>2, <1>3, <1>4 DEF AttrRow
<1>11. /\ \A f \in OfferedFields : f \in attr'.origin <=> IF f \in changing THEN "edit" = "edit" ELSE f \in attr.origin
       /\ \A f \in attr'.origin : attr'.val[f] = IF f \in changing THEN edit[f] ELSE attr.val[f]
       /\ \A f \in Fields \ attr'.origin : f \notin attr.origin /\ attr'.val[f] = attr.val[f]
  <2>1. \A f \in attr'.origin : f \in Fields
    BY <1>10, RowsAreStored DEF AttrRow
  <2>2. QED
    BY <1>4, <2>1
<1>12. DOMAIN periods' = Date
  BY <1>1, <1>7 DEF TypeOK
<1>12a. revision' = revision + 1 \/ (revision' = revision /\ attr'.val = attr.val)
  <2>1. CASE changing = {}
    BY <1>1, <1>2, <1>4, <2>1, WrittenRows DEF BumpIf, AttrRow
  <2>2. CASE changing # {}
    BY <1>1, <2>2 DEF BumpIf
  <2>3. QED
    BY <2>1, <2>2
<1>13. UnitsAgree'
  BY <1>8, <1>9 DEF UnitsAgree
<1>14. QED
  BY <1>1, <1>10, <1>11, <1>12, <1>12a, <1>13, AttributeStep

\* A restore of one field of the attribute, with its companion when the two would not agree.
LEMMA RestoreFieldsStep ==
    ASSUME IInv, NEW u \in Staff, NEW f \in RestorableFields, RestoreFields(u, {f})
    PROVE  IInv'
<1> USE DEF IInv
<1> DEFINE code == CodeOf(running).attribute
           asked == WithCompanions({f}, attr.val, code)
           fields == Restorable(attr, code, asked)
<1>1. /\ StaffWrite(u) /\ code # Null /\ attr' = Restored(attr, code, fields) /\ BumpIf(fields # {})
      /\ newest' = Recorded(newest, "attr", fields, code, "restore")
      /\ values' = values /\ periods' = periods
  BY DEF RestoreFields
<1>2. AttrRow(attr) /\ attr # NoRow
  BY <1>1, StaffKeeps
<1>3. CodeRow(CodeOf(running))
  BY CodeIsChecked DEF TypeOK
<1>4. DOMAIN code = Fields /\ Permitted(code)
  BY <1>1, <1>3 DEF CodeRow
<1>5. asked \subseteq RestorableFields /\ RestorableFields \subseteq Fields \ {"storedUnit"} /\ RestorableFields \subseteq OfferedFields
  BY DEF WithCompanions, RestorableFields, OfferedFields, EditableFields, Fields
<1>6. /\ fields \subseteq asked
      /\ \A g \in asked \ fields : g \notin attr.origin /\ attr.val[g] = code[g]
  BY DEF Restorable
<1>7. /\ attr'.val = [g \in Fields |-> IF g \in fields THEN code[g] ELSE attr.val[g]]
      /\ attr'.origin = attr.origin \ fields
  BY <1>1, <1>2 DEF Restored, AttrRow
<1>8. \A g \in Fields : attr'.val[g] = IF g \in asked THEN code[g] ELSE attr.val[g]
  <2> HIDE DEF fields, asked, code
  <2>1. QED
    BY <1>6, <1>7
<1>9. ShownUnitPermitted'
  <2>1. /\ "displayUnit" \in Fields /\ "displayUnits" \in Fields
        /\ attr.val["displayUnit"] # Null => attr.val["displayUnit"] \in attr.val["displayUnits"]
        /\ code["displayUnit"] # Null => code["displayUnit"] \in code["displayUnits"]
    BY <1>2, <1>4 DEF UnitsAgree, ShownUnitPermitted, Permitted, Fields, EditableFields
  <2> DEFINE units == IF f = "displayUnits" THEN code["displayUnits"] ELSE attr.val["displayUnits"]
             shown == IF f = "displayUnit" THEN code["displayUnit"] ELSE attr.val["displayUnit"]
  <2>2. asked = IF shown # Null /\ shown \notin units THEN {f} \cup {"displayUnit", "displayUnits"} ELSE {f}
    BY DEF WithCompanions
  <2> HIDE DEF asked, fields, code
  <2>3. CASE shown # Null /\ shown \notin units
    BY <1>8, <2>1, <2>2, <2>3 DEF ShownUnitPermitted
  <2>4. CASE ~(shown # Null /\ shown \notin units)
    <3>1. attr'.val["displayUnit"] = shown /\ attr'.val["displayUnits"] = units
      BY <1>8, <2>1, <2>2, <2>4
    <3>2. QED
      BY <2>4, <3>1 DEF ShownUnitPermitted
  <2>5. QED
    BY <2>3, <2>4
<1> HIDE DEF fields, asked, code
<1>10. CorrectionIsDated'
  <2>1. "storedUnit" \in Fields /\ attr'.val["storedUnit"] = attr.val["storedUnit"]
    BY <1>5, <1>8 DEF Fields, EditableFields
  <2>2. QED
    BY <1>1, <1>2, <1>7, <2>1 DEF UnitsAgree, CorrectionIsDated
<1>11. AttrRow(attr')
  <2>1. HasFields(attr'.val, Fields)
    BY <1>7 DEF HasFields
  <2>2. QED
    BY <1>2, <1>7, <2>1, WrittenRows DEF AttrRow
<1>11a. revision' = revision + 1 \/ (revision' = revision /\ attr'.val = attr.val)
  <2>1. CASE fields = {}
    <3>1. \A g \in Fields : attr'.val[g] = attr.val[g]
      BY <1>7, <2>1
    <3>2. QED
      BY <1>1, <1>2, <1>11, <2>1, <3>1, WrittenRows DEF BumpIf, AttrRow
  <2>2. CASE fields # {}
    BY <1>1, <2>2 DEF BumpIf
  <2>3. QED
    BY <2>1, <2>2
<1>12. /\ \A g \in OfferedFields : g \in attr'.origin <=> IF g \in fields THEN "restore" = "edit" ELSE g \in attr.origin
       /\ \A g \in attr'.origin : attr'.val[g] = IF g \in fields THEN code[g] ELSE attr.val[g]
       /\ \A g \in Fields \ attr'.origin : \/ g \notin attr.origin /\ attr'.val[g] = attr.val[g]
                                           \/ attr'.val[g] = code[g]
  <2>1. \A g \in attr'.origin : g \in Fields
    BY <1>11, RowsAreStored DEF AttrRow
  <2>2. QED
    BY <1>7, <2>1
<1>13. DOMAIN periods' = Date /\ UnitsAgree'
  BY <1>1, <1>9, <1>10 DEF TypeOK, UnitsAgree
<1>14. QED
  BY <1>1, <1>11, <1>11a, <1>12, <1>13, AttributeStep DEF code

\* Once the rows follow the code, the stored list is what the code says it is: staff cannot edit that.
LEMMA ListIsTheCodes ==
    ASSUME IInv, AttrRow(attr), CodeOf(running).attribute # Null, syncedAt = running
    PROVE  attr.val["codeList"] = CodeOf(running).attribute["codeList"]
<1>1. "codeList" \in DOMAIN attr.val \ attr.origin
  BY DEF AttrRow, Fields, EditableFields, OfferedFields
<1>2. QED
  BY <1>1 DEF IInv, SyncedRowsFollowCode

\* A code staff add: the list is open and the code not in the dictionary, whose values are all stored.
LEMMA AddValueStep ==
    ASSUME IInv, NEW u \in Staff, NEW c \in Code, NEW name \in Text, AddValue(u, c, name)
    PROVE  IInv'
<1> DEFINE row == [val |-> [name |-> name, retired |-> FALSE], origin |-> {"code", "name"}]
           set == [name |-> name]
           fs == {"name"}
<1>1. /\ StaffWrite(u) /\ attr.val["codeList"] = "open" /\ values[c] = NoRow
      /\ values' = [values EXCEPT ![c] = row] /\ newest' = Recorded(newest, c, fs, set, "edit")
      /\ UNCHANGED <<attr, periods>> /\ revision' = revision + 1
  BY DEF AddValue, BumpAttributeRevision, BumpIf
<1>2. ValueRow(row)
  BY DEF ValueRow, ValueFields, Written, HasFields
<1>3. \A f \in row.origin \ {"code"} : f \in fs /\ row.val[f] = set[f]
  OBVIOUS
<1> HIDE DEF row, set, fs
<1>4. \A f \in row.origin \ {"code"} :
          IF f \in fs THEN "edit" = "edit" /\ row.val[f] = set[f]
          ELSE values[c] # NoRow /\ f \in values[c].origin /\ row.val[f] = values[c].val[f]
  BY <1>3
<1>5. CodeOf(running).attribute # Null /\ syncedAt = running =>
          /\ c \in DOMAIN CodeOf(running).values =>
                \A f \in ValueFields \ row.origin : row.val[f] = CodeOf(running).values[c][f]
          /\ attr.val["codeList"] = "closed" => values[c] # NoRow /\ row.val["retired"] = values[c].val["retired"]
  BY <1>1 DEF IInv, Followed
<1>6. QED
  BY <1>1, <1>2, <1>4, <1>5, ValueStep

\* An edit of a listed value: in a closed list `retired` is not staff's to change.
LEMMA EditValueStep ==
    ASSUME IInv, NEW u \in Staff, NEW c \in Code, NEW edit \in ValueEdit, EditValue(u, c, edit)
    PROVE  IInv'
<1> DEFINE changing == Changing(values[c].val, edit)
           row == Edited(values[c], edit)
<1>1. /\ StaffWrite(u) /\ DOMAIN edit \cap LockedValueFields(attr.val["codeList"]) = {} /\ values[c] # NoRow
      /\ values' = [values EXCEPT ![c] = row] /\ newest' = Recorded(newest, c, changing, edit, "edit")
      /\ UNCHANGED <<attr, periods>> /\ BumpIf(changing # {})
  BY DEF EditValue, BumpAttributeRevision
<1>2. ValueRow(values[c])
  BY <1>1 DEF IInv, TypeOK
<1>3. DOMAIN edit \subseteq ValueFields
  BY DEF ValueEdit, ValueFields
<1>4. /\ row.origin = values[c].origin \cup changing /\ DOMAIN row.val = ValueFields /\ Written(row.val) /\ changing \subseteq DOMAIN edit
      /\ \A f \in ValueFields : row.val[f] = IF f \in changing THEN edit[f] ELSE values[c].val[f]
      /\ \A f \in ValueFields \ DOMAIN edit : row.val[f] = values[c].val[f]
  BY <1>2, <1>3, EditedRow DEF ValueRow
<1> HIDE DEF changing, row
<1>5. ValueRow(row)
  BY <1>2, <1>3, <1>4 DEF ValueRow
<1>6. \A f \in row.origin \ {"code"} : IF f \in changing THEN "edit" = "edit" /\ row.val[f] = edit[f]
                                       ELSE values[c] # NoRow /\ f \in values[c].origin /\ row.val[f] = values[c].val[f]
  BY <1>1, <1>4, <1>5 DEF ValueRow
<1>7. ASSUME CodeOf(running).attribute # Null, syncedAt = running
      PROVE  /\ c \in DOMAIN CodeOf(running).values =>
                   \A f \in ValueFields \ row.origin : row.val[f] = CodeOf(running).values[c][f]
             /\ attr.val["codeList"] = "closed" => values[c] # NoRow /\ row.val["retired"] = values[c].val["retired"]
  <2>1. c \in DOMAIN CodeOf(running).values =>
            \A f \in ValueFields \ values[c].origin : values[c].val[f] = CodeOf(running).values[c][f]
    BY <1>7 DEF IInv, SyncedRowsFollowCode
  <2>2. attr.val["codeList"] = "closed" => "retired" \in ValueFields \ DOMAIN edit
    BY <1>1 DEF LockedValueFields, ValueFields
  <2>3. QED
    BY <1>1, <1>4, <2>1, <2>2
<1>8. \/ revision' = revision + 1
      \/ revision' = revision /\ values[c] # NoRow /\ row.val = values[c].val
  <2>1. CASE changing = {}
    <3>1. row.val = values[c].val
      BY <1>2, <1>4, <2>1, WrittenRows DEF ValueRow
    <3>2. QED
      BY <1>1, <2>1, <3>1 DEF BumpIf
  <2>2. CASE changing # {}
    BY <1>1, <2>2 DEF BumpIf
  <2>3. QED
    BY <2>1, <2>2
<1>9. QED
  BY <1>1, <1>5, <1>6, <1>7, <1>8, ValueStep

\* A restore of one field of a listed value.
LEMMA RestoreValueStep ==
    ASSUME IInv, NEW u \in Staff, NEW c \in Code, NEW g \in ValueFields, RestoreValue(u, c, {g})
    PROVE  IInv'
<1> DEFINE code == CodeOf(running)
           fields == Restorable(values[c], code.values[c], {g})
           row == Restored(values[c], code.values[c], fields)
<1>1. /\ StaffWrite(u) /\ {g} \cap LockedValueFields(attr.val["codeList"]) = {} /\ values[c] # NoRow
      /\ values' = [values EXCEPT ![c] = row]
      /\ newest' = Recorded(newest, c, fields, code.values[c], "restore")
      /\ UNCHANGED <<attr, periods>> /\ BumpIf(fields # {})
  BY DEF RestoreValue, BumpAttributeRevision
<1>2. ValueRow(values[c])
  BY <1>1 DEF IInv, TypeOK
<1>3. fields \subseteq {g}
  BY DEF Restorable
<1>4. /\ row.origin = values[c].origin \ fields
      /\ row.val = [f \in ValueFields |-> IF f \in fields THEN code.values[c][f] ELSE values[c].val[f]]
  BY <1>2 DEF Restored, ValueRow
<1> HIDE DEF fields, row, code
<1>5. ValueRow(row)
  <2>1. HasFields(row.val, ValueFields)
    BY <1>4 DEF HasFields
  <2>2. QED
    BY <1>2, <1>4, <2>1, WrittenRows DEF ValueRow
<1>6. \A f \in row.origin \ {"code"} :
          f \notin fields /\ values[c] # NoRow /\ f \in values[c].origin /\ row.val[f] = values[c].val[f]
  BY <1>1, <1>4, <1>5 DEF ValueRow
<1>7. ASSUME code.attribute # Null, syncedAt = running
      PROVE  /\ c \in DOMAIN code.values => \A f \in ValueFields \ row.origin : row.val[f] = code.values[c][f]
             /\ attr.val["codeList"] = "closed" => values[c] # NoRow /\ row.val["retired"] = values[c].val["retired"]
  <2>1. c \in DOMAIN code.values =>
            \A f \in ValueFields \ values[c].origin : values[c].val[f] = code.values[c][f]
    BY <1>7 DEF IInv, SyncedRowsFollowCode, code
  <2>2. attr.val["codeList"] = "closed" => "retired" \in ValueFields \ fields
    BY <1>1, <1>3 DEF LockedValueFields, ValueFields
  <2>3. QED
    BY <1>1, <1>4, <2>1, <2>2
<1>8. \/ revision' = revision + 1
      \/ revision' = revision /\ values[c] # NoRow /\ row.val = values[c].val
  <2>1. CASE fields = {}
    <3>1. \A f \in ValueFields : row.val[f] = values[c].val[f]
      BY <1>4, <2>1
    <3>2. row.val = values[c].val
      BY <1>2, <1>5, <3>1, WrittenRows DEF ValueRow
    <3>3. QED
      BY <1>1, <2>1, <3>2 DEF BumpIf
  <2>2. CASE fields # {}
    BY <1>1, <2>2 DEF BumpIf
  <2>3. QED
    BY <2>1, <2>2
<1>9. QED
  BY <1>1, <1>5, <1>6, <1>7, <1>8, ValueStep DEF code

-----------------------------------------------------------------------------
(* Every step, and every behaviour *)

\* The invariant is inductive.
LEMMA NextKeeps == IInv /\ [Next]_vars => IInv'
<1> SUFFICES ASSUME IInv, [Next]_vars PROVE IInv'
  OBVIOUS
<1>1. CASE SyncStarts
  BY <1>1, QuietStep DEF SyncStarts
<1>2. CASE SyncReads
  BY <1>2, QuietStep DEF SyncReads
<1>3. CASE SyncCommits
  BY <1>3, SyncCommitsStep
<1>4. CASE SyncRollsBack
  BY <1>4, QuietStep DEF SyncRollsBack
<1>5. CASE Deploy
  BY <1>5, QuietStep DEF Deploy
<1>6. ASSUME NEW u \in Staff, FormReadsAttribute(u) \/ FormReadsValues(u) \/ Refused(u) PROVE IInv'
  <2>1. UNCHANGED rows
    BY <1>6 DEF FormReadsAttribute, FormReadsValues, Refused
  <2>2. QED
    BY <1>6, <2>1, QuietStep
<1>7. ASSUME NEW u \in Staff, NEW edit \in AttributeEdit, NEW from \in EditDate(edit), EditAttribute(u, edit, from)
      PROVE  IInv'
  BY <1>7, EditAttributeStep
<1>8. ASSUME NEW u \in Staff, NEW f \in RestorableFields, RestoreFields(u, {f}) PROVE IInv'
  BY <1>8, RestoreFieldsStep
<1>9. ASSUME NEW u \in Staff, NEW c \in Code, NEW name \in Text, AddValue(u, c, name) PROVE IInv'
  BY <1>9, AddValueStep
<1>10. ASSUME NEW u \in Staff, NEW c \in Code, NEW edit \in ValueEdit, EditValue(u, c, edit) PROVE IInv'
  BY <1>10, EditValueStep
<1>11. ASSUME NEW u \in Staff, NEW c \in Code, NEW f \in ValueFields, RestoreValue(u, c, {f}) PROVE IInv'
  BY <1>11, RestoreValueStep
<1>12. CASE UNCHANGED vars
  BY <1>12, QuietStep DEF vars
<1>13. QED
  BY <1>1, <1>2, <1>3, <1>4, <1>5, <1>6, <1>7, <1>8, <1>9, <1>10, <1>11, <1>12 DEF Next

\* The inductive invariant: typed rows, forms over a stored attribute, a sync that has read the rows as they
\* are, rows that history and the code explain, and forms their revision vouches for.
THEOREM Invariance == Spec => []IInv
  BY InitHolds, NextKeeps, PTL DEF Spec

\* A field is marked as edited exactly when its newest history row is the staff edit that wrote what it holds, after
\* any order of edits, restores, syncs and releases (edit.ts, sync.ts, syncPlan.ts).
THEOREM HistoryExplainsRowHolds == Spec => []HistoryExplainsRow
<1>1. IInv => HistoryExplainsRow
  BY DEF IInv, Explained
<1>2. QED
  BY Invariance, <1>1, PTL

\* Once a sync of the running code has committed, every field staff have not edited holds the code's value, and a
\* closed list has in use exactly the codes the code has in use (syncPlan.ts reconcile, planValues; edit.ts).
THEOREM SyncedRowsFollowCodeHolds == Spec => []SyncedRowsFollowCode
<1>1. IInv => SyncedRowsFollowCode
  BY DEF IInv
<1>2. QED
  BY Invariance, <1>1, PTL

\* The unit shown is a permitted one and a corrected stored unit is the one the dated periods end with, although edit,
\* restore and sync each keep the rule in a way of their own (checkAttribute, withCompanions, attributeCheck).
THEOREM UnitsAgreeHolds == Spec => []UnitsAgree
<1>1. IInv => UnitsAgree
  BY DEF IInv
<1>2. QED
  BY Invariance, <1>1, PTL

\* A save changes only what its form showed: its revision is the attribute's, and any write of the attribute or of
\* one of its values since the form was read would have moved that (edit.ts checkRevision, sync.ts updateRow).
THEOREM NoLostUpdateHolds == Spec => NoLostUpdate
<1> DEFINE Seen(u) ==
             /\ \A f \in DOMAIN attr.val : attr'.val[f] # attr.val[f] => attr.val[f] = form[u].attr[f]
             /\ \A c \in Code : values'[c] # values[c] =>
                   form[u].values[c] = IF values[c] = NoRow THEN Null ELSE values[c].val
<1>1. ASSUME IInv, NEW u \in Staff, StaffWrite(u)
      PROVE  /\ form[u].attr = attr.val
             /\ \A c \in Code : form[u].values[c] # Null => values[c] # NoRow /\ form[u].values[c] = values[c].val
  BY <1>1 DEF StaffWrite, CheckRevision, IInv, Vouched, Shows
<1>2. ASSUME IInv, Next, writes' > writes
      PROVE  \E v \in Staff : StaffWrite(v) /\ Seen(v)
  <2>1. PICK v \in Staff :
          \/ \E edit \in AttributeEdit : \E from \in EditDate(edit) : EditAttribute(v, edit, from)
          \/ \E f \in RestorableFields : RestoreFields(v, {f})
          \/ \E c \in Code :
                \/ \E name \in Text : AddValue(v, c, name)
                \/ \E edit \in ValueEdit : EditValue(v, c, edit)
                \/ \E f \in ValueFields : RestoreValue(v, c, {f})
    <3>1. writes' # writes
      BY <1>2 DEF IInv, TypeOK
    <3>2. QED
      BY <1>2, <3>1 DEF Next, SyncStarts, SyncReads, SyncCommits, SyncRollsBack, Deploy, FormReadsAttribute,
        FormReadsValues, Refused
  <2>2. StaffWrite(v)
    BY <2>1 DEF EditAttribute, RestoreFields, AddValue, EditValue, RestoreValue
  <2>3. /\ form[v].attr = attr.val
        /\ \A c \in Code : form[v].values[c] # Null => values[c] # NoRow /\ form[v].values[c] = values[c].val
    BY <1>1, <1>2, <2>2
  <2>4. ASSUME NEW c \in Code, values'[c] # values[c]
        PROVE  form[v].values[c] = IF values[c] = NoRow THEN Null ELSE values[c].val
    <3>1. \/ values[c] = NoRow
          \/ values[c] # NoRow /\ form[v].values[c] # Null
      <4>1. CASE values' = values
        BY <2>4, <4>1
      <4>2. ASSUME NEW d \in Code, NEW row, values' = [values EXCEPT ![d] = row],
                   values[d] = NoRow \/ (values[d] # NoRow /\ form[v].values[d] # Null)
            PROVE  values[c] = NoRow \/ (values[c] # NoRow /\ form[v].values[c] # Null)
        <5>1. c = d
          BY <1>2, <2>4, <4>2 DEF IInv, TypeOK
        <5>2. QED
          BY <4>2, <5>1
      <4>3. ASSUME NEW d \in Code, NEW name \in Text, AddValue(v, d, name)
            PROVE  values[c] = NoRow \/ (values[c] # NoRow /\ form[v].values[c] # Null)
        BY <4>2, <4>3 DEF AddValue
      <4>4. ASSUME NEW d \in Code, NEW edit \in ValueEdit, EditValue(v, d, edit)
            PROVE  values[c] = NoRow \/ (values[c] # NoRow /\ form[v].values[c] # Null)
        <5>1. values' = [values EXCEPT ![d] = Edited(values[d], edit)] /\ values[d] # NoRow /\ form[v].values[d] # Null
          BY <4>4 DEF EditValue
        <5>2. QED
          BY <4>2, <5>1
      <4>5. ASSUME NEW d \in Code, NEW f \in ValueFields, RestoreValue(v, d, {f})
            PROVE  values[c] = NoRow \/ (values[c] # NoRow /\ form[v].values[c] # Null)
        <5>1. PICK row : values' = [values EXCEPT ![d] = row] /\ values[d] # NoRow /\ form[v].values[d] # Null
          BY <4>5 DEF RestoreValue
        <5>2. QED
          BY <4>2, <5>1
      <4>6. QED
        BY <2>1, <4>1, <4>3, <4>4, <4>5 DEF EditAttribute, RestoreFields
    <3>2. QED
      BY <2>3, <3>1
  <2>5. QED
    BY <2>2, <2>3, <2>4
<1>3. ASSUME IInv, Next, NEW u \in Staff, writes' > writes, form[u] # Null, form'[u] = Null
      PROVE  Seen(u)
  <2>1. PICK v \in Staff : StaffWrite(v) /\ Seen(v)
    BY <1>2, <1>3
  <2>2. u = v
    BY <1>3, <2>1 DEF StaffWrite, IInv, TypeOK
  <2>3. QED
    BY <2>1, <2>2
<1>4. ASSUME IInv, Next
      PROVE  \A u \in Staff : writes' > writes /\ form[u] # Null /\ form'[u] = Null =>
                 /\ \A f \in DOMAIN attr.val : attr'.val[f] # attr.val[f] => attr.val[f] = form[u].attr[f]
                 /\ \A c \in Code : values'[c] # values[c] =>
                       form[u].values[c] = IF values[c] = NoRow THEN Null ELSE values[c].val
  <2>1. TAKE u \in Staff
  <2>2. HAVE writes' > writes /\ form[u] # Null /\ form'[u] = Null
  <2>3. Seen(u)
    BY <1>3, <1>4, <2>2
  <2>4. QED
    BY <2>3
<1>5. ASSUME IInv, [Next]_vars
      PROVE  [\A u \in Staff : writes' > writes /\ form[u] # Null /\ form'[u] = Null =>
                 /\ \A f \in DOMAIN attr.val : attr'.val[f] # attr.val[f] => attr.val[f] = form[u].attr[f]
                 /\ \A c \in Code : values'[c] # values[c] =>
                       form[u].values[c] = IF values[c] = NoRow THEN Null ELSE values[c].val]_vars
  BY <1>4, <1>5
<1>6. QED
  BY <1>5, Invariance, PTL DEF Spec, NoLostUpdate
=============================================================================
