----------------------------- MODULE Dictionary -----------------------------
(***************************************************************************)
(* One attribute of the data dictionary and its listed values, as two     *)
(* writers change them: staff through the edit API, and the sync that      *)
(* brings the stored rows to the dictionary of the running code.  An       *)
(* `origin` entry marks a field staff edited; the sync keeps such a field  *)
(* unless the code no longer allows its value.  Every write runs under one *)
(* advisory lock; a form quotes the revision it was loaded at.             *)
(*                                                                         *)
(* Abstracted: one attribute of one feature type stands for all of them;   *)
(* "label" for every text field of an attribute, "validFrom" for every     *)
(* field the data structure sets, the name of a value for its wording.     *)
(***************************************************************************)
EXTENDS Integers, FiniteSets, Sequences

CONSTANTS
    Staff,          \* users of the editor
    Code,           \* the codes a list may hold
    Unit,           \* units of measurement
    DimensionOf,    \* [Unit -> dimension]
    Text,           \* wordings staff may type
    Releases,       \* the histories of the code dictionary: sequences of releases
    Today,          \* the current date; dates are 0..Today
    MaxWrites,      \* bound: staff writes
    Null,           \* an absent field, form or answer
    Nobody          \* no holder of the lock

ASSUME DictionaryAssumption ==
    /\ DimensionOf \in [Unit -> {DimensionOf[u] : u \in Unit}]
    /\ Today \in Nat /\ MaxWrites \in Nat
    /\ \A h \in Releases : Len(h) \in Nat \ {0}
    /\ IsFiniteSet(Code) /\ "attr" \notin Code /\ Nobody # "sync"

VARIABLES
    releases,   \* the releases of this deployment, in order
    running,    \* the release the API and a new sync run
    attr,       \* the attribute's row [val, origin], or NoRow
    revision,   \* of the attribute and its values together
    values,     \* [Code -> its row, or NoRow]
    periods,    \* [date -> the stored unit that applies from it, or Null]
    newest,     \* the newest history row of each field, or NoHistory
    lock,       \* the holder of the dictionary lock between statements: Nobody or "sync"
    sync,       \* the sync in progress, or Null
    syncedAt,   \* the release of the last sync that committed; 0 before the first
    form,       \* [Staff -> the form loaded, or Null]
    writes      \* staff writes so far (bounded)

deployed == <<releases, running>>
rows == <<attr, revision, values, periods, newest>>
vars == <<deployed, rows, lock, sync, syncedAt, form, writes>>

-----------------------------------------------------------------------------
(* Fields. *)

LockedFields == {"validFrom"}
EditableFields == {"label", "storedUnit", "displayUnits", "displayUnit", "codeList", "validTo"}
\* The fields the API takes, and those it restores.
OfferedFields == EditableFields \ {"codeList"}
RestorableFields == OfferedFields \ {"storedUnit"}

LockedValueFields(codeList) == IF codeList = "closed" THEN {"retired"} ELSE {}
ValueFields == {"name", "retired"}

\* No stored row, and a field without history.
NoRow == [val |-> <<>>, origin |-> {}]
NoHistory == [value |-> Null, reason |-> "none"]

Date == 0..Today
SameDimension(u, v) == DimensionOf[u] = DimensionOf[v]

\* The code dictionary a process runs: [attribute |-> row or Null, values |-> [codes -> rows]].
CodeOf(r) == releases[r]

HasFields(val, fields) == val = [f \in fields |-> val[f]]

\* validateDictionary: the sync refuses a code dictionary whose unit shown is not a permitted one.
ASSUME ReleasesAssumption ==
    \A h \in Releases : \A i \in 1..Len(h) :
        /\ h[i].attribute # Null =>
              /\ HasFields(h[i].attribute, LockedFields \cup EditableFields)
              /\ h[i].attribute["displayUnit"] # Null =>
                    h[i].attribute["displayUnit"] \in h[i].attribute["displayUnits"]
        /\ DOMAIN h[i].values \subseteq Code
        /\ \A c \in DOMAIN h[i].values : HasFields(h[i].values[c], ValueFields)

-----------------------------------------------------------------------------
(* The sync planner. *)

\* The rules on edited fields, in the order they are checked: resolved is the
\* row as it would be, code the entry of the new code.
Broken(resolved, code) ==
    LET units == resolved["displayUnits"]
        shown == resolved["displayUnit"]
        unit == resolved["storedUnit"]
    IN  << <<"storedUnit", unit = Null \/ code["storedUnit"] = Null \/ ~SameDimension(unit, code["storedUnit"])>>,
           <<"displayUnits", IF code["storedUnit"] = Null THEN units # {}
                             ELSE units = {} \/ \E u \in units : ~SameDimension(u, code["storedUnit"])>>,
           <<"displayUnit", shown # Null /\ shown \notin units>>,
           <<"displayUnits", shown # Null /\ shown \notin units>> >>

\* A listed value has no such rule.
Rules(kind, resolved, code) == IF kind = "attribute" THEN Broken(resolved, code) ELSE <<>>

Resolved(stored, code, editable, edited) ==
    [f \in editable |-> IF f \in edited THEN stored[f] ELSE code[f]]

\* Mutant: the rules are asked once, and every broken edit reverted at once.
KeptAfterOnePass(stored, code, editable, edited, kind) ==
    LET rules == Rules(kind, Resolved(stored, code, editable, edited), code)
        broken == {i \in 1..Len(rules) : rules[i][1] \in edited /\ rules[i][2]}
    IN  edited \ {rules[i][1] : i \in broken}

\* The first edit that breaks a rule is taken back.
TakeBack(stored, code, editable, edited, kind) ==
    LET rules == Rules(kind, Resolved(stored, code, editable, edited), code)
        broken == {i \in DOMAIN rules : rules[i][1] \in edited /\ rules[i][2]}
    IN  edited \ {rules[i][1] : i \in {j \in broken : \A k \in broken : j <= k}}

\* The edits that stay: invalid edits are taken back one at a time, because taking
\* one back can make another invalid.  Three fields have rules, so three times is enough.
Kept(stored, code, editable, edited, kind) ==
    LET Again(e) == TakeBack(stored, code, editable, e, kind)
    IN  Again(Again(Again(edited)))

\* One stored row against its code default: the row after the sync, the fields
\* reverted or retired (a write and a history row each), and whether others are updated.
Reconcile(row, code, locked, editable, kind) ==
    LET edited == row.origin \cap editable
        kept == Kept(row.val, code, editable, edited, kind)
        moved == {f \in locked : row.val[f] # code[f]}
        reverted == (edited \ kept) \cup (row.origin \cap moved)
        followed == (moved \ row.origin) \cup {f \in editable \ edited : row.val[f] # code[f]}
        cleared == (row.origin \cap locked) \ moved
    IN  [row |-> [val |-> [f \in DOMAIN row.val |-> IF f \in kept THEN row.val[f] ELSE code[f]],
                  origin |-> row.origin \ (reverted \cup cleared)],
         reverted |-> reverted,
         updated |-> followed \cup cleared # {}]

Unchanged(row) == [row |-> row, reverted |-> {}, updated |-> FALSE]
Inserted(val) == [row |-> [val |-> val, origin |-> {}], reverted |-> {}, updated |-> FALSE]

\* The attribute row: inserted, reconciled, or retired today once the code has
\* no such attribute.
PlannedAttr(stored, code) ==
    IF stored = NoRow
    THEN IF code.attribute = Null THEN Unchanged(NoRow) ELSE Inserted(code.attribute)
    ELSE IF code.attribute = Null
         THEN IF stored.val["validTo"] # Null THEN Unchanged(stored)
              ELSE [row |-> [val |-> [stored.val EXCEPT !["validTo"] = Today], origin |-> stored.origin \ {"validTo"}],
                    reverted |-> {"validTo"}, updated |-> FALSE]
         ELSE Reconcile(stored, code.attribute, LockedFields, EditableFields, "attribute")

Retired(row) ==
    [row |-> [val |-> [row.val EXCEPT !["retired"] = TRUE], origin |-> row.origin \ {"retired"}],
     reverted |-> {"retired"}, updated |-> FALSE]

\* Mutant: a code staff added is kept whatever the list is.
PlannedValueKeepingAdded(stored, code, c) ==
    LET locked == LockedValueFields(code.attribute["codeList"])
    IN  IF c \in DOMAIN code.values
        THEN IF stored = NoRow THEN Inserted(code.values[c])
             ELSE Reconcile(stored, code.values[c], locked, ValueFields \ locked, "value")
        ELSE IF stored = NoRow \/ stored.val["retired"] \/ "code" \in stored.origin
             THEN Unchanged(stored) ELSE Retired(stored)

\* A listed value: inserted, reconciled, or, when the code does not list it,
\* retired - unless staff added it and the list is open.
PlannedValue(stored, code, c) ==
    LET locked == LockedValueFields(code.attribute["codeList"])
    IN  IF c \in DOMAIN code.values
        THEN IF stored = NoRow THEN Inserted(code.values[c])
             ELSE Reconcile(stored, code.values[c], locked, ValueFields \ locked, "value")
        ELSE IF \/ stored = NoRow
                \/ stored.val["retired"]
                \/ "code" \in stored.origin /\ code.attribute["codeList"] = "open"
             THEN Unchanged(stored)
             ELSE Retired(stored)

PlannedValues(stored, code) ==
    [c \in Code |-> IF code.attribute = Null THEN Unchanged(stored[c]) ELSE PlannedValue(stored[c], code, c)]

-----------------------------------------------------------------------------
(* The sync: one transaction; its statements are steps of their own. *)

\* History rows of the fields in fs of one row (owner "attr" or a code).
Recorded(history, owner, fs, val, reason) ==
    [k \in DOMAIN history |-> IF k[1] = owner /\ k[2] \in fs THEN [value |-> val[k[2]], reason |-> reason]
                              ELSE history[k]]

\* The plan of every row: of the attribute, and of each code.
Owners == {"attr"} \cup Code
Plan(stored, code) ==
    LET listed == PlannedValues(stored.values, code)
    IN  [o \in Owners |-> IF o = "attr" THEN PlannedAttr(stored.attr, code) ELSE listed[o]]

\* Every write of a stored row bumps the revision of its attribute.
Bumps(plan) ==
    Cardinality(UNION {{o} \X plan[o].reverted : o \in Owners}) + Cardinality({o \in Owners : plan[o].updated})

SyncStarts ==
    /\ sync = Null
    /\ sync' = [release |-> running, read |-> Null]
    /\ UNCHANGED <<deployed, rows, lock, syncedAt, form, writes>>

\* The lock first, then the rows: nothing the plan is made from is older than the lock.
SyncReads ==
    /\ sync # Null /\ lock = Nobody
    /\ lock' = "sync"
    /\ sync' = [sync EXCEPT !.read = [attr |-> attr, values |-> values]]
    /\ UNCHANGED <<deployed, rows, syncedAt, form, writes>>

\* The plan of what was read, applied: rows, one revision bump per write, and
\* a history row per revert or retire.
SyncCommits ==
    /\ sync # Null /\ sync.read # Null
    /\ LET plan == Plan(sync.read, CodeOf(sync.release))
       IN  /\ attr' = plan["attr"].row
           /\ values' = [c \in Code |-> plan[c].row]
           /\ revision' = IF attr = NoRow /\ attr' # NoRow THEN 1 ELSE revision + Bumps(plan)
           /\ newest' = [k \in DOMAIN newest |->
                            IF k[2] \in plan[k[1]].reverted
                            THEN [value |-> plan[k[1]].row.val[k[2]], reason |-> "sync"] ELSE newest[k]]
    /\ syncedAt' = sync.release
    /\ sync' = Null /\ lock' = Nobody
    /\ UNCHANGED <<deployed, periods, form, writes>>

\* A dry run, an error or a lost connection: nothing is written.
SyncRollsBack ==
    /\ sync # Null
    /\ sync' = Null
    /\ lock' = Nobody
    /\ UNCHANGED <<deployed, rows, syncedAt, form, writes>>

\* A new release of the code is started; the stored rows stay until a sync.
Deploy ==
    /\ running < Len(releases)
    /\ running' = running + 1
    /\ UNCHANGED <<releases, rows, lock, sync, syncedAt, form, writes>>

-----------------------------------------------------------------------------
(* The editor: a form is the attribute with its revision, read first, and its values. *)

FormReadsAttribute(u) ==
    /\ form[u] = Null /\ attr # NoRow
    /\ form' = [form EXCEPT ![u] = [revision |-> revision, attr |-> attr.val, values |-> Null]]
    /\ UNCHANGED <<deployed, rows, lock, sync, syncedAt, writes>>

FormReadsValues(u) ==
    /\ form[u] # Null /\ form[u].values = Null
    /\ form' = [form EXCEPT ![u].values = [c \in Code |-> IF values[c] = NoRow THEN Null ELSE values[c].val]]
    /\ UNCHANGED <<deployed, rows, lock, sync, syncedAt, writes>>

\* Mutant: staff edits do not take the lock of the sync.
LockUntaken == TRUE

\* A staff write takes the lock the sync holds while it works.
LockDictionary == lock = Nobody

CheckRevision(expected) == revision = expected

\* The steps every staff write shares; the form is loaded again after it.
StaffWrite(u) ==
    /\ writes < MaxWrites /\ writes' = writes + 1
    /\ form[u] # Null /\ form[u].values # Null
    /\ LockDictionary
    /\ CheckRevision(form[u].revision)
    /\ form' = [form EXCEPT ![u] = Null]
    /\ UNCHANGED <<deployed, lock, sync, syncedAt>>

\* 409 DICTIONARY_CHANGED: the form is dropped and loaded again.
Refused(u) ==
    /\ form[u] # Null /\ form[u].values # Null
    /\ LockDictionary /\ ~CheckRevision(form[u].revision)
    /\ form' = [form EXCEPT ![u] = Null]
    /\ UNCHANGED <<deployed, rows, lock, sync, syncedAt, writes>>

\* One row with the fields of set written, each with its origin and history.
Changing(val, set) == {f \in DOMAIN set : set[f] # val[f]}
With(val, set) == [f \in DOMAIN val |-> IF f \in DOMAIN set THEN set[f] ELSE val[f]]
Edited(row, set) == [val |-> With(row.val, set), origin |-> row.origin \cup Changing(row.val, set)]

BumpIf(written) == revision' = IF written THEN revision + 1 ELSE revision
\* Mutant: a write of a listed value leaves its attribute's revision.
NoBump(written) == UNCHANGED revision
\* A listed value has no revision of its own: its attribute's is bumped.
BumpAttributeRevision(written) == BumpIf(written)

\* The rules that need the stored attribute.
CheckAttribute(val, edit) ==
    LET units == With(val, edit)["displayUnits"]
        shown == With(val, edit)["displayUnit"]
    IN  /\ "displayUnits" \in DOMAIN edit =>
              val["storedUnit"] # Null /\ \A u \in edit["displayUnits"] : SameDimension(u, val["storedUnit"])
        /\ "displayUnit" \in DOMAIN edit => shown \in units
        /\ "displayUnits" \in DOMAIN edit => shown = Null \/ shown \in units
        /\ "validTo" \in DOMAIN edit => edit["validTo"] \in {Null} \cup val["validFrom"]..Today

\* A stored unit is corrected to one of its dimension, from a date in the
\* attribute's life that no correction lies after.
CheckStoredUnit(val, unit, from) ==
    /\ val["storedUnit"] # Null /\ SameDimension(unit, val["storedUnit"])
    /\ from >= val["validFrom"] /\ \A d \in Date : periods[d] # Null => from >= d
    /\ val["validTo"] \in {Null} \cup from..Today

\* The first correction also records the unit it replaces.
WithPeriod(val, unit, from) ==
    LET covered == IF \A d \in Date : periods[d] = Null
                   THEN [periods EXCEPT ![val["validFrom"]] = val["storedUnit"]] ELSE periods
    IN  [covered EXCEPT ![from] = unit]

EditAttribute(u, edit, from) ==
    /\ StaffWrite(u)
    /\ CheckAttribute(attr.val, edit)
    /\ LET changing == Changing(attr.val, edit)
           correcting == "storedUnit" \in changing
       IN  /\ correcting => CheckStoredUnit(attr.val, edit["storedUnit"], from)
           /\ attr' = Edited(attr, edit)
           /\ BumpIf(changing # {})
           /\ newest' = Recorded(newest, "attr", changing, edit, "edit")
           /\ periods' = IF correcting THEN WithPeriod(attr.val, edit["storedUnit"], from) ELSE periods
    /\ UNCHANGED values

\* A code staff add to an open list carries `code` in its origin.
AddValue(u, c, name) ==
    /\ StaffWrite(u)
    /\ attr.val["codeList"] = "open" /\ values[c] = NoRow
    /\ values' = [values EXCEPT ![c] = [val |-> [name |-> name, retired |-> FALSE], origin |-> {"code", "name"}]]
    /\ BumpAttributeRevision(TRUE)
    /\ newest' = Recorded(newest, c, {"name"}, [name |-> name], "edit")
    /\ UNCHANGED <<attr, periods>>

EditValue(u, c, edit) ==
    /\ StaffWrite(u)
    /\ attr.val["codeList"] # Null /\ DOMAIN edit \cap LockedValueFields(attr.val["codeList"]) = {}
    /\ values[c] # NoRow /\ form[u].values[c] # Null   \* the editor offers the values its form lists
    /\ LET changing == Changing(values[c].val, edit)
       IN  /\ values' = [values EXCEPT ![c] = Edited(@, edit)]
           /\ BumpAttributeRevision(changing # {})
           /\ newest' = Recorded(newest, c, changing, edit, "edit")
    /\ UNCHANGED <<attr, periods>>

\* Restoring the unit shown or the permitted list takes the other back when the
\* two would no longer agree.
WithCompanions(fields, val, code) ==
    LET units == IF "displayUnits" \in fields THEN code["displayUnits"] ELSE val["displayUnits"]
        shown == IF "displayUnit" \in fields THEN code["displayUnit"] ELSE val["displayUnit"]
    IN  IF shown # Null /\ shown \notin units THEN fields \cup {"displayUnit", "displayUnits"} ELSE fields

Restorable(row, code, fields) == {f \in fields : f \in row.origin \/ row.val[f] # code[f]}
Restored(row, code, fields) ==
    [val |-> [f \in DOMAIN row.val |-> IF f \in fields THEN code[f] ELSE row.val[f]], origin |-> row.origin \ fields]

\* To the default of the code the API runs, whether or not a sync has applied it.
RestoreFields(u, requested) ==
    LET code == CodeOf(running).attribute
    IN  /\ StaffWrite(u)
        /\ code # Null
        /\ LET fields == Restorable(attr, code, WithCompanions(requested, attr.val, code))
           IN  /\ attr' = Restored(attr, code, fields)
               /\ BumpIf(fields # {})
               /\ newest' = Recorded(newest, "attr", fields, code, "restore")
        /\ UNCHANGED <<values, periods>>

RestoreValue(u, c, requested) ==
    LET code == CodeOf(running)
    IN  /\ StaffWrite(u)
        /\ attr.val["codeList"] # Null /\ requested \cap LockedValueFields(attr.val["codeList"]) = {}
        /\ values[c] # NoRow /\ form[u].values[c] # Null
        /\ code.attribute # Null /\ c \in DOMAIN code.values
        /\ LET fields == Restorable(values[c], code.values[c], requested)
           IN  /\ values' = [values EXCEPT ![c] = Restored(@, code.values[c], fields)]
               /\ BumpAttributeRevision(fields # {})
               /\ newest' = Recorded(newest, c, fields, code.values[c], "restore")
        /\ UNCHANGED <<attr, periods>>

-----------------------------------------------------------------------------
\* What a form sends: one field, or the two of the unit shown together.
AttributeEdit ==
    [label : Text] \cup [validTo : Date \cup {Null}] \cup [storedUnit : Unit]
      \cup [displayUnit : Unit] \cup [displayUnits : SUBSET Unit \ {{}}]
      \cup [displayUnits : SUBSET Unit \ {{}}, displayUnit : Unit]
\* A corrected unit comes with the date it applies from.
EditDate(edit) == IF "storedUnit" \in DOMAIN edit THEN Date ELSE {Today}
ValueEdit == [name : Text] \cup [retired : BOOLEAN]

HistoryKeys == ({"attr"} \X EditableFields) \cup (Code \X ValueFields)

Init ==
    /\ releases \in Releases /\ running = 1
    /\ attr = NoRow /\ revision = 0 /\ values = [c \in Code |-> NoRow]
    /\ periods = [d \in Date |-> Null] /\ newest = [k \in HistoryKeys |-> NoHistory]
    /\ lock = Nobody /\ sync = Null /\ syncedAt = 0
    /\ form = [u \in Staff |-> Null] /\ writes = 0

Next ==
    \/ SyncStarts \/ SyncReads \/ SyncCommits \/ SyncRollsBack \/ Deploy
    \/ \E u \in Staff :
          \/ FormReadsAttribute(u) \/ FormReadsValues(u) \/ Refused(u)
          \/ \E edit \in AttributeEdit : \E from \in EditDate(edit) : EditAttribute(u, edit, from)
          \/ \E f \in RestorableFields : RestoreFields(u, {f})
          \/ \E c \in Code :
                \/ \E name \in Text : AddValue(u, c, name)
                \/ \E edit \in ValueEdit : EditValue(u, c, edit)
                \/ \E f \in ValueFields : RestoreValue(u, c, {f})

Spec == Init /\ [][Next]_vars

-----------------------------------------------------------------------------

\* The unit a number is shown in is one its attribute permits, after any order
\* of edits, restores and syncs of changing code (edit.ts checkAttribute and
\* withCompanions, syncPlan.ts attributeCheck each keep it their own way).
ShownUnitPermitted ==
    attr # NoRow /\ attr.val["displayUnit"] # Null => attr.val["displayUnit"] \in attr.val["displayUnits"]

\* The history explains the row: a field of an attribute is marked as edited
\* exactly when its newest history row is a staff edit, and it then holds what
\* that edit wrote; so no edit is lost without a row that says so.
HistoryExplainsRow ==
    /\ attr # NoRow => \A f \in OfferedFields :
          LET h == newest[<<"attr", f>>]
          IN  /\ f \in attr.origin <=> h.reason = "edit"
              /\ f \in attr.origin => h.value = attr.val[f]
    /\ \A c \in Code : values[c] # NoRow => \A f \in values[c].origin \ {"code"} :
          newest[<<c, f>>] = [value |-> values[c].val[f], reason |-> "edit"]

\* Once a sync of the running code has committed, a row the code still has holds
\* the code's value wherever staff have not edited it, and a closed list has in
\* use exactly the codes the code has in use - whatever staff did since.
SyncedRowsFollowCode ==
    LET code == CodeOf(running)
    IN  (syncedAt = running /\ code.attribute # Null) =>
            /\ \A f \in DOMAIN attr.val \ attr.origin : attr.val[f] = code.attribute[f]
            /\ \A c \in DOMAIN code.values :
                  \A f \in ValueFields \ values[c].origin : values[c].val[f] = code.values[c][f]
            /\ code.attribute["codeList"] = "closed" =>
                  {c \in Code : values[c] # NoRow /\ ~values[c].val["retired"]}
                    = {c \in DOMAIN code.values : ~code.values[c]["retired"]}

\* While a correction of the stored unit stands, the last dated period carries
\* the unit the row carries.
CorrectionIsDated ==
    attr # NoRow /\ "storedUnit" \in attr.origin =>
        \E d \in Date : periods[d] = attr.val["storedUnit"] /\ \A e \in Date : periods[e] # Null => e <= d

\* What a reader of a number is told of its unit is consistent: the unit shown
\* is permitted, and a corrected unit is the one the dated periods end with.
UnitsAgree == ShownUnitPermitted /\ CorrectionIsDated

\* A save changes only fields that were, until then, as its form showed them:
\* the revision of the attribute also vouches for its values, which the form
\* reads in a later statement.
NoLostUpdate ==
    [][\A u \in Staff : writes' > writes /\ form[u] # Null /\ form'[u] = Null =>
          /\ \A f \in DOMAIN attr.val : attr'.val[f] # attr.val[f] => attr.val[f] = form[u].attr[f]
          /\ \A c \in Code : values'[c] # values[c] =>
                form[u].values[c] = IF values[c] = NoRow THEN Null ELSE values[c].val]_vars

=============================================================================
