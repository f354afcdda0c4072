------------------------------- MODULE Objects -------------------------------
(***************************************************************************)
(* What the server and the browser say to each other: lists of objects,    *)
(* each the OID of a field and its value.  The server has its OIDs in      *)
(* catalog/schema, the browser in schema.js; db.js puts each value into    *)
(* the record and the field its OID names.  A page of the console          *)
(* replaces what it had, the other pages add to it (DBC.replace,           *)
(* DBC.updated).  One kind of record is looked at, and one field of it     *)
(* changes; the others hold their own names.                               *)
(***************************************************************************)
EXTENDS Schema, Naturals, FiniteSetsExt

CONSTANTS
    Numbers,   \* of the records
    Texts,     \* what the field that changes may hold
    Blank,
    MaxEvents

VARIABLES
    kind, field, \* what is looked at
    console,     \* a page of the console
    server,      \* the records: "none", "live" or "deleted", and what the field holds
    db,          \* DB: records by their OIDs
    wire,        \* the answer on its way, if there is one
    fresh,       \* the last listing said what the server has
    changes      \* counted, for the bound

objectsVars == <<kind, field, console, server, db, wire, fresh, changes>>

-----------------------------------------------------------------------------
\* These are listed when there is something in them.
Optional == {"managementGroup", "label", "kind", "readerEntry", "readerExit"}

OID(n) == IF kind = "system" THEN Base(kind) ELSE Append(Base(kind), n)

Holds(r, f) ==
    CASE f = "deleted" -> IF r.state = "deleted" THEN f ELSE Blank
      [] f = field -> r.text
      [] OTHER -> f

\* AsObjects(), toObjects(): the objects of one record. They are of different fields; the first
\* of a live record is its OID, that of a deleted one says when.
Objects(n) ==
    LET r == server[n]
        deleted == r.state = "deleted"
        fields == IF deleted THEN {"deleted"}
                  ELSE {f \in DOMAIN ListedFields[kind] : ~(f \in Optional /\ Holds(r, f) = Blank)}
    IN  [OID |-> OID(n), first |-> IF deleted THEN "deleted" ELSE Blank,
         value |-> [x \in {ListedFields[kind][f] : f \in fields} |->
                       Holds(r, CHOOSE f \in fields : ListedFields[kind][f] = x)]]

Live(n) == server[n].state = "live"
Listed == {n \in Numbers : server[n].state # "none"}

-----------------------------------------------------------------------------
(* db.js *)

\* A record is made with the first of its objects, which is taken for its status.
NewRecord(value) ==
    [f \in DOMAIN Fields[kind] \cup DOMAIN ListedFields[kind] |->
        IF f = "status" THEN value ELSE IF f = "kind" THEN "card" ELSE Blank]

\* The case of the switch, or the group or door of its default: 7 stands for any.
SuffixOf(f) ==
    CASE f \in DOMAIN Fields[kind] -> Fields[kind][f]
      [] f = "member" -> <<Members[kind], 7>>
      [] f = "of" -> <<Members[kind], 7, 1>>
      [] OTHER -> <<>>

Taken(f, value) == IF kind = "cards" /\ f = "kind" /\ value = Blank THEN "card" ELSE value

\* object(), for the objects of one record
Heard(record, objects) ==
    [f \in DOMAIN record |->
        IF SuffixOf(f) \in DOMAIN objects.value THEN Taken(f, objects.value[SuffixOf(f)]) ELSE record[f]]

\* DBC.updated(): the objects of different records do not meet.
Updated(records, answer) ==
    [x \in DOMAIN records \cup {objects.OID : objects \in answer} |->
        IF \E objects \in answer : objects.OID = x
        THEN LET told == CHOOSE objects \in answer : objects.OID = x
             IN  Heard(IF x \in DOMAIN records THEN records[x] ELSE NewRecord(told.first), told)
        ELSE records[x]]

NoRecords == [x \in {} |-> Blank]

\* A bug: nothing is cleared.
ReplacedOver(records, answer) == Updated(records, answer)

\* DBC.replace()
Replaced(records, answer) == Updated(NoRecords, answer)

-----------------------------------------------------------------------------
CountChange == changes < MaxEvents /\ changes' = changes + 1

Absent == [state |-> "none", text |-> Blank]

\* Another client of the server creates a record, edits or deletes one; a deleted one is swept.
ChangedElsewhere ==
    /\ CountChange
    /\ \E n \in Numbers :
           \/ \E t \in Texts : Live(n) /\ server' = [server EXCEPT ![n].text = t]
           \/ Live(n) /\ "deleted" \in DOMAIN ListedFields[kind] /\ server' = [server EXCEPT ![n].state = "deleted"]
           \/ server[n].state = "deleted" /\ server' = [server EXCEPT ![n] = Absent]
           \/ n \notin Listed /\ kind # "system" /\ server' = [server EXCEPT ![n].state = "live"]
    /\ fresh' = FALSE
    /\ UNCHANGED <<kind, field, console, db, wire>>

\* A listing
List ==
    /\ wire = {}
    /\ wire' = {{Objects(n) : n \in Listed}}
    /\ fresh' = TRUE
    /\ UNCHANGED <<kind, field, console, server, db, changes>>

\* A page commits an edit and is answered with what it changed. The console does not read that.
Edited ==
    /\ ~console /\ wire = {}
    /\ CountChange
    /\ \E n \in Numbers, t \in Texts :
           /\ Live(n) /\ OID(n) \in DOMAIN db
           /\ server' = [server EXCEPT ![n].text = t]
           /\ wire' = {{[OID |-> OID(n), first |-> t, value |-> [x \in {ListedFields[kind][field]} |-> t]]}}
    /\ UNCHANGED <<kind, field, console, db, fresh>>

Hear ==
    /\ \E answer \in wire : db' = IF console THEN Replaced(db, answer) ELSE Updated(db, answer)
    /\ wire' = {}
    /\ UNCHANGED <<kind, field, console, server, fresh, changes>>

-----------------------------------------------------------------------------
ObjectsInit ==
    /\ kind \in DOMAIN Fields
    /\ field \in DOMAIN ListedFields[kind] \ Common
    /\ console \in BOOLEAN
    /\ server = [n \in Numbers |-> IF kind # "system" \/ n = Max(Numbers) THEN [Absent EXCEPT !.state = "live"] ELSE Absent]
    /\ db = NoRecords
    /\ wire = {} /\ fresh = FALSE /\ changes = 0

ObjectsNext == ChangedElsewhere \/ List \/ Edited \/ Hear

Spec == ObjectsInit /\ [][ObjectsNext]_objectsVars

-----------------------------------------------------------------------------
TypeOK ==
    /\ kind \in DOMAIN Fields
    /\ \A x \in DOMAIN db : \A f \in DOMAIN db[x] : db[x][f] \in Texts \cup {f, "card", "deleted"}
    /\ fresh \in BOOLEAN /\ changes \in 0..MaxEvents

\* Once a listing has come, and until the server changes again, every field the browser reads has
\* what the server has in it, whatever came in between and in whichever order: but for a field of
\* another page that is not listed since it was emptied.
FieldsAgree ==
    wire = {} /\ fresh =>
        /\ \A n \in Numbers : Live(n) =>
               /\ OID(n) \in DOMAIN db
               /\ \A f \in DOMAIN ListedFields[kind] \cap DOMAIN db[OID(n)] :
                      LET v == Holds(server[n], f) IN
                      \/ db[OID(n)][f] = (IF f = "kind" /\ v = Blank THEN "card" ELSE v)
                      \/ ~console /\ f \in Optional /\ v = Blank
                      \/ kind = "interfaces" /\ f \in {"created", "deleted"}
        /\ \A n \in Listed : ~Live(n) /\ OID(n) \in DOMAIN db /\ kind # "interfaces" =>
               db[OID(n)].deleted # Blank
        /\ console => DOMAIN db = {OID(n) : n \in Listed}

=============================================================================
