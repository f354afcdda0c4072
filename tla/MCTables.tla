------------------------------ MODULE MCTables ------------------------------
(***************************************************************************)
(* The table pages for TLC: Table edits one record, Pages shows two kinds  *)
(* of two records each, Marks a table of two rows and a section, Objects,  *)
(* CardDates and Combobox one field.  One of them runs, the others stay as *)
(* they start.                                                             *)
(***************************************************************************)
EXTENDS Table, TLC

CONSTANTS
    PageRecords, Arrived, Pending, MaxPageEvents, MaxPageGets,
    PageRows, PageFields, Section, MaxEdits, MaxPosted,
    Numbers, FieldTexts, MaxObjectEvents,
    Dates, MaxChanges,
    Zones, KnownZones, Time(_), DefaultTime, Typed, NoChoice, MaxKeys

\* An object that says when a record was deleted is not blank.
ASSUME DeletedAssumption == Blank # "deleted"

\* There are two addresses, and a lock and a one-time password; what has arrived is not awaited.
ASSUME PagesAssumption == PageRecords \in Nat \ {0, 1} /\ Arrived # Pending

\* A field may be empty.
ASSUME MarksAssumption ==
    PageRows \in Seq(Range(PageRows)) /\ PageFields \in Seq(Range(PageFields)) /\ Blank \in FieldTexts

VARIABLES
    at,   \* which of them
    opened, pageServer, pageDb, heard, pageGets, head, rows, pageEvents,
    kind, records, cells, marks, controls, posted, edits,
    list, field, console, listServer, listDb, wire, fresh, changes,
    stored, default, system, date, chosen, changed,
    focused, over, inputHasFocus, listHasFocus, hasHover, open, option, marked, shownText, typed,
    taken, closing, tabbed, clicked, keys

tableVars == vars
pageVars == <<opened, pageServer, pageDb, heard, pageGets, head, rows, pageEvents>>
marksVars == <<kind, records, cells, marks, controls, posted, edits>>
objectsVars == <<list, field, console, listServer, listDb, wire, fresh, changes>>
dateVars == <<stored, default, system, date, chosen, changed>>
fieldVars == <<focused, over, inputHasFocus, listHasFocus, hasHover, open, option, marked, shownText, typed,
               taken, closing, tabbed, clicked, keys>>
tablesVars == <<at, tableVars, pageVars, marksVars, objectsVars, dateVars, fieldVars>>

Page == INSTANCE Pages WITH
    page <- opened, server <- pageServer, db <- pageDb, gets <- pageGets, events <- pageEvents,
    N <- PageRecords, Unserved <- Pending, MaxEvents <- MaxPageEvents, MaxGets <- MaxPageGets

Mark == INSTANCE Marks WITH
    Rows <- PageRows, Fields <- PageFields, Texts <- FieldTexts

\* Of the cards: name, number and from.
TwoRows == <<"r1", "r2">>
ThreeFields == <<"name", "number", "to">>

Object == INSTANCE Objects WITH
    kind <- list, server <- listServer, db <- listDb, Texts <- FieldTexts, MaxEvents <- MaxObjectEvents

Date == INSTANCE CardDates

\* A zone that the browser does not know has the text of its own.
NameOfZone(z) == z

Combo == INSTANCE Combobox

ASSUME ZonesAssumption == IsFiniteSet(Zones) /\ Zones # {}

ASSUME BoundsAssumption == {MaxObjectEvents, MaxKeys} \subseteq Nat

\* A row is something.
ASSUME RowsAssumption == None \notin [Mark!F -> Mark!Cell]

-----------------------------------------------------------------------------
TablesInit ==
    /\ at \in {"table", "pages", "marks", "objects", "dates", "combo"}
    /\ Init /\ (at # "table" => \A r \in Records : server[r].state = "none")
    /\ Page!Init /\ (at # "pages" => opened.rows = "cards")
    /\ Mark!MarksInit /\ (at # "marks" => kind = "card" /\ \A r \in DOMAIN records : records[r] = None)
    /\ Object!ObjectsInit /\ (at # "objects" => list = "cards" /\ field = "name" /\ ~console)
    /\ Date!DatesInit /\ (at # "dates" => stored = Blank /\ default = Blank)
    /\ Combo!ComboInit /\ (at # "combo" => shownText = DefaultTime)

TablesNext ==
    \/ at = "table" /\ Next /\ UNCHANGED <<at, pageVars, marksVars, objectsVars, dateVars, fieldVars>>
    \/ at = "pages" /\ Page!Next /\ UNCHANGED <<at, tableVars, marksVars, objectsVars, dateVars, fieldVars>>
    \/ at = "marks" /\ Mark!MarksNext /\ UNCHANGED <<at, tableVars, pageVars, objectsVars, dateVars, fieldVars>>
    \/ at = "objects" /\ Object!ObjectsNext /\ UNCHANGED <<at, tableVars, pageVars, marksVars, dateVars, fieldVars>>
    \/ at = "dates" /\ Date!DatesNext /\ UNCHANGED <<at, tableVars, pageVars, marksVars, objectsVars, fieldVars>>
    \/ at = "combo" /\ Combo!ComboNext /\ UNCHANGED <<at, tableVars, pageVars, marksVars, objectsVars, dateVars>>

\* The fairness of Table, Pages and Marks.
TablesSpec ==
    /\ TablesInit /\ [][TablesNext]_tablesVars
    /\ WF_tableVars(at = "table" /\ Poll) /\ WF_tableVars(at = "table" /\ GetServed)
    /\ WF_tableVars(at = "table" /\ GetArrives) /\ WF_tableVars(at = "table" /\ PostServed)
    /\ WF_tableVars(at = "table" /\ PostAnswered) /\ WF_tableVars(at = "table" /\ PostRead)
    /\ WF_tableVars(at = "table" /\ PostFails) /\ WF_tableVars(at = "table" /\ Entered)
    /\ WF_pageVars(at = "pages" /\ Page!Poll) /\ WF_pageVars(at = "pages" /\ Page!Served)
    /\ WF_pageVars(at = "pages" /\ Page!Arrives) /\ WF_pageVars(at = "pages" /\ Page!SweepServer)
    /\ WF_pageVars(at = "pages" /\ Page!SweepDB)
    /\ WF_marksVars(at = "marks" /\ Mark!Refresh) /\ WF_marksVars(at = "marks" /\ Mark!Serve)
    /\ WF_marksVars(at = "marks" /\ Mark!Answered)

-----------------------------------------------------------------------------
TablesTypeOK ==
    TypeOK /\ Page!TypeOK /\ Mark!TypeOK /\ Object!TypeOK /\ Date!TypeOK /\ Combo!TypeOK

\* Pages: a checkbox is below the heading of its group or door, and a select goes on showing
\* what was picked.
PagesAgree == [](at = "pages" => Page!ColumnsMatch) /\ Page!PickIsShown

\* Objects: a record of DB has what was listed of it.  CardDates, Combobox: a field that shows
\* something sends what the user typed or chose.
FieldsAgree ==
    /\ Object!FieldsAgree
    /\ Date!DefaultsAreNotSent
    /\ Combo!ShownIsTaken /\ Combo!OpensUnselected /\ Combo!OpenListCloses

\* Once the edits end, the fields, the rows and columns, and the marks of the rows and of the
\* controls say what the server has.
TablesConverge ==
    <>[](/\ at = "table" => InStep
         /\ at = "pages" => Page!InStep
         /\ at = "marks" => Mark!InStep)

=============================================================================
