------------------------------- MODULE Marks -------------------------------
(***************************************************************************)
(* The marks of a page of many fields (tabular.js, cache.js,               *)
(* interfaces.js): a field is marked when it differs from what the page    *)
(* was told, its row when one of its fields is, and the controls of the    *)
(* page when one of its rows is.  The cards page keeps what it looked up   *)
(* for as long as one refresh; the controllers page has a section for the  *)
(* LAN interface that does without the controls.  Table has the requests   *)
(* and the answers.                                                        *)
(***************************************************************************)
EXTENDS Naturals, Sequences, SequencesExt, FiniteSets, FiniteSetsExt, Functions

CONSTANTS
    Rows,        \* a sequence: the OIDs of the records, in the order of the page
    Fields,      \* a sequence: the fields of a row; deletable() looks at the first, or the first two
    Section,     \* the LAN interface
    Texts, Blank,
    None,
    MaxEdits,    \* what the user and the others do
    MaxPosted    \* submissions in flight

VARIABLES
    kind,      \* what the rows are
    records,   \* what the server has of each row: its text, whether it is new; None without one
    cells,     \* the fields of a row
    marks,     \* the classes of a row
    controls,  \* data-modified of the controls: 0, 1 (single) or 2 (multiple)
    posted,    \* submissions in flight: the fields, what they hold, the rows deleted
    edits      \* counted, for the bound

marksVars == <<kind, records, cells, marks, controls, posted, edits>>

F == Range(Fields)
Present(cs) == {r \in Range(Rows) : cs[r] # None}
CountEdit == edits < MaxEdits /\ edits' = edits + 1

-----------------------------------------------------------------------------
(* set, modified, percolate, recount *)

With(cell, mark, on) == [cell EXCEPT !.marks = IF on THEN @ \cup {mark} ELSE @ \ {mark}]

\* set()
Set(cell, v) == With([cell EXCEPT !.value = v], "modified", v # cell.original)

Modified(row) == {f \in F : "modified" \in row[f].marks}

\* deletable() of each page: a door and a group have a name; a controller a name and an ID, a
\* card a name and a number, a user a name and a uid.
DeletableDoor(row) == row[Fields[1]].value = Blank
DeletableGroup(row) == row[Fields[1]].value = Blank
DeletableController(row) == row[Fields[1]].value = Blank /\ row[Fields[2]].value = Blank
DeletableCard(row) == row[Fields[1]].value = Blank /\ row[Fields[2]].value = Blank
DeletableUser(row) == row[Fields[1]].value = Blank /\ row[Fields[2]].value = Blank

\* pageForRow(): the section is of no page.
Deletable(r, row) ==
    /\ r # Section
    /\ CASE kind = "door" -> DeletableDoor(row)
         [] kind = "group" -> DeletableGroup(row)
         [] kind = "controller" -> DeletableController(row)
         [] kind = "card" -> DeletableCard(row)
         [] kind = "user" -> DeletableUser(row)

\* modified() of a row: what was found among its fields, and whether a new row is to be deleted.
Classed(r, row, classes, found) ==
    (classes \ {"modified", "newish"})
        \cup (IF found THEN {"modified"} ELSE {})
        \cup (IF "new" \in classes /\ Deletable(r, row) THEN {"newish"} ELSE {})

\* modified() of the controls, recount(): the OIDs that are marked or new and not within another
\* one. A section has no controls above it.
Count(cs, ms) ==
    LET marked == {r \in Present(cs) : ms[r] \cap {"modified", "new"} # {}}
        n == Cardinality(marked) + Cardinality(UNION {{r} \X Modified(cs[r]) : r \in Present(cs) \ marked})
    IN  IF n > 1 THEN 2 ELSE n

\* A row is what it becomes, and what is above it is counted.
Becomes(cs, ms) ==
    /\ cells' = cs /\ marks' = ms
    /\ controls' = IF cells'[Section] = None THEN Count(cells', marks') ELSE controls

\* set() of a field and percolate()
Changed(r, f, cell) ==
    LET row == [cells[r] EXCEPT ![f] = cell] IN
    Becomes([cells EXCEPT ![r] = row], [marks EXCEPT ![r] = Classed(r, row, @, Modified(row) # {})])

-----------------------------------------------------------------------------
(* refreshed() of a page whose DB is d. *)

EmptyRow == [f \in F |-> [original |-> Blank, value |-> Blank, marks |-> {}]]

\* update()
Updated(cell, v) ==
    LET new == [cell EXCEPT !.original = v] IN
    IF "modified" \in cell.marks THEN With(new, "modified", cell.value # v)
    ELSE IF "pending" \in cell.marks THEN new
    ELSE Set(new, v)

\* The same of the section: what is still modified is not marked again.
UpdatedInSection(cell, v) ==
    LET new == [cell EXCEPT !.original = v] IN
    IF cell.marks = {"pending"} \/ ("modified" \in cell.marks /\ cell.value # v) THEN new
    ELSE Set(new, v)

\* realize(), trim(), deleted(), add()
Realized(cs, d) == [r \in DOMAIN d |-> IF d[r] = None THEN None ELSE IF cs[r] = None THEN EmptyRow ELSE cs[r]]

\* updateFromDB(): the fields of the rows of cs
RowsUpdated(cs, d) ==
    [r \in DOMAIN d |-> IF d[r] = None THEN None ELSE [f \in F |->
        IF r = Section THEN UpdatedInSection(cs[r][f], d[r].text[f]) ELSE Updated(cs[r][f], d[r].text[f])]]

Looking(row) == {i \in DOMAIN Fields : row[Fields[i]].marks \cap {"modified", "pending"} # {"pending"}}

\* Cache, query(), queryModified(): the mark of a row is what its last field finds. A field that
\* is modified looks; the others find what the first of them found, when the fields behind it
\* were still to be updated; one that is pending does not look.
Found(old, new, was) ==
    LET plain == {i \in Looking(old) : "modified" \notin old[Fields[i]].marks}
    IN  IF Looking(old) = {} THEN was
        ELSE IF Max(Looking(old)) \notin plain THEN Modified(new) # {}
        ELSE \E i \in DOMAIN Fields :
                 Fields[i] \in IF i <= Min(plain) THEN Modified(new) ELSE Modified(old)

Made(classes, record) == (classes \ {"new"}) \cup (IF record.new THEN {"new"} ELSE {})

\* refreshed() of the cards: a row is made new, or not, and then its fields are updated.
RowsClassed(old, new, ms, d) == [r \in DOMAIN d |->
    IF d[r] = None THEN {}
    ELSE LET classes == Made(ms[r], d[r]) IN Classed(r, new[r], classes, Found(old[r], new[r], "modified" \in classes))]

\* refreshed() of the other pages: what is updated is counted at once, and without a cache, and
\* the row is made new, or not, afterwards.
RowCounted(r, old, new, classes) ==
    IF Looking(old) = {} THEN classes ELSE Classed(r, new, classes, Modified(new) # {})

RowsMade(old, new, ms, d) == [r \in DOMAIN d |->
    IF d[r] = None THEN {} ELSE Made(RowCounted(r, old[r], new[r], ms[r]), d[r])]

\* The controls were last counted for the last row that had a field to update.
LastCount(old, new, ms, made) ==
    LET rows == {i \in DOMAIN Rows : new[Rows[i]] # None /\ Looking(old[Rows[i]]) # {}}
        asCounted(i) == IF i < Max(rows) THEN made[Rows[i]]
                        ELSE RowCounted(Rows[i], old[Rows[i]], new[Rows[i]], ms[Rows[i]])
    IN  IF rows = {} \/ new[Section] # None THEN controls
        ELSE Count(new, [r \in Range(Rows) |-> IF new[r] = None THEN {} ELSE asCounted(CHOOSE i \in DOMAIN Rows : Rows[i] = r)])

Refreshed(cs, ms, d) ==
    LET old == Realized(cs, d) IN
    IF kind = "card" THEN Becomes(RowsUpdated(old, d), RowsClassed(old, cells', ms, d))
    ELSE /\ cells' = RowsUpdated(old, d)
         /\ marks' = RowsMade(old, cells', ms, d)
         /\ controls' = LastCount(old, cells', ms, marks')

\* The answer of a get().
Refresh == Refreshed(cells, marks, records) /\ UNCHANGED <<kind, records, posted, edits>>

-----------------------------------------------------------------------------
(* The user. *)

\* onEdited(), onTick(), onEnter()
Edit ==
    /\ CountEdit
    /\ \E r \in DOMAIN cells : cells[r] # None /\ \E f \in F, v \in Texts :
           cells[r][f].value # v /\ Changed(r, f, Set(cells[r][f], v))
    /\ UNCHANGED <<kind, records, posted>>

\* onEnter() in a row whose status is 'error': what is stored is marked to be sent again.
Force ==
    /\ CountEdit
    /\ \E r \in Present(cells), f \in F : Changed(r, f, With(cells[r][f], "modified", TRUE))
    /\ UNCHANGED <<kind, records, posted>>

Marked(r) == cells[r] # None /\ marks[r] \cap {"modified", "new"} # {}

\* What DB has: what each field was last told.
Known(cs) == [r \in DOMAIN cs |->
    IF cs[r] = None THEN None ELSE [text |-> [f \in F |-> cs[r][f].original], new |-> "new" \in marks[r]]]

\* revert(): every field is set to what it was.
Reverted(row) == [f \in F |-> Set(row[f], row[f].original)]

\* onRollback() and onRollbackAll(), rollback(): a new row is taken out of DB and the others are
\* refreshed from it.
Rollback ==
    /\ CountEdit
    /\ LET marked == {r \in Range(Rows) : Marked(r)} IN
       \E rs \in ({{r} : r \in marked} \cup {marked}) \ {{}} :
           LET gone == {r \in rs : "new" \in marks[r]}
               cs == [r \in DOMAIN cells |-> IF r \in rs THEN Reverted(cells[r]) ELSE cells[r]]
               ms == [r \in DOMAIN cells |-> IF r \in rs THEN Classed(r, cs[r], marks[r], FALSE) ELSE marks[r]]
           IN  IF gone = {} THEN Becomes(cs, ms)
               ELSE Refreshed(cs, ms, [r \in DOMAIN cells |-> IF r \in gone THEN None ELSE Known(cells)[r]])
    /\ UNCHANGED <<kind, records, posted>>

\* rollback() of interfaces.js: the marks are removed rather than counted.
RollbackSection ==
    /\ CountEdit
    /\ "modified" \in marks[Section]
    /\ cells' = [cells EXCEPT ![Section] = [f \in F |->
                    With([@[f] EXCEPT !.value = cells[Section][f].original], "modified", FALSE)]]
    /\ marks' = [marks EXCEPT ![Section] = @ \ {"modified"}]
    /\ UNCHANGED <<kind, records, controls, posted>>

-----------------------------------------------------------------------------
(* changeset(), commit() and post() *)

\* What a row sends: of a section what differs, of another row what is marked.
Sends(r) ==
    {f \in F : IF r = Section THEN cells[r][f].value # cells[r][f].original ELSE "modified" \in cells[r][f].marks}

\* onCommit() with a row, onCommitAll() with all that are marked
Commit ==
    /\ CountEdit
    /\ Cardinality(posted) < MaxPosted
    /\ LET marked == {r \in DOMAIN cells : Marked(r)} IN
       \E rs \in ({{r} : r \in marked} \cup {marked}) \ {{}} :
           LET gone == {r \in rs : Deletable(r, cells[r])}
               sent == {p \in (rs \ gone) \X F : p[2] \in Sends(p[1])} IN
           /\ posted' = posted \cup {[at |-> "sent", deleted |-> gone, fields |-> sent,
                                      text |-> [p \in sent |-> cells[p[1]][p[2]].value]]}
           /\ cells' = [r \in DOMAIN cells |-> IF cells[r] = None THEN None ELSE [f \in F |->
                  IF <<r, f>> \in sent THEN With(With(cells[r][f], "pending", TRUE), "modified", FALSE) ELSE cells[r][f]]]
    /\ UNCHANGED <<kind, records, marks, controls>>

\* The server accepts a submission, or refuses it.
Serve ==
    /\ \E p \in posted :
           /\ p.at = "sent"
           /\ \/ /\ \A q \in p.fields : records[q[1]] # None
                 /\ records' = [r \in DOMAIN records |->
                        IF r \in p.deleted THEN None
                        ELSE IF \E f \in F : <<r, f>> \in p.fields
                        THEN [text |-> [f \in F |-> IF <<r, f>> \in p.fields THEN p.text[<<r, f>>] ELSE records[r].text[f]],
                              new |-> FALSE]
                        ELSE records[r]]
                 /\ posted' = (posted \ {p}) \cup {[p EXCEPT !.at = "stored"]}
              \/ posted' = (posted \ {p}) \cup {[p EXCEPT !.at = "refused"]} /\ UNCHANGED records
    /\ UNCHANGED <<kind, cells, marks, controls, edits>>

Unmarked(fields, status) == [r \in DOMAIN cells |-> IF cells[r] = None THEN None ELSE [f \in F |->
    IF <<r, f>> \in fields THEN With(With(cells[r][f], "pending", FALSE), "modified",
                                     status = "refused" \/ "modified" \in cells[r][f].marks)
    ELSE cells[r][f]]]

\* cleanup() and the refreshed() of the page, or reset().
Answered ==
    /\ \E p \in posted :
           /\ p.at # "sent"
           /\ posted' = posted \ {p}
           /\ IF p.at = "stored" THEN Refreshed(Unmarked(p.fields, p.at), marks, records)
              ELSE cells' = Unmarked(p.fields, p.at) /\ UNCHANGED <<marks, controls>>
    /\ UNCHANGED <<kind, records, edits>>

\* A record is created from the page or elsewhere, edited or deleted elsewhere.
Elsewhere ==
    /\ CountEdit
    /\ \E r \in DOMAIN records :
           \/ \E f \in F, v \in Texts : records[r] # None /\ records[r].text[f] # v /\ ~records[r].new
                                        /\ records' = [records EXCEPT ![r].text[f] = v]
           \/ r # Section /\ records[r] # None /\ records' = [records EXCEPT ![r] = None]
           \/ /\ records[r] = None /\ cells[r] = None /\ records[Section] = None /\ r # Section
              /\ \A p \in posted : r \notin p.deleted /\ \A q \in p.fields : q[1] # r
              /\ records' = [records EXCEPT ![r] = [text |-> [f \in F |-> Blank], new |-> TRUE]]
    /\ UNCHANGED <<kind, cells, marks, controls, posted>>

-----------------------------------------------------------------------------
MarksInit ==
    /\ kind \in {"controller", "door", "card", "group", "user"}
    /\ \E t \in Texts \ {Blank}, rs \in {{Section}} \cup SUBSET Range(Rows) :
           records = [r \in Range(Rows) \cup {Section} |->
                          IF r \in rs THEN [text |-> [f \in F |-> t], new |-> FALSE] ELSE None]
    /\ records[Section] # None => kind = "controller"
    /\ cells = [r \in DOMAIN records |-> IF r = Section /\ records[r] # None THEN EmptyRow ELSE None]
    /\ marks = [r \in DOMAIN records |-> {}]
    /\ controls = 0
    /\ posted = {} /\ edits = 0

MarksNext ==
    \/ Refresh \/ Edit \/ Force \/ Rollback \/ RollbackSection
    \/ Commit \/ Serve \/ Answered \/ Elsewhere

Spec == MarksInit /\ [][MarksNext]_marksVars

\* The timer of the page and the answers come.
FairSpec == Spec /\ WF_marksVars(Refresh) /\ WF_marksVars(Serve) /\ WF_marksVars(Answered)

-----------------------------------------------------------------------------
(* Type invariant. *)
Cell == [original : Texts, value : Texts, marks : SUBSET {"modified", "pending"}]

TypeOK ==
    /\ kind \in {"controller", "door", "card", "group", "user"}
    /\ \A r \in DOMAIN records :
           /\ records[r] \in [text : [F -> Texts], new : BOOLEAN] \cup {None}
           /\ cells[r] \in [F -> Cell] \cup {None}
           /\ marks[r] \in SUBSET {"modified", "new", "newish"}
           /\ cells[r] = None => marks[r] = {}
    /\ controls \in 0..2

\* modified(), percolate(), recount(): the marks of the rows and of the controls say which fields
\* differ once the edits have ended, whatever the caches of the refreshes missed: no row offers to
\* commit what it does not have, and none hides what it has.
InStep ==
    /\ \A r \in DOMAIN cells : cells[r] # None =>
           /\ "modified" \in marks[r] <=> Modified(cells[r]) # {}
           /\ "newish" \in marks[r] <=> "new" \in marks[r] /\ Deletable(r, cells[r])
    /\ cells[Section] = None /\ (kind = "card" \/ Present(cells) # {}) =>
           controls = LET n == Cardinality({r \in Range(Rows) : marks[r] \cap {"modified", "new"} # {}})
                      IN IF n > 1 THEN 2 ELSE n

=============================================================================
