------------------------------- MODULE Table -------------------------------
(***************************************************************************)
(* A table page (tabular.js, db.js and the module of the page): a row for  *)
(* each record, edited in place, while a timer gets the records and others *)
(* edit them.  A record has one field; a row whose field is blank is       *)
(* committed as a deletion.                                                *)
(***************************************************************************)
EXTENDS Naturals, Sequences, SequencesExt, FiniteSets

CONSTANTS
    Records,    \* OIDs
    Texts,      \* what a field may hold, Blank among it
    Blank,
    None,       \* no record, no row, no focus
    MaxEvents,  \* how often, together, the user does something, others edit and a request fails
    MaxGets, MaxPosts   \* requests in flight

\* None is not one of the things that it stands for the lack of.
ASSUME TableAssumption ==
    /\ Blank \in Texts
    /\ None \notin Records /\ None \notin Texts
    /\ None \notin [at : Records, shown : Texts]
    /\ None \notin [text : Texts, new : BOOLEAN, deleted : BOOLEAN]
    /\ None \notin [original : Texts, value : Texts, display : Texts,
                     marks : SUBSET {"modified", "pending", "conflict"}, new : BOOLEAN]

VARIABLES
    server,  \* each record's state and text
    db,      \* DB
    row,     \* the row of each record, None without one
    focus,   \* document.activeElement, None or a record with what its field showed when it was entered
    gets,    \* get() in flight: the answers, Unserved before there is one
    posts,   \* post() in flight
    events,  \* counted, for the bound
    hand,    \* who made the last step (history)
    twice    \* the records that were submitted while they were being submitted (history)

page == <<db, row, focus>>
vars == <<server, page, gets, posts, events, hand, twice>>

States == {"none", "new", "live", "deleted", "swept"}

Unserved == <<>>

\* The record whose field has the focus.
Focused == IF focus = None THEN None ELSE focus.at

\* db.js
alive(d) == d # None /\ ~d.deleted

Count == events < MaxEvents /\ events' = events + 1
ByUser == Count /\ hand' = "user"
ByBrowser == hand' = "browser" /\ UNCHANGED <<events, twice>>

-----------------------------------------------------------------------------
(* The server.  A request is applied as a whole or refused. *)

\* A new record that is blank is not listed; of a deleted one only that it is deleted.
Listing == [r \in {q \in Records : server[q].state \in {"live", "deleted"}} |-> server[r]]

Unique(s) ==
    \A a, b \in {r \in Records : s[r].state = "live"} : s[a].text = s[b].text => a = b

\* A record that is not there is passed over; a deleted one is an error.
Applied(updated, deleted) ==
    [r \in Records |->
        IF r \in deleted /\ server[r].state \in {"new", "live"} THEN [server[r] EXCEPT !.state = "deleted"]
        ELSE IF r \in DOMAIN updated /\ server[r].state \in {"new", "live"} THEN [state |-> "live", text |-> updated[r]]
        ELSE server[r]]

Accepts(p) ==
    /\ \A r \in DOMAIN p.updated : server[r].state # "deleted"
    /\ Unique(Applied(p.updated, p.deleted))

\* What the answer lists: the records that the request changed.
Changed(s) == [r \in {q \in Records : s[q] # server[q]} |-> s[r]]

\* Another client edits.  A deleted record is swept once this browser knows of it: it is kept
\* for longer than the timer of the page takes.
Elsewhere ==
    /\ Count /\ hand' = "browser"
    /\ \E r \in Records :
          \/ \E t \in Texts \ {Blank} :
                 /\ server[r].state \in {"none", "live"} /\ server' = [server EXCEPT ![r] = [state |-> "live", text |-> t]]
                 /\ Unique(server') /\ server' # server
          \/ server[r].state = "live" /\ server' = [server EXCEPT ![r].state = "deleted"]
          \/ /\ server[r].state = "deleted" /\ ~alive(db[r]) /\ gets = <<>> /\ posts = <<>>
             /\ server' = [server EXCEPT ![r].state = "swept"]
    /\ UNCHANGED <<page, gets, posts, twice>>

-----------------------------------------------------------------------------
(* db.js *)

\* DB.updated, object() and the function of the kind: a record that is not there is made; of a
\* deleted one nothing else is told.  An answer that was overtaken brings a deleted record back.
Updated(objects) == [r \in Records |->
    IF r \notin DOMAIN objects THEN db[r]
    ELSE IF objects[r].state = "deleted"
         THEN [text |-> IF db[r] = None THEN Blank ELSE db[r].text, new |-> FALSE, deleted |-> TRUE]
         ELSE [text |-> objects[r].text, new |-> objects[r].state = "new", deleted |-> FALSE]]

\* sweep(): nothing in flight is as old as five minutes.
SweepDB ==
    /\ gets = <<>> /\ posts = <<>>
    /\ \E r \in Records : db[r] # None /\ db[r].deleted /\ db' = [db EXCEPT ![r] = None]
    /\ ByBrowser
    /\ UNCHANGED <<server, row, focus, gets, posts>>

-----------------------------------------------------------------------------
(* tabular.js: set, update, revert *)

With(cell, mark, on) == [cell EXCEPT !.marks = IF on THEN @ \cup {mark} ELSE @ \ {mark}]

\* set()
Set(cell, v) == With([cell EXCEPT !.value = v], "modified", v # cell.original)

\* A bug: what was not sent yet is updated like the rest.
UpdateCellOver(cell, v, focused) ==
    LET new == [cell EXCEPT !.original = v] IN
    IF "pending" \in cell.marks
    THEN With(new, "conflict", cell.original # v /\ cell.value # v)
    ELSE Set([new EXCEPT !.display = IF focused THEN @ ELSE v], v)

\* update(): a field that is modified or pending keeps its value, and is marked when somebody
\* else has changed it; one that has the focus keeps what it displays.
UpdateCell(cell, v, focused) ==
    LET new == [cell EXCEPT !.original = v]
        clash == cell.original # v /\ cell.value # v IN
    IF "modified" \in cell.marks
    THEN IF cell.value = v THEN With(With(new, "conflict", FALSE), "modified", FALSE)
         ELSE With(new, "conflict", clash)
    ELSE IF "pending" \in cell.marks THEN With(new, "conflict", clash)
    ELSE Set([new EXCEPT !.display = IF focused THEN @ ELSE v], v)

\* A bug: the mark is taken off the row, and the field keeps its value.
RevertMarks(cell) == [cell EXCEPT !.marks = @ \ {"modified"}, !.display = cell.original]

\* A bug: what DB.get answers is used though it says that it has nothing.
RevertNull(cell) == Set([cell EXCEPT !.display = None], None)

\* revert(): DB.get knows the values of system.cards only.
Revert(cell) == Set([cell EXCEPT !.display = cell.original], cell.original)

EmptyRow == [original |-> Blank, value |-> Blank, display |-> Blank, marks |-> {}, new |-> FALSE]

\* A bug: the rows of records that are gone are kept.
refreshedOf(d) == [r \in Records |->
    IF ~alive(d[r]) THEN row[r]
    ELSE [UpdateCell(IF row[r] = None THEN EmptyRow ELSE row[r], d[r].text, Focused = r) EXCEPT !.new = d[r].new]]

\* refreshed() of a page: trim, realize, updateFromDB
refreshed(d) == [r \in Records |->
    IF ~alive(d[r]) THEN None
    ELSE [UpdateCell(IF row[r] = None THEN EmptyRow ELSE row[r], d[r].text, Focused = r) EXCEPT !.new = d[r].new]]

\* The elements of a row that is trimmed are out of the page.
Trimmed(rows) ==
    /\ row' = rows
    /\ focus' = IF focus # None /\ rows[Focused] = None THEN None ELSE focus

Attached(ps) == [i \in DOMAIN ps |-> [ps[i] EXCEPT !.cells = {r \in @ : row'[r] # None}]]

-----------------------------------------------------------------------------
(* get() *)

\* setInterval, onRefresh
Poll ==
    /\ Len(gets) < MaxGets
    /\ gets' = Append(gets, Unserved)
    /\ ByBrowser
    /\ UNCHANGED <<server, page, posts>>

GetServed ==
    /\ \E i \in DOMAIN gets : gets[i] = Unserved /\ gets' = [gets EXCEPT ![i] = <<Listing>>]
    /\ ByBrowser
    /\ UNCHANGED <<server, page, posts>>

\* The answers come in any order.
GetArrives ==
    /\ \E i \in DOMAIN gets :
           /\ gets[i] # Unserved
           /\ db' = Updated(gets[i][1])
           /\ gets' = RemoveAt(gets, i)
    /\ Trimmed(refreshed(db'))
    /\ posts' = Attached(posts)
    /\ ByBrowser
    /\ UNCHANGED server

GetFails ==
    /\ Count /\ hand' = "browser"
    /\ \E i \in DOMAIN gets : gets' = RemoveAt(gets, i)
    /\ UNCHANGED <<server, page, posts, twice>>

-----------------------------------------------------------------------------
(* The user. *)

Focus ==
    /\ ByUser
    /\ focus = None
    /\ \E r \in Records : row[r] # None /\ focus' = [at |-> r, shown |-> row[r].display]
    /\ UNCHANGED <<server, db, row, gets, posts, twice>>

Type ==
    /\ ByUser
    /\ focus # None
    /\ \E t \in Texts : t # row[Focused].display /\ row' = [row EXCEPT ![Focused].display = t]
    /\ UNCHANGED <<server, db, focus, gets, posts, twice>>

\* Enter, or a field is left: onEnter; onEdited, of a field that was changed
Entered ==
    /\ focus # None
    /\ \/ row' = [row EXCEPT ![Focused] = Set(@, @.display)]
       \/ row[Focused].display = focus.shown /\ UNCHANGED row
    /\ focus' = None
    /\ hand' = "user" /\ UNCHANGED events
    /\ UNCHANGED <<server, db, gets, posts, twice>>

\* DB.delete
Deleted(r) == [db EXCEPT ![r] = None]

\* rollback(): a new row is taken out of DB, and all rows are refreshed from it.
RolledBack(r) ==
    IF row[r].new
    THEN db' = Deleted(r) /\ Trimmed(refreshed(db'))
    ELSE row' = [row EXCEPT ![r] = Revert(@)] /\ UNCHANGED <<db, focus>>

\* onRollback()
Rollback ==
    /\ ByUser /\ focus = None
    /\ \E r \in {q \in Records : row[q] # None} :
           (row[r].new \/ "modified" \in row[r].marks) /\ RolledBack(r)
    /\ posts' = Attached(posts)
    /\ UNCHANGED <<server, gets, twice>>

\* deletable()
Deletable(r) == row[r].value = Blank

Posted(p) == Len(posts) < MaxPosts /\ posts' = Append(posts, p)

\* onCommit with a row, onCommitAll with all that are modified or new: changeset, commit
Commit ==
    /\ ByUser /\ focus = None
    /\ LET marked == {r \in Records : row[r] # None /\ (row[r].new \/ "modified" \in row[r].marks)} IN
       \E rs \in ({{r} : r \in marked} \cup {marked}) \ {{}} :
           LET deleted == {r \in rs : Deletable(r)}
               sent == {r \in rs \ deleted : "modified" \in row[r].marks} IN
           /\ Posted([at |-> "sent", cells |-> sent, updated |-> [r \in sent |-> row[r].value],
                      deleted |-> deleted, created |-> None, answer |-> Unserved])
           /\ row' = [r \in Records |->
                          IF r \in sent THEN With(With(row[r], "pending", TRUE), "modified", FALSE) ELSE row[r]]
    /\ twice' = twice \cup (DOMAIN posts'[Len(posts')].updated \cap UNION {posts[i].cells : i \in DOMAIN posts})
    /\ UNCHANGED <<server, db, focus, gets>>

\* create()
Creates(r) ==
    Posted([at |-> "sent", cells |-> {}, updated |-> [q \in {} |-> Blank], deleted |-> {},
            created |-> r, answer |-> Unserved])

\* onNew()
Create ==
    /\ ByUser
    /\ \E r \in Records :
           server[r].state = "none" /\ (\A i \in DOMAIN posts : posts[i].created # r) /\ Creates(r)
    /\ UNCHANGED <<server, page, gets, twice>>

-----------------------------------------------------------------------------
(* post() *)

PostServed ==
    /\ \E i \in DOMAIN posts :
           LET p == posts[i]
               s == IF p.created = None THEN Applied(p.updated, p.deleted)
                    ELSE [server EXCEPT ![p.created] = IF @.state = "none" THEN [state |-> "new", text |-> Blank] ELSE @]
           IN  /\ p.at = "sent"
               /\ IF Accepts(p)
                  THEN server' = s /\ posts' = [posts EXCEPT ![i].at = "accepted", ![i].answer = <<Changed(s)>>]
                  ELSE UNCHANGED server /\ posts' = [posts EXCEPT ![i].at = "refused"]
    /\ ByBrowser
    /\ UNCHANGED <<page, gets>>

\* cleanup()
Cleaned(cells) == [r \in Records |-> IF r \in cells THEN With(row[r], "pending", FALSE) ELSE row[r]]

\* reset() and cleanup()
Reset(cells) == [r \in Records |->
    IF r \in cells THEN With(With(row[r], "pending", FALSE), "modified", TRUE) ELSE row[r]]

\* finally: the fields are no longer pending, before the answer is read.
PostAnswered ==
    /\ \E i \in DOMAIN posts :
           /\ posts[i].at = "accepted"
           /\ row' = Cleaned(posts[i].cells)
           /\ posts' = [posts EXCEPT ![i].at = "answered", ![i].cells = {}]
    /\ ByBrowser
    /\ UNCHANGED <<server, db, focus, gets>>

PostRead ==
    /\ \E i \in DOMAIN posts :
           /\ posts[i].at = "answered"
           /\ db' = Updated(posts[i].answer[1])
           /\ Trimmed(refreshed(db'))
           /\ posts' = Attached(RemoveAt(posts, i))
    /\ ByBrowser
    /\ UNCHANGED <<server, gets>>

\* A refusal; a request or an answer that is lost, whether it was served or not.
PostFails ==
    /\ \E i \in DOMAIN posts :
           /\ posts[i].at = "refused" \/ (posts[i].at \in {"sent", "accepted"} /\ events < MaxEvents)
           /\ events' = IF posts[i].at = "refused" THEN events ELSE events + 1
           /\ row' = Reset(posts[i].cells)
           /\ posts' = RemoveAt(posts, i)
    /\ hand' = "browser"
    /\ UNCHANGED <<server, db, focus, gets, twice>>

-----------------------------------------------------------------------------
Init ==
    /\ server \in {s \in [Records -> [state : {"none", "live"}, text : Texts]] :
                      /\ \A r \in Records : s[r].state = "none" <=> s[r].text = Blank
                      /\ Unique(s)}
    /\ db = [r \in Records |-> None] /\ row = [r \in Records |-> None]
    /\ focus = None
    /\ gets = <<Unserved>> /\ posts = <<>>
    /\ events = 0 /\ hand = "browser" /\ twice = {}

Next ==
    \/ Poll \/ GetServed \/ GetArrives \/ GetFails
    \/ Focus \/ Type \/ Entered \/ Rollback \/ Commit \/ Create
    \/ PostServed \/ PostAnswered \/ PostRead \/ PostFails
    \/ SweepDB \/ Elsewhere

Spec == Init /\ [][Next]_vars

\* The timer of setInterval and the answers come; nobody keeps the focus in a field for ever.
FairSpec ==
    /\ Spec
    /\ WF_vars(Poll) /\ WF_vars(GetServed) /\ WF_vars(GetArrives)
    /\ WF_vars(PostServed) /\ WF_vars(PostAnswered) /\ WF_vars(PostRead) /\ WF_vars(PostFails)
    /\ WF_vars(Entered)

-----------------------------------------------------------------------------
Cell == [original : Texts, value : Texts, display : Texts,
         marks : SUBSET {"modified", "pending", "conflict"}, new : BOOLEAN]

TypeOK ==
    /\ server \in [Records -> [state : States, text : Texts]]
    /\ db \in [Records -> [text : Texts, new : BOOLEAN, deleted : BOOLEAN] \cup {None}]
    /\ row \in [Records -> Cell \cup {None}]
    /\ focus \in [at : Records, shown : Texts] \cup {None} /\ (focus # None => row[Focused] # None)
    /\ hand \in {"user", "browser"}

\* Unless an answer is just being read, what a commit would not send is what the page was last
\* told: no value is left behind that nothing marks.
UnmarkedIsStored ==
    (\A i \in DOMAIN posts : posts[i].at # "answered") =>
        \A r \in Records : row[r] # None /\ row[r].marks \cap {"modified", "pending"} = {} =>
            row[r].value = row[r].original

Stage(r) ==
    IF row[r] = None \/ r \in twice THEN "none"
    ELSE IF Focused = r THEN "typing"
    ELSE IF "modified" \in row[r].marks THEN "unsent"
    ELSE IF "pending" \in row[r].marks THEN "sent" ELSE "none"

Promise == INSTANCE Drafts WITH
    Gone <- None,
    stage <- [r \in Records |-> Stage(r)],
    text <- [r \in Records |-> IF Stage(r) = "none" THEN None
                               ELSE IF Stage(r) = "typing" THEN row[r].display ELSE row[r].value],
    known <- [r \in Records |-> IF row[r] = None THEN None ELSE row[r].original]

\* The table implements Drafts: nothing but the user changes what the user typed.  Marks are of a
\* field and not of a submission: nothing is promised of a record once it is submitted again while
\* it is being submitted, as the answer to the first submission takes the mark off the second.
DraftsAreKept == Promise!Spec

\* Once the edits end, every row that nobody is editing shows what the server has, and there is
\* none for a record that is gone, whatever was lost and in whatever order the answers came.
InStep ==
    \A r \in Records :
        /\ server[r].state = "live" => row[r] # None
        /\ server[r].state \in {"none", "deleted", "swept"} => row[r] = None
        /\ row[r] # None /\ row[r].marks \cap {"modified", "pending"} = {} /\ server[r].state = "live" =>
               row[r].display = server[r].text

=============================================================================
