-------------------------------- MODULE Pages --------------------------------
(***************************************************************************)
(* What the table pages make of two kinds of records that refer to each    *)
(* other: the checkboxes of the cards and of the groups, a column for each *)
(* group or door; the selects of the controllers, an option for each door; *)
(* the doors with their controllers; the controllers of the overview with  *)
(* their doors; the users with their lock and one-time password and the    *)
(* LAN interface with its addresses.  Each kind is got with a request of   *)
(* its own (tabular.js) and kept in DB (db.js).  Table models how a field  *)
(* is edited and submitted; here the only edit is a pick from a select.    *)
(***************************************************************************)
EXTENDS Lists, FiniteSets

CONSTANTS
    N,          \* records of a kind: 1..N, in the order in which they were created
    None,       \* no record, no row
    Unserved, Arrived,  \* what there is of an answer before and after it is one
    MaxEvents,  \* how often, together, others edit, a request fails and the user picks
    MaxGets     \* get() in flight

VARIABLES
    page,    \* the page, with the kind of its rows and the kind they refer to
    server,  \* the records, of the rows and linked
    db,      \* DB
    heard,   \* the linked records of DB in the order of the Map
    gets,    \* get() in flight: an answer for each kind, Unserved before there is one
    head,    \* the headings of the columns
    rows,    \* the rows
    events   \* counted, for the bound

vars == <<page, server, db, heard, gets, head, rows, events>>

Pages == {[rows |-> "controllers", linked |-> "doors", overview |-> FALSE],
          [rows |-> "controllers", linked |-> "doors", overview |-> TRUE],
          [rows |-> "doors", linked |-> "controllers", overview |-> FALSE],
          [rows |-> "cards", linked |-> "groups", overview |-> FALSE],
          [rows |-> "groups", linked |-> "doors", overview |-> FALSE],
          [rows |-> "users", linked |-> "none", overview |-> FALSE],
          [rows |-> "interfaces", linked |-> "none", overview |-> FALSE]}

\* A user has, or not, a lock and a one-time password; an interface an address to bind and one
\* to broadcast to.
Flagged == page.linked = "none"

Roles == {"rows", "linked"}
OIDs == 1..N
Nothing == [x \in {} |-> FALSE]

\* Some of them, in the order of creation.
Created(S) == Among([n \in OIDs |-> n], S)

Count == events < MaxEvents /\ events' = events + 1

\* Whose records say which refers to which: a controller has the door of its channel, a card its
\* groups, a group its doors.
Holder == IF page.rows = "doors" THEN "linked" ELSE "rows"
Held == IF Holder = "rows" THEN "linked" ELSE "rows"
Single == page.rows \in {"controllers", "doors"}

-----------------------------------------------------------------------------
(* The server. *)

LiveAt(role) == {n \in OIDs : server[role][n].state = "live"}

Referable == IF Flagged THEN {1, 2} ELSE LiveAt(Held)

\* Of the record of a group or a card all that it may refer to is listed, of a controller what
\* its channel has, and of a deleted record that it is deleted.
Listed(role, n) ==
    LET r == server[role][n] IN
    [deleted |-> r.state = "deleted",
     ties |-> IF r.state = "deleted" \/ role # Holder THEN Nothing
              ELSE IF Single THEN [x \in r.ties |-> TRUE]
              ELSE [x \in Referable |-> x \in r.ties]]

Listing(role) == [n \in {m \in OIDs : server[role][m].state \in {"live", "deleted"}} |-> Listed(role, n)]

\* Others edit: a record is listed once it has a name, in any order.  A door that a controller
\* has is not deleted, and has one controller; the interface is not deleted.
Elsewhere ==
    /\ Count
    /\ \E role \in Roles, n \in OIDs :
          LET r == server[role][n]
              inUse == role = Held /\ Single /\ \E h \in LiveAt(Holder) : n \in server[Holder][h].ties IN
          /\ Flagged => role = "rows"
          /\ \/ r.state = "none" /\ server' = [server EXCEPT ![role][n].state = "live"]
             \/ r.state = "live" /\ ~inUse /\ page.rows # "interfaces" /\ server' = [server EXCEPT ![role][n].state = "deleted"]
             \/ /\ role = Holder /\ r.state = "live"
                /\ \E ties \in SUBSET Referable :
                      /\ Single => /\ Cardinality(ties) <= 1
                                   /\ \A h \in LiveAt(role) \ {n} : server[role][h].ties \cap ties = {}
                      /\ ties # r.ties
                      /\ server' = [server EXCEPT ![role][n].ties = ties]
    /\ UNCHANGED <<page, db, heard, gets, head, rows>>

\* An answer on its way that tells of a record.
Tells(get, role, n) == get[role] \notin {Unserved, Arrived} /\ n \in DOMAIN get[role]

\* A deleted record is kept until the page has had the time to hear of it.
SweepServer ==
    /\ \E role \in Roles, n \in OIDs :
          /\ server[role][n].state = "deleted" /\ (db[role][n] # None => db[role][n].deleted)
          /\ \A i \in DOMAIN gets : Tells(gets[i], role, n) => gets[i][role][n].deleted
          /\ server' = [server EXCEPT ![role][n].state = "swept"]
    /\ UNCHANGED <<page, db, heard, gets, head, rows, events>>

-----------------------------------------------------------------------------
(* db.js: what DB makes of the objects of a record. *)

alive(d) == d # None /\ ~d.deleted

NewRecord == [deleted |-> FALSE, ties |-> Nothing]

\* The channels are told with the controller.
HeardController(v, o) == [deleted |-> FALSE, ties |-> o.ties]

HeardDoor(v, o) == [v EXCEPT !.deleted = FALSE]

\* What is told is put into the Map, which keeps what it is not told.
PutInto(told, ties) ==
    [x \in DOMAIN told \cup DOMAIN ties |-> IF x \in DOMAIN told THEN told[x] ELSE ties[x]]

HeardCard(v, o) == [deleted |-> FALSE, ties |-> PutInto(o.ties, v.ties)]

HeardGroup(v, o) == [deleted |-> FALSE, ties |-> PutInto(o.ties, v.ties)]

HeardUser(v, o) == [deleted |-> FALSE, ties |-> PutInto(o.ties, v.ties)]

HeardInterface(v, o) == [deleted |-> FALSE, ties |-> PutInto(o.ties, v.ties)]

Heard(kind, v, o) ==
    IF o.deleted THEN [v EXCEPT !.deleted = TRUE]
    ELSE CASE kind = "controllers" -> HeardController(v, o)
           [] kind = "doors" -> HeardDoor(v, o)
           [] kind = "cards" -> HeardCard(v, o)
           [] kind = "groups" -> HeardGroup(v, o)
           [] kind = "users" -> HeardUser(v, o)
           [] kind = "interfaces" -> HeardInterface(v, o)

\* DB.updated
Updated(role, objects) ==
    [db EXCEPT ![role] = [n \in OIDs |->
        IF n \in DOMAIN objects THEN Heard(page[role], IF @[n] = None THEN NewRecord ELSE @[n], objects[n]) ELSE @[n]]]

\* A Map has its keys in the order in which they were set first.
Ordered(d) ==
    LET known == {n \in OIDs : d[n] # None} IN Among(heard, known) \o Created(known \ Range(heard))

\* sweep(): the deleted records that no answer has told of for five minutes; the users are kept.
SweepDB ==
    /\ page.rows # "users"
    /\ \E role \in Roles, n \in OIDs :
          /\ db[role][n] # None /\ db[role][n].deleted
          /\ server[role][n].state = "swept"
          /\ \A i \in DOMAIN gets : ~Tells(gets[i], role, n)
          /\ db' = [db EXCEPT ![role][n] = None]
    /\ heard' = Ordered(db'.linked)
    /\ UNCHANGED <<page, server, gets, head, rows, events>>

-----------------------------------------------------------------------------
(* The columns of the cards and of the groups: realize() and updateFromDB(). *)

\* What is alive in DB, in the order of creation.
Alive(role) == Created({n \in OIDs : alive(db'[role][n])})

\* Columns that are missing are put behind those there are; those that are too many are taken out.
Columns(cols) ==
    Among(cols, Range(Alive("linked"))) \o Among(Alive("linked"), OIDs \ Range(cols))

\* add(): the row of a record that had none.
AddedCard == [cells |-> <<>>, on |-> {}]
AddedGroup == [cells |-> <<>>, on |-> {}]
AddedController == [options |-> <<>>, selected |-> 0, value |-> 0, original |-> 0, modified |-> FALSE]
AddedOverview == [at |-> 0]
AddedDoor == [at |-> 0]
AddedUser == [on |-> {}]

RowOr(n, added) == IF rows[n] = None THEN added ELSE rows[n]

\* A bug: the cells of a new row are those of the headings that are new too.
RealizedGroupOfMissing(n) ==
    LET row == RowOr(n, AddedGroup) IN
    [row EXCEPT !.cells = Among(Columns(@), {c \in OIDs : c \notin Range(head) \/ c \in Range(row.cells)})]

RealizedGroup(n) == [RowOr(n, AddedGroup) EXCEPT !.cells = Columns(@)]
RealizedCard(n) == [RowOr(n, AddedCard) EXCEPT !.cells = Columns(@)]

\* update() with undefined leaves a checkbox as it is.
Ticked(row, record) ==
    {c \in Range(row.cells) : IF c \in DOMAIN record.ties THEN record.ties[c] ELSE c \in row.on}

GroupRow(n, record) == LET row == RealizedGroup(n) IN [row EXCEPT !.on = Ticked(row, record)]
CardRow(n, record) == LET row == RealizedCard(n) IN [row EXCEPT !.on = Ticked(row, record)]

-----------------------------------------------------------------------------
(* The selects of the controllers. *)

\* The options after the first ones have been compared with the doors: an option that is not the
\* door's has the door's put before it, and the selected one moves along.
Compared(row, ix) ==
    LET door == Alive("linked")[ix] IN
    IF ix > Len(row.options) THEN [row EXCEPT !.options = Append(@, door)]
    ELSE IF row.options[ix] = door THEN row
    ELSE [row EXCEPT !.options = InsertAt(@, ix, door), !.selected = IF @ >= ix THEN @ + 1 ELSE @]

\* The options that are left over are removed; without the selected one the first is selected,
\* which is blank.
Options(row) ==
    LET doors == Alive("linked")
        upTo[ix \in 0..Len(doors)] == IF ix = 0 THEN row ELSE Compared(upTo[ix - 1], ix)
    IN  [upTo[Len(doors)] EXCEPT !.options = SubSeq(@, 1, Len(doors)), !.selected = IF @ > Len(doors) THEN 0 ELSE @]

Shown(row) == IF row.selected = 0 THEN 0 ELSE row.options[row.selected]

\* What the channel has, 0 for no door.
Channel(record) == IF record.ties = Nothing THEN 0 ELSE CHOOSE x \in DOMAIN record.ties : TRUE

IndexIn(options, door) == IF door \in Range(options) THEN CHOOSE i \in DOMAIN options : options[i] = door ELSE 0

\* updateFromDB() of controllers.js, with update(): what was picked stays until it is what DB has.
ControllerRow(n, record) ==
    LET door == Channel(record)
        row == [Options(RowOr(n, AddedController)) EXCEPT !.original = door] IN
    IF row.modified THEN [row EXCEPT !.modified = row.value # door]
    ELSE [row EXCEPT !.selected = IndexIn(row.options, door), !.value = door]

\* The listener of a select: onEdited
Pick ==
    /\ Count
    /\ page.rows = "controllers" /\ ~page.overview
    /\ \E n \in {m \in OIDs : rows[m] # None} :
          \E i \in 0..Len(rows[n].options) :
             LET door == IF i = 0 THEN 0 ELSE rows[n].options[i] IN
             /\ i # rows[n].selected
             /\ rows' = [rows EXCEPT ![n].selected = i, ![n].value = door,
                                     ![n].modified = door # rows[n].original]
    /\ UNCHANGED <<page, server, db, heard, gets, head>>

-----------------------------------------------------------------------------
(* The other pages. *)

\* lookup(): the first controller of the Map that has the door, a deleted one among them.
Lookup(door) ==
    LET with == Among(heard', {c \in Range(heard') : door \in DOMAIN db'.linked[c].ties}) IN
    IF with = <<>> THEN 0 ELSE with[1]

\* realize(): a record without a row gets one.
RealizedDoor(n) == RowOr(n, AddedDoor)
RealizedOverview(n) == RowOr(n, AddedOverview)
RealizedUser(n) == RowOr(n, AddedUser)

DoorRow(n, record) == [RealizedDoor(n) EXCEPT !.at = Lookup(n)]

\* updateController() of overview.js: a channel without a door is undefined in the names, and
\* what is shown stays.
OverviewRow(n, record) ==
    [RealizedOverview(n) EXCEPT !.at = IF Channel(record) # 0 /\ db'.linked[Channel(record)] # None THEN Channel(record) ELSE @]

UserRow(n, record) == [RealizedUser(n) EXCEPT !.on = {x \in DOMAIN record.ties : record.ties[x]}]

\* The section of the interface is there from the start.
InterfaceRow(n, record) == [RowOr(n, AddedUser) EXCEPT !.on = {x \in DOMAIN record.ties : record.ties[x]}]

\* refreshed(): a row for each record that is alive, and no other.
RefreshedWith(RowOf(_, _)) ==
    [n \in OIDs |-> IF alive(db'.rows[n]) THEN RowOf(n, db'.rows[n]) ELSE None]

RefreshedControllers == RefreshedWith(ControllerRow)
RefreshedOverview == RefreshedWith(OverviewRow)
RefreshedDoors == RefreshedWith(DoorRow)
RefreshedCards == RefreshedWith(CardRow)
RefreshedGroups == RefreshedWith(GroupRow)
RefreshedUsers == RefreshedWith(UserRow)
RefreshedInterfaces == RefreshedWith(InterfaceRow)

Refreshed ==
    /\ head' = IF page.rows \in {"cards", "groups"} THEN Columns(head) ELSE head
    /\ rows' = CASE page.overview -> RefreshedOverview
                 [] page.rows = "controllers" /\ ~page.overview -> RefreshedControllers
                 [] page.rows = "doors" -> RefreshedDoors
                 [] page.rows = "cards" -> RefreshedCards
                 [] page.rows = "groups" -> RefreshedGroups
                 [] page.rows = "users" -> RefreshedUsers
                 [] page.rows = "interfaces" -> RefreshedInterfaces

-----------------------------------------------------------------------------
(* get() *)

Requests == [role \in Roles |-> IF role = "linked" /\ page.linked = "none" THEN Arrived ELSE Unserved]

Poll ==
    /\ Len(gets) < MaxGets
    /\ gets' = Append(gets, Requests)
    /\ UNCHANGED <<page, server, db, heard, head, rows, events>>

Served ==
    /\ \E i \in DOMAIN gets, role \in Roles :
          gets[i][role] = Unserved /\ gets' = [gets EXCEPT ![i][role] = Listing(role)]
    /\ UNCHANGED <<page, server, db, heard, head, rows, events>>

\* Promise.all
Complete(get) == \A role \in Roles : get[role] = Arrived

\* Each answer is put into DB as it comes; the page is refreshed with the last.
Arrives ==
    /\ \E i \in DOMAIN gets, role \in Roles :
          /\ gets[i][role] \notin {Unserved, Arrived}
          /\ db' = Updated(role, gets[i][role])
          /\ heard' = Ordered(db'.linked)
          /\ LET get == [gets[i] EXCEPT ![role] = Arrived] IN
             IF Complete(get) THEN gets' = RemoveAt(gets, i) /\ Refreshed
             ELSE gets' = [gets EXCEPT ![i] = get] /\ UNCHANGED <<head, rows>>
    /\ UNCHANGED <<page, server, events>>

\* One request fails: the others are put into DB, and the page is not refreshed.
Fails ==
    /\ Count
    /\ \E i \in DOMAIN gets, role \in Roles :
          /\ gets[i][role] # Arrived
          /\ \/ gets' = RemoveAt(gets, i) /\ UNCHANGED <<db, heard>>
             \/ \E other \in Roles \ {role} :
                    /\ gets[i][other] \notin {Unserved, Arrived}
                    /\ gets' = RemoveAt(gets, i)
                    /\ db' = Updated(other, gets[i][other])
                    /\ heard' = Ordered(db'.linked)
    /\ UNCHANGED <<page, server, head, rows>>

-----------------------------------------------------------------------------
\* The page is opened: DB is empty.
Init ==
    /\ page \in Pages
    /\ server = [role \in Roles |-> [n \in OIDs |-> [state |-> "none", ties |-> {}]]]
    /\ db = [role \in Roles |-> [n \in OIDs |-> None]]
    /\ heard = <<>> /\ gets = <<Requests>> /\ head = <<>>
    /\ rows = [n \in OIDs |-> None]
    /\ events = 0

Next ==
    \/ Elsewhere \/ SweepServer \/ SweepDB
    \/ Poll \/ Served \/ Arrives \/ Fails
    \/ Pick

Spec == Init /\ [][Next]_vars

\* The timer of setInterval and the answers come, and both sides sweep.
FairSpec ==
    /\ Spec
    /\ WF_vars(Poll) /\ WF_vars(Served) /\ WF_vars(Arrives)
    /\ WF_vars(SweepServer) /\ WF_vars(SweepDB)

-----------------------------------------------------------------------------
Kept == [OIDs -> [state : {"none", "live", "deleted", "swept"}, ties : SUBSET OIDs]]

TypeOK ==
    /\ page \in Pages
    /\ server \in [Roles -> Kept]
    /\ \A role \in Roles, n \in OIDs : db[role][n] # None =>
           db[role][n].deleted \in BOOLEAN /\ DOMAIN db[role][n].ties \subseteq OIDs
    /\ head \in BoundedSeq(OIDs, N) /\ heard \in BoundedSeq(OIDs, N)
    /\ \A n \in OIDs : rows[n] # None =>
           /\ page.rows \in {"cards", "groups"} =>
                  rows[n].cells \in BoundedSeq(OIDs, N) /\ rows[n].on \subseteq Range(rows[n].cells)
           /\ page.rows = "controllers" /\ ~page.overview =>
                  /\ rows[n].options \in BoundedSeq(OIDs, N) /\ rows[n].selected \in 0..Len(rows[n].options)
                  /\ {rows[n].value, rows[n].original} \subseteq 0..N /\ rows[n].modified \in BOOLEAN
           /\ page.overview \/ page.rows = "doors" => rows[n].at \in 0..N
           /\ Flagged => rows[n].on \subseteq {1, 2}

\* Every row has a checkbox for each heading, and they are below their headings while the headings
\* are in the order of creation: a group or a door that is listed later than one that was created
\* after it has its heading last, and its checkbox, in the rows that come after it, before.
ColumnsMatch ==
    page.rows \in {"cards", "groups"} => \A n \in OIDs : rows[n] # None =>
        /\ Range(rows[n].cells) = Range(head) /\ Len(rows[n].cells) = Len(head)
        /\ (\A i, j \in DOMAIN head : i < j => head[i] < head[j]) => rows[n].cells = head

\* A select goes on showing what was picked, which is what would be committed, unless a door
\* goes from the options.
PickIsShown ==
    [][\A n \in OIDs :
           /\ page.rows = "controllers" /\ ~page.overview /\ rows[n] # None /\ rows'[n] # None
           /\ rows[n].modified /\ rows'[n].modified /\ rows[n].value = rows'[n].value
           /\ Shown(rows[n]) = rows[n].value
           /\ Range(rows[n].options) \subseteq Range(rows'[n].options)
           => Shown(rows'[n]) = rows'[n].value]_vars

\* Once the edits end the pages say what the server has: which rows there are, which boxes are
\* ticked, which accounts are locked, which addresses the interface has, which door a channel has,
\* unless the user picked another, and which controller a door is on, also if it was moved from a
\* controller that was deleted.  The overview only says it of a channel that has a door.
InStep ==
    \A n \in OIDs :
        LET r == server.rows[n] IN
        /\ r.state = "live" <=> rows[n] # None
        /\ r.state = "live" =>
            /\ page.rows \in {"cards", "groups"} =>
                   Range(rows[n].cells) = LiveAt("linked") /\ rows[n].on = r.ties \cap LiveAt("linked")
            /\ page.rows = "controllers" /\ ~page.overview =>
                   rows[n].modified \/ {Shown(rows[n])} \ {0} = r.ties
            /\ Flagged => rows[n].on = r.ties
            /\ page.overview => r.ties \subseteq {rows[n].at}
            /\ page.rows = "doors" =>
                   {rows[n].at} \ {0} = {c \in LiveAt("linked") : n \in server.linked[c].ties}

=============================================================================
