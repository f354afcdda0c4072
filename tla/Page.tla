-------------------------------- MODULE Page --------------------------------
(***************************************************************************)
(* A page of the console (gate-control.js): the copy of the snapshot that  *)
(* load() keeps, by its timers, its retries and the Refresh button, what   *)
(* render() makes of the copy, the searches, the relay buttons and the     *)
(* other buttons that send one request, and the messages.  A page stays on *)
(* its route; another route is another page.                               *)
(***************************************************************************)
EXTENDS Integers, FiniteSets, SequencesExt

CONSTANTS
    Cards,      \* OIDs of credentials, numbers
    CardSets,   \* the credentials a snapshot may list: [SUBSET Cards -> records]
    Items,      \* the access levels, controllers, log entries or accounts of the route, numbers
    Title(_),   \* the name of each
    Me,         \* the account that is signed in
    Modes,      \* what a relay may be commanded to
    Words,      \* what may be typed into a search
    Kinds,      \* the kinds of credentials
    Blank,      \* no search, no name, no team, every kind
    Same(_),    \* a name or a team without case and superfluous spaces
    MaxEvents   \* how often, together, the server's data or session changes, the user
                \* searches or clicks and a request fails

\* No message is shown as one that is blank.
ASSUME PageAssumption ==
    /\ MaxEvents \in Nat /\ Blank \notin {"refreshing", "refreshed", "accepted", "time", "export", "error"}

VARIABLES
    route,      \* currentRoute()
    server,     \* what /api/v1/snapshot answers: cards, items and the mode of the relay
    session,    \* is the cookie valid
    view,       \* DB
    shown,      \* what #app shows of it
    search, filter,
    load,       \* load(): "idle", "sent" or "read", with the snapshot on its way
    retries,    \* emptyCardRetries
    timer,      \* is emptyCardRetryTimer set
    refresh,    \* the manualRefresh() calls in flight, by what they wait for
    button,     \* is the Refresh button enabled
    commands,   \* the controlDoor() calls in flight
    row,        \* are the relay's buttons enabled
    errands,    \* setControllerTime(), exportCredentials() and the sign-out in flight
    notice,     \* the message of the page, and of the dialog
    online,     \* what the connection label says
    dialog,     \* the dialog that is open: the help, the configuration of a controller
    away,       \* the browser went to another document
    events,     \* counted, for the bound
    empties     \* answers in a row that listed no credential (history)

data == <<server, session>>
copy == <<view, shown, retries, timer, empties>>
asked == <<search, filter>>
calls == <<refresh, button, commands, row, errands>>
messages == <<notice, online, dialog>>
vars == <<route, data, copy, asked, load, calls, messages, away, events>>

NoCards == [c \in {} |-> Blank]

Routes == {"overview", "controllers", "doors", "cards", "groups", "events", "logs", "users"}

Live(v) == {c \in DOMAIN v.cards : ~v.cards[c].deleted}

-----------------------------------------------------------------------------
(* What the pages show. *)

\* canonicalPeople(): the credential with the lowest OID of those with the name.
PersonOf(v, name) ==
    LET same == {c \in Live(v) : Same(v.cards[c].name) = Same(name)} IN
    IF name = Blank THEN [name |-> Blank, team |-> Blank]
    ELSE LET first == CHOOSE c \in same : \A d \in same : c <= d
         IN  [name |-> v.cards[first].name, team |-> v.cards[first].team]

\* credentialSearchText
Matches(v, c, word) == word \in {Blank, Same(v.cards[c].name), Same(v.cards[c].team), v.cards[c].kind}

\* credentialTree(): the leaves, each with its branch and its person.
Tree(v, word) ==
    {LET person == PersonOf(v, v.cards[c].name)
         team == IF person.team # Blank THEN person.team ELSE v.cards[c].team
     IN  <<c, Same(team), Same(person.name)>> : c \in {d \in Live(v) : Matches(v, d, word)}}

\* accessLevelCompare(): No Access and 24/7 come first.
Rank(g) == IF g \in {254, 255} THEN g - 256 ELSE g

LevelsFor(v, word) == SetToSortSeq({g \in v.items : word \in {Blank, Title(g)}}, LAMBDA a, b : Rank(a) < Rank(b))

ControllerRows(v) == v.items

\* logRows(), the newest first
LogRows(v) == SetToSortSeq(v.items, >)

\* userRows(): the account that is signed in is marked.
UserRows(v) == {[account |-> u, current |-> u = Me] : u \in v.items}

\* One event for each credential number, known or not.
CredentialFor(v, c) == IF c \in Live(v) THEN c ELSE 0

KindOf(v, c) == IF CredentialFor(v, c) = 0 THEN "unknown" ELSE v.cards[c].kind

\* filteredEvents()
EventsFor(v, word, kind) ==
    {c \in Cards : /\ kind \in {Blank, KindOf(v, c)}
                   /\ word \in {Blank, KindOf(v, c)} \/ (c \in Live(v) /\ Matches(v, c, word))}

\* eventRows(), the newest first: a row opens the credential of its number, if there is one.
EventRows(v, es) ==
    LET newest == SetToSortSeq(es, >) IN
    [i \in DOMAIN newest |-> [event |-> newest[i], opens |-> CredentialFor(v, newest[i]), kind |-> KindOf(v, newest[i])]]

\* updateNavigation()
Counts(v) == [cards |-> Cardinality(Live(v)), items |-> Cardinality(v.items)]

\* overview()
Summary(v) ==
    [credentials |-> Cardinality(Live(v)),
     people |-> Cardinality({Same(v.cards[c].name) : c \in Live(v)} \ {Blank}),
     teams |-> Cardinality({Same(v.cards[c].team) : c \in Live(v)} \ {Blank})]

Filtered(v, word, kind) ==
    CASE route = "cards" -> Tree(v, word)
      [] route = "groups" -> LevelsFor(v, word)
      [] route = "events" -> EventRows(v, EventsFor(v, word, kind))
      [] route = "doors" -> v.mode
      [] route = "controllers" -> ControllerRows(v)
      [] route = "logs" -> LogRows(v)
      [] route = "users" -> UserRows(v)
      [] OTHER -> Summary(v)

\* A bug: the search of the access levels is applied as the user types, and lost with the
\* next render().
RenderedOnce(v) ==
    IF route \in {"events", "groups"} THEN Filtered(v, Blank, Blank) ELSE Filtered(v, search, filter)

\* render(): the events are shown without their search and filter.
Rendered(v) == IF route = "events" THEN Filtered(v, Blank, Blank) ELSE Filtered(v, search, filter)

-----------------------------------------------------------------------------
(* load() *)

Count == events < MaxEvents /\ events' = events + 1

Loaded == [at |-> "idle", data |-> [cards |-> NoCards, items |-> {}, mode |-> Blank]]

\* showNotice(): a message is shown in an open dialog too, and stays there until it is closed.
Said(n, message) ==
    [page |-> message, dialog |-> IF dialog # "none" /\ message # Blank THEN message ELSE n.dialog]

Says(message) == notice' = Said(notice, message)

\* A call while another one is in flight returns at once.  n: the messages before the call.
StartLoad(n) ==
    IF load.at = "idle"
    THEN load' = [load EXCEPT !.at = "sent"] /\ button' = FALSE /\ notice' = Said(n, Blank)
    ELSE notice' = n /\ UNCHANGED <<load, button>>

\* setInterval
Poll ==
    /\ load.at = "idle" /\ ~away
    /\ StartLoad(notice)
    /\ UNCHANGED <<route, data, copy, asked, refresh, commands, row, errands, online, dialog, away, events>>

\* The timer goes off: a load that is in flight already is the end of the retry.
TimerFires ==
    /\ timer /\ ~away
    /\ timer' = FALSE
    /\ StartLoad(notice)
    /\ UNCHANGED <<route, data, view, shown, retries, empties, asked, refresh, commands, row, errands,
                   online, dialog, away, events>>

Served ==
    /\ load.at = "sent" /\ session
    /\ load' = [at |-> "read", data |-> server]
    /\ UNCHANGED <<route, data, copy, asked, calls, messages, away, events>>

\* The finally of load(), and of the calls that wait for it.  n: the messages after the load.
LoadEnds(n) ==
    /\ load' = Loaded
    /\ button' = TRUE
    /\ refresh' = [refresh EXCEPT !.reload = 0]
    /\ notice' = IF refresh.reload > 0 THEN Said(n, "refreshed") ELSE n

\* A bug: the count of the retries goes on.
RetriesAfterCountOn(v, retained) ==
    IF retained \/ (route = "cards" /\ Live(v) = {} /\ retries < 4)
    THEN retries' = retries + 1 /\ timer' = TRUE
    ELSE retries' = retries /\ timer' = (timer /\ Live(v) = {})

RetriesAfter(v, retained) ==
    IF retained \/ (route = "cards" /\ Live(v) = {} /\ retries < 4)
    THEN retries' = retries + 1 /\ timer' = TRUE
    ELSE IF Live(v) # {} THEN retries' = 0 /\ timer' = FALSE
    ELSE UNCHANGED <<retries, timer>>

\* A bug: a page that has credentials keeps them for as long as none are listed.
RetainsForEver(answer) == route = "cards" /\ Live(view) # {} /\ DOMAIN answer.cards = {}

\* retainCards
Retains(answer) == route = "cards" /\ Live(view) # {} /\ DOMAIN answer.cards = {} /\ retries < 4

Arrives ==
    /\ load.at = "read" /\ ~away
    /\ LET v == IF Retains(load.data) THEN [load.data EXCEPT !.cards = view.cards] ELSE load.data
       IN  /\ view' = v
           /\ shown' = [loaded |-> TRUE, content |-> Rendered(v), counts |-> Counts(v)]
           /\ RetriesAfter(v, Retains(load.data))
    /\ empties' = IF DOMAIN load.data.cards # {} THEN 0 ELSE IF empties < 5 THEN empties + 1 ELSE 5
    /\ row' = TRUE
    /\ commands' = {[k EXCEPT !.onpage = FALSE] : k \in {c \in commands : c.at = "sent"}}
    /\ online' = TRUE
    /\ LoadEnds(notice)
    /\ UNCHANGED <<route, data, asked, errands, dialog, away, events>>

\* 401
SentAway ==
    /\ load.at = "sent" /\ ~session
    /\ away' = TRUE
    /\ LoadEnds(notice)
    /\ UNCHANGED <<route, data, copy, asked, commands, row, errands, online, dialog, events>>

\* A bug: no finally, and loading stays true.
FailsCaught == load' = [load EXCEPT !.at = "stuck"] /\ Says("error") /\ UNCHANGED <<button, refresh, row>>

\* The catch: the page stays as it is.  The buttons of a relay come back with the command
\* that waited for the load.
FailsFinally ==
    /\ LoadEnds(Said(notice, "error"))
    /\ row' = (row \/ \E c \in commands : c.at = "reload" /\ c.onpage)

LoadFails ==
    /\ load.at # "idle" /\ ~away /\ Count
    /\ FailsFinally
    /\ commands' = {c \in commands : c.at = "sent"}
    /\ online' = FALSE
    /\ UNCHANGED <<route, data, copy, asked, errands, dialog, away>>

-----------------------------------------------------------------------------
(* manualRefresh() *)

RefreshClicked ==
    /\ button /\ ~away /\ dialog = "none" /\ Count
    /\ refresh.sent + refresh.reload < 2
    /\ refresh' = [refresh EXCEPT !.sent = @ + 1]
    /\ button' = FALSE
    /\ Says("refreshing")
    /\ UNCHANGED <<route, data, copy, asked, load, commands, row, errands, online, dialog, away>>

\* A load that is in flight is not waited for.
RefreshServed ==
    /\ refresh.sent > 0 /\ session /\ ~away
    /\ IF load.at = "idle"
       THEN refresh' = [sent |-> refresh.sent - 1, reload |-> refresh.reload + 1] /\ StartLoad(notice)
       ELSE /\ refresh' = [refresh EXCEPT !.sent = @ - 1]
            /\ button' = TRUE
            /\ Says("refreshed")
            /\ UNCHANGED load
    /\ UNCHANGED <<route, data, copy, asked, commands, row, errands, online, dialog, away, events>>

RefreshFails ==
    /\ refresh.sent > 0 /\ ~away
    /\ (~session /\ UNCHANGED events) \/ Count
    /\ refresh' = [refresh EXCEPT !.sent = @ - 1]
    /\ button' = TRUE
    /\ Says("error")
    /\ UNCHANGED <<route, data, copy, asked, load, commands, row, errands, online, dialog, away>>

-----------------------------------------------------------------------------
(* controlDoor() *)

Command == [mode : Modes, at : {"sent", "reload"}, onpage : BOOLEAN]

ControlClicked ==
    /\ route = "doors" /\ row /\ ~away /\ dialog = "none" /\ Count
    /\ \E m \in Modes :
           /\ \A c \in commands : c.mode # m
           /\ commands' = commands \cup {[mode |-> m, at |-> "sent", onpage |-> TRUE]}
    /\ row' = FALSE
    /\ UNCHANGED <<route, data, copy, asked, load, refresh, button, errands, messages, away>>

\* The finally of controlDoor: the buttons of the row it was clicked in.
LeavesRow(k) == row' = (row \/ k.onpage)

ControlServed ==
    /\ session /\ ~away
    /\ \E k \in {c \in commands : c.at = "sent"} :
           /\ server' = [server EXCEPT !.mode = k.mode]
           /\ IF load.at = "idle"
              THEN commands' = (commands \ {k}) \cup {[k EXCEPT !.at = "reload"]} /\ UNCHANGED row
              ELSE commands' = commands \ {k} /\ LeavesRow(k)
    /\ StartLoad(Said(notice, "accepted"))
    /\ UNCHANGED <<route, session, copy, asked, refresh, errands, online, dialog, away, events>>

ControlFails ==
    /\ ~away
    /\ (~session /\ UNCHANGED events) \/ Count
    /\ \E k \in {c \in commands : c.at = "sent"} : commands' = commands \ {k} /\ LeavesRow(k)
    /\ Says("error")
    /\ UNCHANGED <<route, data, copy, asked, load, refresh, button, errands, online, dialog, away>>

-----------------------------------------------------------------------------
(* The requests that change nothing of the page but its message, and the dialogs that show  *)
(* the message too.                                                                         *)

still == <<route, data, copy, asked, load, refresh, button, commands, row, online, away>>

\* setControllerTime(), of the dialog of a controller: its button is disabled meanwhile.
SetControllerTime ==
    /\ dialog = "controller" /\ ~away /\ Count
    /\ "time" \notin errands
    /\ errands' = errands \cup {"time"}
    /\ UNCHANGED <<still, notice, dialog>>

ExportCredentials ==
    /\ route = "cards" /\ shown.loaded /\ ~away /\ Count
    /\ errands' = errands \cup {"export"}
    /\ UNCHANGED <<still, notice, dialog>>

ErrandServed ==
    /\ session /\ ~away
    /\ \E e \in errands \ {"signout"} : errands' = errands \ {e} /\ Says(e)
    /\ UNCHANGED <<still, dialog, events>>

ErrandFails ==
    /\ ~away
    /\ (~session /\ UNCHANGED events) \/ Count
    /\ \E e \in errands \ {"signout"} : errands' = errands \ {e}
    /\ Says("error")
    /\ UNCHANGED <<still, dialog>>

\* openHelp(), editController()
OpenDialog ==
    /\ dialog = "none" /\ ~away /\ Count
    /\ dialog' \in {"help"} \cup (IF route = "controllers" /\ shown.loaded THEN {"controller"} ELSE {})
    /\ UNCHANGED <<still, errands, notice>>

\* The message is removed with the dialog.
CloseDialog ==
    /\ dialog # "none" /\ ~away
    /\ dialog' = "none"
    /\ notice' = [notice EXCEPT !.dialog = Blank]
    /\ UNCHANGED <<still, errands, events>>

-----------------------------------------------------------------------------
(* The page is left. *)

\* returnToGateControl(): for the address that is configured, once it has a scheme, else for the
\* page of another site that the browser came from, else one back in its history.
ReturnToGateControl ==
    /\ ~away /\ dialog = "none" /\ Count
    /\ \E address \in {Blank, "valid", "invalid"}, cameFrom \in BOOLEAN :
           IF address = "valid" \/ (address = Blank /\ cameFrom)
           THEN away' = TRUE /\ UNCHANGED notice
           ELSE Says("error") /\ UNCHANGED away
    /\ UNCHANGED <<route, data, copy, asked, load, calls, online, dialog>>

SignOutClicked ==
    /\ ~away /\ dialog = "none" /\ Count
    /\ errands' = errands \cup {"signout"}
    /\ UNCHANGED <<still, notice, dialog>>

\* The page is left for the login page whatever the answer says.
SignedOut ==
    /\ "signout" \in errands /\ ~away
    /\ errands' = errands \ {"signout"}
    /\ session' = FALSE /\ away' = TRUE
    /\ UNCHANGED <<route, server, copy, asked, load, refresh, button, commands, row, messages, events>>

\* Nothing is caught: the page stays, and says nothing.
SignOutFails ==
    /\ "signout" \in errands /\ ~away /\ Count
    /\ errands' = errands \ {"signout"}
    /\ UNCHANGED <<still, notice, dialog>>

-----------------------------------------------------------------------------
(* What is typed into a search, or picked in the filter, is shown at once. *)

Shows(word, kind) ==
    /\ shown.loaded /\ ~away /\ dialog = "none" /\ Count
    /\ <<word, kind>> # asked
    /\ search' = word /\ filter' = kind
    /\ shown' = [shown EXCEPT !.content = Filtered(view, word, kind)]
    /\ UNCHANGED <<route, data, view, retries, timer, empties, load, calls, messages, away>>

FilterCredentials == route = "cards" /\ \E word \in Words \cup {Blank} : Shows(word, Blank)

FilterGroups == route = "groups" /\ \E word \in Words \cup {Blank} : Shows(word, Blank)

\* refreshEventRows, of either listener
RefreshEventRows ==
    /\ route = "events"
    /\ (\E word \in Words \cup {Blank} : Shows(word, filter)) \/ (\E kind \in Kinds \cup {Blank} : Shows(search, kind))

\* Another client edits, or the session ends.
Elsewhere ==
    /\ Count
    /\ \/ /\ route \in {"overview", "cards", "events"}
          /\ \E cs \in CardSets : server' = [server EXCEPT !.cards = cs]
          /\ UNCHANGED session
       \/ /\ route \in {"controllers", "groups", "logs", "users"}
          /\ \E is \in SUBSET Items : server' = [server EXCEPT !.items = is]
          /\ UNCHANGED session
       \/ session /\ session' = FALSE /\ UNCHANGED server
    /\ UNCHANGED <<route, copy, asked, load, calls, messages, away>>

-----------------------------------------------------------------------------
\* The page is opened: load() runs at once, with nothing in the copy.
Init ==
    /\ route \in Routes
    /\ server \in [cards : CardSets, items : {Items}, mode : Modes]
    /\ session = TRUE
    /\ view = Loaded.data
    /\ shown = [loaded |-> FALSE, content |-> {}, counts |-> {}]
    /\ search = Blank /\ filter = Blank
    /\ load = [Loaded EXCEPT !.at = "sent"] /\ button = FALSE
    /\ retries = 0 /\ timer = FALSE
    /\ refresh = [sent |-> 0, reload |-> 0]
    /\ commands = {} /\ row = TRUE /\ errands = {}
    /\ notice = [page |-> Blank, dialog |-> Blank] /\ online = TRUE /\ dialog = "none"
    /\ away = FALSE
    /\ events = 0 /\ empties = 0

Next ==
    \/ Poll \/ TimerFires \/ Served \/ Arrives \/ SentAway \/ LoadFails
    \/ RefreshClicked \/ RefreshServed \/ RefreshFails
    \/ ControlClicked \/ ControlServed \/ ControlFails
    \/ SetControllerTime \/ ExportCredentials \/ ErrandServed \/ ErrandFails
    \/ OpenDialog \/ CloseDialog
    \/ ReturnToGateControl \/ SignOutClicked \/ SignedOut \/ SignOutFails
    \/ FilterCredentials \/ FilterGroups \/ RefreshEventRows \/ Elsewhere

Spec == Init /\ [][Next]_vars

\* The timer of setInterval and the answers to the requests come.
FairSpec == Spec /\ WF_vars(Poll) /\ WF_vars(Served) /\ WF_vars(Arrives) /\ WF_vars(SentAway)

-----------------------------------------------------------------------------
Errands == {"time", "export", "signout"}
Messages == {Blank, "refreshing", "refreshed", "accepted", "time", "export", "error"}

TypeOK ==
    /\ route \in Routes
    /\ server.cards \in CardSets /\ server.items \subseteq Items /\ server.mode \in Modes
    /\ view.cards \in CardSets \cup {NoCards} /\ view.mode \in Modes \cup {Blank}
    /\ retries \in 0..4 /\ timer \in BOOLEAN
    /\ refresh \in [sent : 0..2, reload : 0..2]
    /\ commands \subseteq Command
    /\ errands \subseteq Errands
    /\ notice \in [page : Messages, dialog : Messages]
    /\ dialog \in {"none", "help", "controller"} /\ (dialog = "none" => notice.dialog = Blank)
    /\ {button, row, away, session, online} \subseteq BOOLEAN

\* What the page shows is what the copy and the search box say, whichever came last: a poll
\* does not undo the search of the credentials or of the access levels.
PageFollowsSearch ==
    route # "events" /\ shown.loaded =>
        shown.content = Filtered(view, search, filter) /\ shown.counts = Counts(view)

\* A credentials page that has credentials shows none only once the server listed some that
\* were all deleted, or listed none five times in a row.
EmptiedOnlyAfterFive ==
    [][route = "cards" /\ Live(view) # {} /\ Live(view') = {} =>
           DOMAIN view'.cards # {} \/ empties' = 5]_vars

\* The buttons that a handler disables come back when nothing is in flight, and the page says
\* that it is refreshing for no longer.
ButtonsReturn ==
    /\ notice.page = "refreshing" => refresh.sent > 0
    /\ load.at = "idle" /\ refresh.sent = 0 => button
    /\ commands = {} => row

=============================================================================
