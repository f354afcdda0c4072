# uhppoted-httpd: models and proofs

uhppoted-httpd is the browser front end of an access control system built on UHPPOTE
controllers. An administrator edits doors, access levels ("groups"), credentials
("cards"), controllers and accounts; the server keeps them in memory and in JSON files,
writes card permissions to the controllers over UDP, retrieves the controllers' events,
and compares in the background what the controllers hold with what they should hold. The
browser side is as much of a program as the server: pages that are edited in place while
a timer refreshes them, and dialogs whose buttons start chains of requests.

This directory has TLA+ models of both sides, the TLC instances that check them, and
TLAPS proofs. It describes the code as it is: where the code and one of its own comments
or documents disagree, a run shows it (see *Findings*).

    tlc -workers 2 -config AclSync_monitor.cfg MCAclSync     (any row of the table of runs)
    tlapm StoreProofs.tla                                  (any module of proofs)

## 1. The system

### Components

| component | code | state it keeps | operations | models |
|---|---|---|---|---|
| credentials and access levels | `system/cards`, `system/groups`, `system/acl.go`, `system/db/impl.go` | `sys.cards`, `sys.groups`: maps by OID; `dbc`: what to push on commit | create, set, delete, validate, save, sweep, push, compare, `Found`, `MarkIncorrect`, synchronize | `AclSync` |
| event log | `system/events`, `system/interfaces` | events by controller and index, the cache of indices; the LAN and its events channel | `Missing`, retrieval, `Received`, save, load | `EventLog` |
| files, OIDs, backups | `system/{backups,controller_import,system}.go`, `system/catalog` | the JSON files, the archives, a table of OIDs per kind | edit, save, sweep, import, backup, restore, restart | `Store` |
| accounts | `system/users`, `httpd/users`, the accounts page of `gate-control.js` | users by OID, roles, passwords | create, save, delete from several consoles; change of one's own password | `Accounts`, `Password` |
| sessions and one-time passwords | `auth/impl/local.go`, `auth/otp`, `setup.js`, `login.js`, `uhppoted.js`, `password.js` | signing keys, sessions, logins, secrets; cookies | set up, sign in, poll, rotate, sweep, sign out; show, verify, revoke | `SignIn`, `OneTime` |
| console | `httpd/html/javascript/gate-control.js` | the copy of the snapshot, one dialog of each kind, handlers in flight | load, retry, search, command doors, edit doors, relays, credentials, levels; import and back up | `Page`, `DoorEditor`, `CardEditor`, `LevelForm`, `CredentialForm`, `Maintenance` |
| table pages | `tabular.js`, `db.js`, `cache.js`, `schema.js` and the module of each page | DB, rows, fields and their marks, focus | get, edit, commit, roll back, refresh, page | `Table`, `Pages`, `Marks`, `Objects`, `CardDates`, `Combobox`, `Feed` |
| connection of a page | `uhppoted.js` | the time without an answer, the idle timer, the windmill | poll, go offline, sign out | `Connection` |
| controllers, door control | `system/controllers`, `system/doors`, `system/door_control.go` | cached status, deferred updates of doors | set, sweep, refresh, synchronize doors | in part, in `DoorEditor` |
| authorization, history, logs, task queue, start, HTTP | `auth`, `system/{history,logs,tasks}`, `commands`, `httpd` | rules, append-only records, 32 tasks | | not, see 6 |

### How they interact

- **A request** (`UpdateCards`, `UpdateGroups`, ...) takes `sys.Lock`, clones one list, edits
  the clone field by field (`set`), validates it, writes the file, and on `dbc.Commit`
  swaps the clone in and starts one goroutine per controller and affected card number.
  The catalogue and the *live* list are not the clone: `set` and `delete` change the
  catalogue at once.
- **A push** (`updateCardPermissions` in such a goroutine) reads the live records, works out
  the entry for one controller, waits for that controller's lock and writes the entry
  once. Errors are logged and nothing is retried.
- **The worker** (the task queue, fed by the ticker, and the Refresh handler beside it)
  sweeps deleted records, retrieves events, compares the controllers with the records
  (`Found`, `MarkIncorrect`) and, when configured to, synchronizes. It does not take
  `sys.Lock` for any of that.
- **Event retrieval** starts a goroutine per controller that hands what it retrieved over an
  unbuffered channel to one consumer, which appends to the log and saves it.
- **Backups** copy the files under `sys.RLock`; a restore writes them under `sys.Lock` and the
  handler ends the process 750 ms later; an import edits two lists under one lock.
- **The dispatcher** answers 'timeout' after a while and lets the worker go on: a page may be
  told that something failed that then succeeds.
- **A page** keeps a copy of what it was last told. Answers overtake each other, requests are
  lost, other clients edit. A table page commits and refreshes field by field; a handler
  of the console sends up to four requests and reads the dialog and the copy again between them.
- **External**: `acl.Compare`/`acl.GetACL` of uhppoted-lib, the UDP driver, the rules engine,
  JWT, the browser. They are modelled only by how this code uses them.

### What is hard in it

Concurrency without a common lock (edits, pushes, the worker, the retrieval goroutines,
sweeps); results that are used after the state they were read from has changed (`Found`'s
list of removals, a batch of events, the entry a push worked out, a dialog under which the
copy is loaded again); messages that are lost and never retried, or overtaken; requests that
fail half way with side effects that are not rolled back; a crash between the write of a
file and the swap in memory; OIDs that are reused after a restart; keys that rotate and
secrets that expire under a page that is open; limits. `PROJECT.json` lists each at its line under
`hazards`, with the properties that watch over it.

### What makes each part correct

| part | correct means | stated as |
|---|---|---|
| credentials | one configured credential per card number; every change of what a controller should hold is pushed | `UniqueConfigured`, `EditsReachControllers` |
| comparison | the list flags exactly the credentials a controller disagrees about; foreign cards come back to the list and leave it with the controllers (that they stay in it is a finding) | `DivergenceFlagged`, `FoundCardsFollow` |
| synchronization | every controller ends up with what it should hold | `Converges` |
| event log | no event lost, replaced or forgotten; gaps get filled | `SavedEventsKept`, `BlanksAreGone`, `EventsRetrieved` |
| files | a restart brings back what was acknowledged; a backup is a consistent cut | `SavedAsAcknowledged`, `BackupIsACut` |
| OIDs | a reference never comes to mean another record | `ReferencesKeepTheirTarget` |
| accounts | an administrator is always left; a message says what became of a password | `AdministratorIsLeft`, `ChangesAsSaid` |
| sessions | a session in use survives the rotation of keys; page and server mean the same secret | `StaysSignedIn`, `SecretsAgree` |
| dialogs | what is reported as done is what was shown at the click; no door is without a row; one person's credentials stay together; the fields of a form agree | `DoorsAsSubmitted`, `CardsAsSubmitted`, `SavedIsShown`, `EveryDoorHasARow`, `NumberAgrees`, `DatesInOrder` |
| import | what is applied is what was chosen | `ImportAsChosen` |
| page of the console | it ends up showing what the server has; a list that is empty for a moment stays; offline only without answers | `ConsoleConverges`, `PageFollowsSearch`, `EmptiedOnlyAfterFive`, `PageEnds`, `WindmillStops` |
| table pages | only the user changes a draft; a field without a mark shows what was told; fields, rows and columns agree with the server in the end | `DraftsAreKept`, `UnmarkedIsStored`, `FieldsAgree`, `PagesAgree`, `TablesConverge`, `FeedIsComplete` |
| controllers, door control | the sweep removes what is deleted; what was last set is what the controller is given | planned |

## 2. The modules

Each module models one component over the part of the state that it works with. The
modules of the browser are checked in four compositions: a variable `at` says which of them
is in use in a behaviour, and the others stay as they start. (They share no state in the
code but the snapshot and the lists of the server, of which each module has its own part.)

| composition | components | proofs |
|---|---|---|
| `MCAclSync` | `AclSync` | `AclSyncProofs` |
| `MCEventLog` | `EventLog` | `EventLogProofs` |
| `MCStore` | `Store` | `StoreProofs` |
| `MCDialogs` | `CredentialForm`, `DoorEditor`, `CardEditor`, `LevelForm` | `DialogsProofs` |
| `MCConsole` | `Page`, `Connection` | `ConsoleProofs` |
| `MCTables` | `Table` (with `Drafts`), `Pages`, `Marks`, `Objects` (with `Schema`), `CardDates`, `Combobox` | `TableProofs`, `ListProofs` |
| `MCAdmin` | `Accounts`, `SignIn`, `OneTime`, `Password`, `Maintenance`, `Feed` | `AdminProofs`, `ListProofs` |

`Lists` has what `Pages` and `Feed` both do with a list (`trim()` and the filters of
`tabular.js`), written as a recursive function so that it can be proved about.

`Drafts` is an abstract specification: what a table page promises to somebody who types while
the page is refreshed. `Table` implements it under the refinement mapping at its end
(`DraftsAreKept`, a property of the run `tables` and a theorem).

A mutated form of an operator (a plausible slip: a dropped guard, a swapped order, a
missing reset) stands beside each operator whose details a property depends on; its comment
starts with "Mutant" or "A bug:". It is not used by the specification. Replacing the
operator's body by it must make TLC report the property.

### AclSync

| variable | code |
|---|---|
| `cards`, `groups` | `sys.cards`, `sys.groups`; `state` = "expired" is a deleted record past its retention |
| `catalog` | the catalogue's table of levels |
| `device` | each controller's card table (external) |
| `tx`, `shadow`, `draft` | the holder of `sys.Lock` and its clones |
| `updated`, `touched` | `dbc.Updated`: card numbers and levels to push on commit |
| `queued`, `ready` | goroutines of `updateCardPermissions`: before the lookup, and waiting for the controller |
| `worker` | where each worker is in sweep, `compareACL`, `synchronize`, and what it has in hand |

Actions: `BeginCards` .. `CommitGroups`, `Refuse` (requests); `PushLookup`, `PushWrite`,
`PushFail` (goroutines); `Sweep`, `ReadAcl`, `CompareDiff`, `FoundScan`, `FoundApply`,
`MarkIncorrect`, `SyncCheck`, `SyncProfiles`, `SyncDiff`, `SyncNext`, `SyncSend`, `SyncDone`
(workers); `ExpireCard`, `ExpireLevel`, `ForeignWrite` (the world).

What is abstracted:

- a lookup of a card and the resolution of its levels are one step (the code does not lock
  over both, see the hazard at `acl.go:149`); one `SetCard` is all the `set` calls of a
  request on one record; names, PINs, first-card flags and formats are left out;
- a validity period is one number (both dates), 0 for none; `DefaultPeriod` is the configured
  default; rules decide by the card number only (`RuleAllows`, `RuleForbids`);
- `acl.Compare` is taken to key by card number, with *added* = on the controller only and
  *deleted* = desired only: `acl.go:90-100` and rule 1 of `Cards.Found` pin the direction
  down. `RowKeepsNumber` covers both readings of what an *updated* row carries. A controller
  that does not answer is left out or taken to hold nothing, and costs a fault;
- a record slot (`OIDs`) is used again only when no record, live or cloned, has it; what
  `Found` cannot fit into the slots is dropped, which is why `FoundCardsFollow` exempts
  a full model (`Room = {}`). It says that a card held by a controller comes back to the list
  for ever and that one held by none goes for good. That a held card *stays* in the list, as the
  comment of `Cards.Found` has it, is not so: `FoundStaysListed`, a finding;
- the run-time error of a concurrent map iteration and write, which would end the process,
  is not a behaviour of the model; time profile tables on the controllers are not modelled;
- `Restores` exempts one thing from `EditsReachControllers`: a commit of levels whose clone
  brings back a level that a sweep removed meanwhile grants access again without a push.

### EventLog

| variable | code |
|---|---|
| `last` | the newest event index on each controller; with `Capacity` it gives the oldest |
| `log`, `file` | `sys.events`, `events.json` |
| `cached`, `dirty` | the index cache of `Events.Missing` |
| `attached` | has the configured LAN the events channel? |
| `refresh`, `fetch` | what each refresh and each of its goroutines is doing |
| `inbox`, `saving` | the consumer's batch, and that it is about to save |

A batch is answered per index: the event, nothing if the controller has overwritten it
(stored as a *blank* placeholder), or an error, which costs a fault. `Top` stands for
MaxUint32. Sizes are parameters: `MaxBatch` is 100 in the code and 1 in the instances,
`MaxGaps` is 2 in both. Which names the events get, paging and the status display are not
modelled. `EventsRetrieved` exempts two situations: a LAN without its channel (a finding),
and at least `MaxGaps` gaps that can never be filled.

### Store

| variable | code |
|---|---|
| `live`, `files` | the lists in memory and `doors.json`, `groups.json`, `cards.json` |
| `entries`, `last` | the catalogue's tables: known OIDs, TRUE unless deleted; the last OID handed out |
| `holder`, `editing`, `shadow`, `done` | the holder of `sys.Lock`, its lists, its copies, the files it has written |
| `job`, `archives` | the backup being copied and what it is for; the backups there are |
| `exiting` | a restore has scheduled the end of the process |
| `adrift`, `undone`, `unsaved`, `born` | ghosts: see below |

`born` numbers the records created, and a reference carries the number of the record that
was meant, so that "the same OID" and "the same record" can be told apart. The other ghosts
record exactly when a guarantee lapses: `adrift`, the OIDs that loaded records already meant
something else by; `undone`, the OIDs that a refused request deleted from the catalogue only;
`unsaved`, the files written by an import that then failed or by a restore, until they are
saved again or loaded.

What is abstracted: a record is whether it is complete, whether it is deleted, and what it
refers to. Controllers, interfaces and users are saved in the same way and are left out;
so are the permanent levels (OIDs 254, 255), the credentials CSV and the records of `Found`.
`os.Rename` is atomic and the files exist. An uploaded backup or one made by hand is an
archive. Backups, restores and imports come one at a time up to the point where they take
their lock. What an import adds is any level or credential, since its preview decides that
from data outside the model.

### The dialogs

`DoorEditor`: the server's `door`, `fields`, `slot` (which door is on which relay channel)
and `behind` (what the controllers have not been told of); the browser's `view` (DB) and
`load`; `doorForm`, `panel` (the two dialogs), `save`, `erase`, `setup` (the handlers of their
buttons), `buttons`, `notice`. A handler is a chain of requests: create, update, assign,
synchronize. Each request is served and answered in one step; what the chain sends
next is taken from the dialog *as it is then*, as the code does after each `await`. The user may go on
typing in a dialog that is being saved. The ghost `wanted` has every value that the dialog showed
between the click and the request that carries it: each name or delay until the update is sent, each
relay until the assignments are. `DoorsAsSubmitted` says that what is reported as saved is one of
them, whole, and on the one relay shown or on none. `raced` ends that promise: another client or another handler
changed the doors meanwhile, or the dialog was left and one was opened again while its handler was
on its way, which then reads the new one.

`CardEditor`: the server's `cards`, `held`, `groups` and `rules` (which credentials and levels
there are, and what each holds) and `told` (have the controllers got the rules that follow); the
browser's `cardsView` and `cardsLoad`; `dialog` (those that are open), `cardForm` and `sheet` (what
they show), and `job`, the one handler in flight. A credential is saved under the OID that its number has
at that moment (`Found`): what was only found on a controller loses its OID when the next comparison drops
it and finds it again (`Rediscovered`). `job.want` is what the dialog showed at the click;
`job.raced` says that somebody came between. A comparison in between does not (`SameRecords`). A
copy that is replaced by an *older* one does (`OlderLoad`): a handler then works out the relays from
levels that are no longer there, and what it reports as saved need not be. That is the
hazard at `gate-control.js:1561`. `CardsAsSubmitted` also says that the credentials of one person stay in
one management group.

`LevelForm`: `level` (server), `listed` (DB), `form`, `saving`, and the ghost `reported`: what
a level's schedule and relays become on the way from the dialog to the server and back, with
the built-in weekend profiles. `CredentialForm`: the fields `number`, `facility`, `card`,
`from`, `to`, `automatic` and the listeners that fill in one from another; dates are numbers
that sort as their text does.

### The pages of the console

`Page`: `view`, `shown` (what `render` made of it), `search`, `filter`, `load`, `retries`,
`timer`, the refreshes, door commands and other requests in flight, `notice`, `dialog`, `away`.
The actions are the timers, the answers and the clicks, the way back to the gate control page and signing
out among them. `Connection`: `page`, `disconnected`,
`idle`, `windmill`, `message` and the requests in flight, with `silent`, the real time
without an answer, as a ghost. `Maintenance`: the dialogs of an import and of the backups, with
the preview (`list`), the choices (`choice`), what is being applied and which listings of
backups are on their way.

### Accounts and sessions

`Accounts`: `account` (sys.users), and for each console its `copy`, `dialog`, `saving` and
`erasing`; the server's rules refuse what would leave no administrator. A session is of a user ID, and the
server looks that up among deleted accounts too (`WithUid`), in an order that a Go map does not fix. What
`AdministratorIsLeft` says is therefore what `UpdateUsers` sees to: some live account is an administrator,
has a user ID and a password and shares the first with no other live one. It does not say that this one can
sign in at once. An administrator who takes over the user ID of a deleted account may be refused until the sweep
drops that account, days later (the hazard at `users.go:288`), and the sweep is not modelled. `Password`: the
attempts, each verified before the lock and stored under it, and what the page was told.
`SignIn`: `touched` (the idle time of each session), `rotation` and the key that each cookie
was signed with, `tabs` and `calls`; time comes in units of five minutes. `OneTime`: the controls
of the page, `secrets` (handed out, with the time they last), `stored` and the requests in
flight. Two ghosts say when page and server may differ: `overtook`, the page was used while it waited
for an answer; `unheard`, the page has not been told what was last done with the stored secret. The
second comes of what the code handles as an error: `GiveUp` is a request answered 'timeout', or a lost
connection, on which the server works on (it may still store or revoke), and `AnswerLost` is a request
that was served and whose answer never arrives. Neither sets `overtook`.

### The table pages

`Table`: `server`, `db` and `row` for each record, `focus`, the gets and posts in flight; a row has
one field, with its original, its value, what it shows and its marks. (`controllers.js:237-239` sets the
original of the address, the time and the anti-passback of a controller once more after `update()`; that
second write is not modelled, and `UnmarkedIsStored` is not claimed of these three.) `Pages`: two kinds of
records that refer to each other, with the rows and columns made from them. `Marks`: how the
marks of fields become those of rows and controls. `Objects` and `Schema`: how a record becomes
a list of OIDs and values and a record again. `CardDates`: a field that shows a default.
`Combobox`: the flags with which keyboard, mouse and timers open and close a list. `Feed`:
lists that grow while they are paged. Every event in it has a time: the filter of those without one
(`events.js:11`) is left out.

## 3. The runs

| run | question | distinct states |
|---|---|---|
| `acl_monitor` | two requests among pushes, lost and reordered ones too, and a worker that compares; a foreign card: unique numbers, every change pushed, flags end up right, the foreign card comes back to the list | 380,285 |
| `acl_sync` | 'synchronize' mode, two controllers, one may not answer, two levels that may conflict over a door's schedule, foreign cards: every controller ends up right | 382,165 |
| `events_retrieve` | two overlapping refreshes, a fault, a restart, an edit of the LAN | 531,582 |
| `store_saved` | requests, imports, backups, restores, sweeps, a restart at any step | 764,101 |
| `dialogs` | doors, credentials and levels: saves of several requests, polls under an open dialog, lost answers, other clients | 772,875 |
| `console` | a page with overlapping loads, lost answers, a search typed meanwhile, the way back from other pages, signing out; going offline and idle | 181,924 |
| `tables` | fields edited while answers overtake each other, requests fail and others edit; rows, columns, marks, dates, lists | 306,711 |
| `admin` | two administrators, sessions with rotating keys, one-time secrets, passwords behind 'timeout', an import, growing lists | 1,551,103 |
| `acl_found` | *violation*: a card that a controller holds and nobody touches drops out of the list at every other comparison | |
| `acl_reissue` | *violation*: a synchronization revokes a reissued number | |
| `events_lan` | *violation*: after an edit of the LAN what is retrieved is dropped | |
| `store_oids` | *violation*: a new level inherits the members of a deleted one | |

Each passing run explores its state space completely.

**Bounds.** Every bound is a constant, in a guard (`Max...`). They are small and chosen so
that the hazards happen:

- `acl_*`: two requests and one card number give two pushes to the same place in either order,
  a number that moves between two records, a delete and a reissue, and a request overlapping a
  worker that has scanned and not yet applied. A request edits one record; requests that edit several
  are in `acl_reissue`, and the proofs of `UniqueConfigured` and `EditsReachControllers` are for any
  number. Card numbers do not interact except through
  `Cards.Validate`, which is about equality of two. One fault is enough for a lost push or a
  controller that drops out of one comparison; two controllers are in `acl_sync` because a
  comparison may then be partial;
- `events_retrieve`: four events on a controller that holds three, with a batch of one from
  either end, give gaps, overwritten events and placeholders;
- `store_saved`: one level with one member, two OIDs of each kind, two requests, one job and
  one restart give a delete and a reuse of its OID before and after the restart, a request that
  fails between its two saves, and an edit on either side of a backup or a restore. The run
  has levels and credentials; doors relate to levels as levels do to credentials, and the
  proofs are for all three kinds;
- `dialogs`: two doors and two channels, of which one is taken, are enough for a swap, a move
  and a channel that is taken meanwhile; two events (a change in the dialog, another client,
  a lost request) put one on either side of any step. Two credentials of one person and a
  found one, two levels and that of no access, three names for them; the numbers and dates of `CredentialForm` are its boundaries (0, 255
  and 256, 99999 and 100000, the largest facility code, 29 February);
- `console`: three credentials, five refreshes (the retries give up after the fifth), two
  overlapping loads; two outages and two clicks for the windmill;
- `tables`: one record with two gets and two posts in flight, so that each may overtake the
  other; two kinds of two records in `Pages`; seven keys or clicks in `Combobox`;
- `admin`: two administrators and a third account, two requests of one tab, two secrets that
  overtake each other, two attempts of a password, two controllers with two credentials.

Where there is a proof, the bounds are arbitrary natural numbers.

**Symmetry** is not used: most runs check liveness, for which it is unsound.

**Deadlock** is checked in the server's runs. In `Store` the disjunct `Idle` says that nothing more
is asked of the program once the bounds are used up. The four runs of the browser say
`CHECK_DEADLOCK FALSE`: a page may be left, a dialog closed, and with the bounds used up
nothing need happen.

**Fairness.** In `AclSync`: a request ends (`Finish`: the handlers return on every path), a
goroutine gets to run and the exchange with a controller ends (`Lookups`, `Writes`), each
worker goes on (`Work(w)`: a ticker feeds the task queue), and retention periods run out
(`Expiry`). Starting a request and foreign writes have none. In `EventLog`: refreshes and
their goroutines run and the consumer consumes (weak fairness); `Send` has strong fairness, since senders
blocked on a Go channel are served in turn. Recording events, edits of the LAN and restarts
have none. In the pages: `setInterval` polls, requests are served and their answers arrive
(`Page`, `Pages`, `Table`, `Marks`), time passes and the idle timer fires, and a request in flight is
answered or lost (`Connection`), the sweeps of server and DB run (`Pages`). Each is weak fairness of one
action while its component is in use. What the user and other clients do has none. Faults are
bounded, which says that the network works in the end, and no property is claimed of
a network that never does. `Store`, the dialogs and the components of `MCAdmin` but `Feed`,
whose property needs none either, state no fairness and no liveness.

## 4. Findings

Each is a violation run. `PROJECT.json` quotes the line of the code, comment or document.

| run | finding |
|---|---|
| `acl_found` | a found card "is marked 'unconfigured' until manually edited" and goes when it is deleted from the controllers, but the comparison that finds it in the list reports it as *updated* (`acl.go:374` gave it a blank row), and `Found` drops what is not reported as found: listed, dropped, listed, for ever |
| `acl_reissue` | `Cards.Lookup` may return the deleted record of a reissued number: an explicit synchronization then revokes the card it "must" write |
| `events_lan` | `LAN.Clone` drops the events channel: after an edit of the LAN no events are stored until a restart |
| `store_oids` | OIDs "uniquely identify" an item, but after a restart the OID of a deleted level is handed out again while `cards.json` still refers to it |

## 5. What is proved

All theorems are for arbitrary constants that satisfy the named assumptions of the modules
(`...Assumption`, `FormConstants`): any number of records, levels, controllers, workers,
requests in flight, any initial files, any bounds. TLC evaluates the assumptions on every run.
Where a theorem states a property of a run, its name is given in brackets. Each argument is an
inductive invariant, which TLC checked on an instance before it was proved.

**AclSyncProofs.** `TypeCorrect` (`[]TypeOK`, by `TypeInv`, which adds that a request in
progress has been counted). `NumbersStayUnique` (`[]UniqueConfigured`): inductive
together with `TypeInv`. A clone may be out of date when it is swapped in, but it is validated
as a whole (`Valid(shadow)`), and what the workers and the retention do to the live list in
between configures nothing (`NothingConfigured`). `CommitsReachControllers` (`EditsReachControllers`):
the invariant `PushInv` says that the clone has the same configured records as the live list
for every number that was not collected, whatever the workers did to the live list since
(`CloneAgrees`); that during an edit no worker is about to remove a configured record
(`RemovalsUnconfigured`, which rests on the guard of the list); that a level without a record
grants nothing (`AbsentLevelsEmpty`); and that only touched levels differ in the clone of an edit
of levels (`DraftAgrees`).
A commit then changes what is intended only for numbers that are pushed.

**EventLogProofs.** `TypeCorrect`. `PlaceholdersAreGone` (`[]BlanksAreGone`): `BlankInv`
follows a placeholder from the goroutine that makes it, over the channel and into the log,
to the file; the oldest index on a controller only grows (`FirstGrows`). `SavedStaysSaved`
(`SavedEventsKept`): the file is behind the log, never beside it (`FileBehind`).

**StoreProofs.** `TypeCorrect`. `BackupsAreCuts` (`BackupIsACut`): while a backup is being
copied nobody writes (in `TypeOK`), hence the part already copied is what the files still
have (`CopiedStays`). `FilesFollow` (`[]SavedAsAcknowledged`), by the invariant `Inv`:
files, backups and copied parts have only complete, undeleted records (`Tidy`); the
catalogue knows every record of the list or the copy in hand that is not deleted, except the
`undone` ones, so saving drops no sound reference (`Catalogue`); a copy has every record of
its list with the same identity, and nobody refers to what is only in the copy (`Copies`);
an import saves levels before credentials (`Ordered`). `OIDsAreNotReused`
(`[]ReferencesKeepTheirTarget`): `Targets` says that the catalogue knows every OID a record
has or refers to, unless it was adrift when it was loaded, and `NewOIDIsUnknown` that
`table.New` hands out only OIDs the table does not know (the least one exists by the
well-foundedness of the naturals, `LeastNatural`).

**DialogsProofs.** *Form*: `FormTypeOK`, `FormNumberAgrees` (`NumberAgrees`),
`FormDatesInOrder` (`DatesInOrder`); each needs the others, since a listener works on what the
other fields hold (`FormInv`). *Levels*: `LevelIsTyped`, `TheLevelIsShownAsSaved` (`SavedIsShown`), by
`LevelInv`: a level being edited is there, an answer carries what was stored for it, and what
is reported is what the answer carried. *Doors*: `DoorsAreTyped`, `TheRelaysPageIsComplete`
(`[]EveryDoorHasARow`) and `DoorsAreAsSubmitted` (`DoorsAsSubmitted`), by `DoorsOK`. Some of it always
holds: the server, both copies of it and the dialogs are well formed, each handler is where its
chain of requests can be, a copy is never newer than the server. The rest (`Undisturbed`)
lapses once somebody comes between (`raced`): at most one handler waits, the dialogs
show what the browser has or what was typed since, and each handler knows how far the server is with what its
dialog has shown since the click, the typing after it included (`SaveOK`, `EraseOK`, `SetupOK`). *Credentials and levels*: `CardsAreTyped` and
`CardsAreAsSubmitted` (`CardsAsSubmitted`), by `CardsOK`, which has the same two parts: the records, the copies and the
forms are well formed, and what is listed has a name or a number (`RecordsOK`, `ViewsOK`, `FormsOK`); each handler is
where its chain of requests can be and carries what the browser had when it was asked (`JobIn`); and
until somebody comes between, what was stored so far together with what will still be sent makes of the records what
the dialog showed (`GoalOK`), and the credentials of one person that were in one group stay in one. Each of
the nine kinds of handlers has a lemma for each of its requests. `DialogsAreTyped` (`[]DialogsTypeOK`): a step of the
composition is one of its component's, and the others keep their variables.

**ListProofs.** What the pages need of lists: what `Among` leaves of one, what putting one behind another,
inserting, removing and cutting do (`AmongKeeps`, `BehindKeeps`, `InsertAtIs`, `RemoveAtIs`, `SliceIs`); that
a list has no more elements than it has different ones (`Fits`, `AsLong`); when two lists are in one
order (`InOrderOf`, `AscendingToo`); what becomes of headings that are trimmed and added to (`CompletedInOrder`)
and of options that are compared with the doors one by one (`ComparesAll`). The inductions among
them are arguments about the least number for which a recursive function fails
(`LeastNumber`), which needs no theorem with an operator as its parameter.

**AdminProofs.** *Accounts*: `AccountsAreTyped`, `AnAdministratorRemains`
(`[]AdministratorIsLeft`): among the live accounts, that is; it does not settle who is found under a user ID
that a deleted account has too. *Passwords*: `PasswordIsTyped`, `ChangesAreAsSaid` (`ChangesAsSaid`), by
`PasswordInv`: while a change has not been made, the password of now is among those there
were since it was asked for; a change that is made gave one of those as the old one, and if
nothing came between, its new one is the password of now;
an answer says 'changed' only of a change that was made. *Import and backups*:
`MaintenanceIsTyped`, `ImportsAreAsChosen` (`ImportAsChosen`), `ReportsAreListed` (a backup that is
reported is in the list that is shown, except between two listings that overtake each other).
*Sessions*: `SessionsAreTyped`, `TheSessionLasts` (`[]StaysSignedIn`): by `SignInInv`: a
cookie that an answer sets is of a session just touched, under the key that signs or the one
that has just ceased to (`Recent`); and while something is heard within the idle time, the session of the
browser is no older than what was heard last, and its key has not been replaced since (`Heard`).
`OneTimeIsTyped`, `ThePageKnowsItsSecret` (`[]SecretsAgree`), by `OneTimeInv`: unless the page was used
while it waited for an answer, it waits for one request at most and is where that request
found it (`ControlsOK`), and a picture in view or on its way lasts longer on the server than on the page
(`InView`; what the server still does for requests that were given up shortens no secret); and
unless something is `unheard`, what is stored is what the page shows once the answer is there (`FollowsStored`).
*Feed*: `FeedIsWhole`, of `Feed` alone. Sorting stably by seconds (`NewestFirst`) yields the same
entries in the order of their times (`SortingSorts`). `FeedInv` says that the server lists each entry once and in order; DB
has entries of the server, each once; a request asks from no further than DB has entries; the
oldest entry an answer names is no younger than any that the server had then. An answer then leaves no gap
(`AnswerPassed`): were an entry passed over, DB would have only younger ones, as many as the request
starts at, and they do not fit before it (`Fits`). The bug that asks one further is the mutant of the run.
*The composition*: `AdminIsTyped` (`[]AdminTypeOK`) and `TheFeedIsComplete` (`FeedIsComplete`); every step is one of
one component's, and the others keep their variables and with them their invariants.

**TableProofs.** `TableIsTyped`, `NothingIsLeftUnmarked` (`[]UnmarkedIsStored`), by `TableInv`: what
an answer carries was stored when it was made; the rows follow DB; a draft is submitted
once at a time; a field without a mark shows what DB has. `TableKeepsDrafts` (`DraftsAreKept`): `Table`
implements `Drafts`; the initial states map to initial states and each action to a step or a stutter,
given `TableInv`. `DefaultsStayHere` (a default that is only shown is never stored) and
`TheComboboxSettles` (a list opens with nothing selected, closes with what was picked).
`FieldsSayWhatIsStored` (`[]FieldsAgree`, of the composition): `ObjectInv` says of DB *once it has heard
the answer that is on its way* what the property says of it when there is none, which makes it
inductive. That rests on two facts about the tables of OIDs, checked field by field for every kind of record:
no two fields of a kind are listed under one OID (`ListedApart`), and the browser reads every OID that is
listed, but for two of the interface (`ListedIsRead`).
`PagesSayTheSame` (`PagesAgree`, of the composition), by `PageInv`: headings and checkboxes have no
record twice; the checkboxes of a row are those of the headings, and of two that are in the order of creation
in the headings the first comes first in the row too (`InOrderOf`), which columns that go and come keep, wherever
a row was when it was made (`CompletedInOrder`, `CompletedAnew`); the options of a select are in the order of creation. That the
checkboxes *are* below their headings is not inductive: it lapses when a group is listed late and
holds again when that group goes. While the options are compared with the doors, those that have been
compared are the doors and those left over are the old ones, with the selected one among them
where it was (`ComparedTo`), hence what was picked stays (`OptionsBecomeDoors`). `TablesAreTyped`
(`[]TablesTypeOK`), by the same invariant and those of the other modules (`TablesInv`).

**ConsoleProofs.** `PageIsTyped`, `ThePageFollowsItsSearch` (`[]PageFollowsSearch`), `FiveTimesEmpty`
(`EmptiedOnlyAfterFive`), `EveryButtonReturns` (a button that a request disabled is enabled with the last
request), by `PageInv`: the messages, retries and disabled buttons are those of the requests in
flight. `ConnectionIsTyped` (the windmill never counts more than was clicked), `OnlySilenceGoesOffline`,
`MessagesOnlyGoForTheUser`. `ConsoleIsTyped` (`[]ConsoleTypeOK`), of the composition of the two.

**Only model-checked.** Liveness under fairness is out of the prover's reach: `Converges`,
`DivergenceFlagged`, `FoundCardsFollow`, `EventsRetrieved`, `ConsoleConverges`, `PageEnds`,
`WindmillStops`, `TablesConverge`. So are the violations, which are counterexamples. Every other
property of a run is a theorem.

## 6. What is not modelled

HTTP routing, templates and TLS; the rules engine (what it decides is a nondeterministic
refusal or a constant set of doors); names in the history; the logs; program start,
configuration and service installation; the sweep of deleted accounts. They are input and output, configuration, or
append-only data. Of the controllers: their cached status, its expiry, the sweep, and search and time
synchronization. Of door control: the deferred updates of mode, delay, keypad and passcodes.
Of the pages: layout, wording, themes, and the browser itself (it is external: events come one at
a time, answers in any order).

## 7. Plan

Done, in this order: `AclSync`, the system's reason to exist; `EventLog`; `Store`; the pages and
dialogs with the accounts and sessions behind them; proofs of the safety properties of each.

1. **An abstract store**: a list that each request changes atomically and a restart does not;
   `Store` implements it, with `Current` as the refinement mapping, outside `unsaved`,
   `undone` and `adrift`.
2. **Comparison**: `Compare` and `Wanted` as lemmas about what they return (all of what is held
   and missing is reported, a refresh never wants what it was not missing).
3. **Controllers and door control**: the sweep with its index arithmetic; the deferred updates
   as goroutines.
4. **Logs and history**: one small module for the append, save and lock discipline.
