------------------------------ MODULE AclSync ------------------------------
(***************************************************************************)
(* How credential and access level edits reach the controllers, and how    *)
(* the background worker notices (and, in 'synchronize' mode, repairs) a   *)
(* controller that holds something else.                                   *)
(*                                                                         *)
(* Four kinds of process share sys.cards and sys.groups:                   *)
(*   - an edit (UpdateCards, UpdateGroups): clones the records under       *)
(*     sys.Lock, edits the clone, validates it, swaps it in and starts one *)
(*     goroutine per controller and affected credential;                   *)
(*   - those goroutines (updateCardPermissions): read the live records,    *)
(*     work out what the controller should hold, then wait for the         *)
(*     controller's lock and write it, once, with no retry;                *)
(*   - the workers (the task queue and the refresh handler): sweep, then   *)
(*     compareACL, then synchronize. They do not take sys.Lock;            *)
(*   - the world: the network fails, other tools write to the controllers, *)
(*     deleted records reach the end of their retention.                   *)
(***************************************************************************)
EXTENDS Naturals, FiniteSets

CONSTANTS
    OIDs,           \* card record identifiers
    Numbers,        \* card numbers; 0 is 'no number', as in the code
    Levels,         \* access levels ('groups') that users create
    NoAccess,       \* the built-in deny level, "0.5.254"
    Always,         \* the built-in 24/7 level, "0.5.255"
    Doors,
    Controllers,
    ControllerOf,   \* the controller each door is wired to
    Slot,           \* the controller time profile of a level with a schedule
    RuleAllows,     \* doors the grule rules allow, by card number
    RuleForbids,    \* doors the grule rules forbid, by card number
    DefaultPeriod,  \* default start/end dates of the configuration, 0 if unset
    RowKeepsNumber, \* TRUE: an 'updated' row of acl.Compare has the controller's number
    Workers,        \* the goroutines that sweep and compare: the task queue, refresh handlers
    Synchronizers,  \* those that synchronize as well: the task queue in 'synchronize' mode
    LoadedCards,    \* card records the program may have loaded at start
    LoadedLevels,   \* levels the program may have loaded at start
    ForeignEntries, \* what other tools, or an earlier run, leave on a controller
    Memberships,    \* the memberships an edit may ask for
    Periods,        \* the validity periods an edit may ask for, 0: none
    LevelDoorSets,  \* the door sets an edit may give a level
    Schedules,      \* subset of BOOLEAN: may a level have a time schedule?
    MaxEdits,       \* bound: edit requests
    MaxOps,         \* bound: records changed by one request
    MaxFaults       \* bound: failed exchanges and foreign writes

Groups == Levels \cup {NoAccess, Always}

Record ==
    [state: {"none", "live", "deleted", "expired"}, number: Numbers \cup {0},
     groups: SUBSET Groups, period: Nat, found: BOOLEAN, incorrect: BOOLEAN]

Level ==
    [state: {"none", "live", "deleted", "expired", "swept"},
     doors: SUBSET Doors, timed: BOOLEAN]

\* What a controller stores for a card number.
Entry == [held: BOOLEAN, period: Nat, access: [Doors -> Nat]]

Cards == [OIDs -> Record]
LevelMap == [Levels -> Level]

NoCard == [state |-> "none", number |-> 0, groups |-> {}, period |-> 0,
           found |-> FALSE, incorrect |-> FALSE]
NoLevel == [state |-> "none", doors |-> {}, timed |-> FALSE]
NoCards == [o \in OIDs |-> NoCard]
NoLevels == [g \in Levels |-> NoLevel]
NotHeld == [held |-> FALSE, period |-> 0, access |-> [d \in Doors |-> 0]]

\* Mutant of Valid: a number may be shared as long as the levels differ.
ValidByLevels(m) ==
    \A o, q \in OIDs :
        m[o].state = "live" /\ m[q].state = "live" /\ m[o].number = m[q].number
            /\ m[o].number # 0 /\ m[o].groups = m[q].groups => o = q

\* Two live records never carry the same number (Cards.Validate).
Live(m, o) == m[o].state = "live"
Configured(m, o) == Live(m, o) /\ ~m[o].found
Valid(m) ==
    \A o, q \in OIDs :
        Live(m, o) /\ Live(m, q) /\ m[o].number = m[q].number /\ m[o].number # 0 => o = q

ASSUME NumbersAssumption == Numbers \subseteq Nat \ {0}
ASSUME LevelsAssumption == NoAccess \notin Levels /\ Always \notin Levels /\ NoAccess # Always
ASSUME WiringAssumption == ControllerOf \in [Doors -> Controllers]
ASSUME SlotAssumption == Slot \in [Levels -> Nat \ {0, 1}]
ASSUME RulesAssumption ==
    RuleAllows \in [Numbers -> SUBSET Doors] /\ RuleForbids \in [Numbers -> SUBSET Doors]
ASSUME ModeAssumption ==
    DefaultPeriod \in Nat /\ RowKeepsNumber \in BOOLEAN /\ Synchronizers \subseteq Workers
ASSUME InputsAssumption ==
    /\ Memberships \subseteq SUBSET Groups
    /\ Periods \subseteq Nat
    /\ LevelDoorSets \subseteq SUBSET Doors
    /\ Schedules \subseteq BOOLEAN
    /\ ForeignEntries \subseteq Entry
    /\ MaxEdits \in Nat /\ MaxOps \in Nat /\ MaxFaults \in Nat
ASSUME LoadedAssumption ==
    /\ \A m \in LoadedLevels :
        m \in LevelMap /\ \A g \in Levels : m[g].state = "live" \/ m[g] = NoLevel
    /\ \A m \in LoadedCards :
        /\ m \in Cards /\ Valid(m)
        /\ \A o \in OIDs : m[o] = NoCard \/ Configured(m, o)

-----------------------------------------------------------------------------
(* What a controller should hold for a credential.                         *)

\* A deleted level still grants access until it is swept: Groups.Group does
\* not look at the deleted timestamp.
LevelPresent(gm, g) == g \in Levels => gm[g].state \notin {"none", "swept"}

LevelDoors(gm, g) ==
    IF g \in Levels THEN gm[g].doors ELSE IF g = Always THEN Doors ELSE {}

LevelProfile(gm, g) == IF g \in Levels /\ gm[g].timed THEN Slot[g] ELSE 1

\* The profiles with which the levels gs open door d.
Offered(gm, gs, d) ==
    {LevelProfile(gm, g) : g \in {x \in gs : LevelPresent(gm, x) /\ d \in LevelDoors(gm, x)}}

\* Two schedules for the same door are an error, unless the unrestricted level
\* happens to be seen before the second of them (map order).
TwoSchedules(gm, gs, d) == \E p, q \in Offered(gm, gs, d) \ {1} : p # q
MayConflict(gm, gs) == \E d \in Doors : TwoSchedules(gm, gs, d)
MustConflict(gm, gs) == \E d \in Doors : TwoSchedules(gm, gs, d) /\ 1 \notin Offered(gm, gs, d)

\* The order is the code's: levels, then rules, then the deny level.
Access(gm, gs, n, c) ==
    [d \in Doors |->
        IF ControllerOf[d] # c \/ NoAccess \in gs \/ d \in RuleForbids[n] THEN 0
        ELSE IF d \in RuleAllows[n] \/ 1 \in Offered(gm, gs, d) THEN 1
        ELSE IF Offered(gm, gs, d) = {} THEN 0
        ELSE CHOOSE p \in Offered(gm, gs, d) : TRUE]

Period(r) == IF r.period = 0 THEN DefaultPeriod ELSE r.period

\* A record with no period, an unconfigured record and a deleted record all
\* end in DeleteCard.
EntryFor(gm, r, c) ==
    IF r.state = "live" /\ ~r.found /\ Period(r) # 0
    THEN [held |-> TRUE, period |-> Period(r), access |-> Access(gm, r.groups, r.number, c)]
    ELSE NotHeld

\* The records Lookup may return for number n: it takes the first match of a
\* map iteration and does not skip deleted records.
Matches(m, n) == {o \in OIDs : m[o].state # "none" /\ m[o].number = n}

-----------------------------------------------------------------------------
(* The desired ACL of permissions(): it unites the levels of every record  *)
(* with the number, deleted ones included, and its date defaulting leaves  *)
(* a blank row for a number that has records but no configured one.        *)

Row == [kind: {"none", "blank", "card"}, entry: [Controllers -> Entry]]
NoRow == [kind |-> "none", entry |-> [c \in Controllers |-> NotHeld]]
NoAcl == [n \in Numbers \cup {0} |-> NoRow]

Membership(m, n) == UNION {m[o].groups : o \in Matches(m, n)}

AclRow(m, gm, n) ==
    IF Matches(m, n) = {} THEN NoRow
    ELSE IF n # 0 /\ \E o \in Matches(m, n) : Configured(m, o)
    THEN LET r == m[CHOOSE o \in Matches(m, n) : Configured(m, o)]
         IN [kind |-> "card",
             entry |-> [c \in Controllers |-> EntryFor(gm, [r EXCEPT !.groups = Membership(m, n)], c)]]
    ELSE [NoRow EXCEPT !.kind = "blank"]

Acl(m, gm) == [n \in Numbers \cup {0} |-> AclRow(m, gm, n)]

AclMayFail(m, gm) ==
    \E n \in Numbers : AclRow(m, gm, n).kind = "card" /\ MayConflict(gm, Membership(m, n))
AclMustFail(m, gm) ==
    \E n \in Numbers : AclRow(m, gm, n).kind = "card" /\ MustConflict(gm, Membership(m, n))

-----------------------------------------------------------------------------
VARIABLES
    cards,      \* sys.cards
    groups,     \* sys.groups: the levels users create (built-in ones are fixed)
    catalog,    \* the catalog's table of levels: it has no rollback
    device,     \* the card table of each controller
    tx,         \* what the holder of sys.Lock is editing: "none", "cards", "groups"
    shadow,     \* its clone of sys.cards
    draft,      \* its clone of sys.groups
    updated,    \* dbc.updated: the card numbers to push on commit
    touched,    \* dbc.updated: the levels to push on commit
    ops,        \* records changed so far by this request
    edits,      \* requests so far
    queued,     \* goroutines that have not yet looked at the records
    ready,      \* goroutines waiting for a controller with what they worked out
    worker,     \* what each worker is doing
    faults      \* failed exchanges and foreign writes so far

txVars == <<tx, shadow, draft, updated, touched, ops, edits>>
pushVars == <<queued, ready>>
vars == <<cards, groups, catalog, device, tx, shadow, draft, updated, touched, ops, edits,
          queued, ready, worker, faults>>

Push == [edit: 1..MaxEdits, controller: Controllers, number: Numbers]
Write == [edit: 0..MaxEdits, controller: Controllers, number: Numbers, entry: Entry]

WorkerState ==
    [pc: {"sweep", "read", "diff", "scan", "apply", "mark", "checkRead", "checkDiff",
          "profiles", "syncRead", "syncDiff", "syncNext", "syncSend"},
     acl: [Numbers \cup {0} -> Row], found: SUBSET Numbers, marks: SUBSET (Numbers \cup {0}),
     remove: SUBSET OIDs, add: SUBSET Numbers,
     todo: SUBSET (Controllers \X Numbers), writing: SUBSET Write, failed: BOOLEAN, last: BOOLEAN]

Resting == [pc |-> "sweep", acl |-> NoAcl, found |-> {}, marks |-> {}, remove |-> {},
            add |-> {}, todo |-> {}, writing |-> {}, failed |-> FALSE, last |-> FALSE]

Init ==
    /\ cards \in LoadedCards
    /\ groups \in LoadedLevels
    /\ catalog = [g \in Levels |-> IF groups[g].state = "none" THEN "none" ELSE "live"]
    /\ device \in [Controllers -> [Numbers -> ForeignEntries \cup {NotHeld}]]
    /\ tx = "none" /\ shadow = NoCards /\ draft = NoLevels
    /\ updated = {} /\ touched = {} /\ ops = 0 /\ edits = 0
    /\ queued = {} /\ ready = {}
    /\ worker = [w \in Workers |-> Resting]
    /\ faults = 0

-----------------------------------------------------------------------------
(* Edits: UpdateCards and UpdateGroups, both under sys.Lock throughout.    *)

\* Found holds the cards guard from its scan to its last change; Clone and
\* Lookup wait for it, MarkIncorrect, Sweep and the commit hook do not.
GuardFree == \A w \in Workers : worker[w].pc # "apply"

BeginCards ==
    /\ tx = "none" /\ edits < MaxEdits /\ GuardFree
    /\ tx' = "cards" /\ shadow' = cards /\ edits' = edits + 1
    /\ UNCHANGED <<cards, groups, catalog, device, draft, updated, touched, ops, pushVars, worker, faults>>

\* catalog.NewT never hands out an identifier twice; the model reuses one
\* only when no record has it.
Unused(o) == cards[o].state = "none" /\ shadow[o].state = "none"

AddCard(o) ==
    /\ tx = "cards" /\ ops < MaxOps /\ Unused(o)
    /\ shadow' = [shadow EXCEPT ![o] = [NoCard EXCEPT !.state = "live"]]
    /\ ops' = ops + 1
    /\ UNCHANGED <<cards, groups, catalog, device, tx, draft, updated, touched, edits, pushVars, worker, faults>>

\* Mutant of Collected: the number a record had before is not pushed.
CollectedNewOnly(o, n) == updated \cup {n}

\* A change of number concerns the old number as well.
Collected(o, n) == updated \cup {n, shadow[o].number}

\* The set() calls of a request on one record. A membership is granted or
\* revoked only in levels the catalog still knows.
SetCard(o, n, gs, p) ==
    /\ tx = "cards" /\ ops < MaxOps /\ Live(shadow, o)
    /\ \A g \in Levels : (g \in gs) # (g \in shadow[o].groups) => catalog[g] = "live"
    /\ shadow' = [shadow EXCEPT ![o] =
           [@ EXCEPT !.number = n, !.groups = gs, !.period = p,
                     !.found = FALSE, !.incorrect = FALSE]]
    /\ updated' = Collected(o, n)
    /\ ops' = ops + 1
    /\ UNCHANGED <<cards, groups, catalog, device, tx, draft, touched, edits, pushVars, worker, faults>>

RemoveCard(o) ==
    /\ tx = "cards" /\ ops < MaxOps /\ Live(shadow, o)
    /\ shadow' = [shadow EXCEPT ![o].state = "deleted"]
    /\ updated' = Collected(o, shadow[o].number)
    /\ ops' = ops + 1
    /\ UNCHANGED <<cards, groups, catalog, device, tx, draft, touched, edits, pushVars, worker, faults>>

BeginGroups ==
    /\ tx = "none" /\ edits < MaxEdits
    /\ tx' = "groups" /\ draft' = groups /\ edits' = edits + 1
    /\ UNCHANGED <<cards, groups, catalog, device, shadow, updated, touched, ops, pushVars, worker, faults>>

AddLevel(g) ==
    /\ tx = "groups" /\ ops < MaxOps /\ catalog[g] = "none"
    /\ draft' = [draft EXCEPT ![g] = [NoLevel EXCEPT !.state = "live"]]
    /\ catalog' = [catalog EXCEPT ![g] = "live"]
    /\ ops' = ops + 1
    /\ UNCHANGED <<cards, groups, device, tx, shadow, updated, touched, edits, pushVars, worker, faults>>

SetLevel(g, ds, timed) ==
    /\ tx = "groups" /\ ops < MaxOps /\ draft[g].state = "live"
    /\ draft' = [draft EXCEPT ![g] = [@ EXCEPT !.doors = ds, !.timed = timed]]
    /\ touched' = touched \cup {g}
    /\ ops' = ops + 1
    /\ UNCHANGED <<cards, groups, catalog, device, tx, shadow, updated, edits, pushVars, worker, faults>>

\* Group.delete reports nothing to push.
RemoveLevel(g) ==
    /\ tx = "groups" /\ ops < MaxOps /\ draft[g].state = "live"
    /\ draft' = [draft EXCEPT ![g].state = "deleted"]
    /\ catalog' = [catalog EXCEPT ![g] = "deleted"]
    /\ ops' = ops + 1
    /\ UNCHANGED <<cards, groups, device, tx, shadow, updated, touched, edits, pushVars, worker, faults>>

\* Mutant of EndTx: what was collected stays behind for the next request.
EndTxKeepsUpdates ==
    /\ tx' = "none" /\ shadow' = NoCards /\ draft' = NoLevels
    /\ ops' = 0 /\ UNCHANGED <<updated, touched, edits>>

EndTx ==
    /\ tx' = "none" /\ shadow' = NoCards /\ draft' = NoLevels
    /\ updated' = {} /\ touched' = {} /\ ops' = 0 /\ UNCHANGED edits

\* One goroutine per controller and card number.
Pushes(ns) == {[edit |-> edits, controller |-> c, number |-> n] : c \in Controllers, n \in ns \ {0}}

CommitCards ==
    /\ tx = "cards" /\ Valid(shadow)
    /\ cards' = shadow
    /\ queued' = queued \cup Pushes(updated)
    /\ EndTx
    /\ UNCHANGED <<groups, catalog, device, ready, worker, faults>>

\* The members are looked up in the live cards, after the new levels are in.
Members(gs) == {cards[o].number : o \in {q \in OIDs : cards[q].groups \cap gs # {}}}

CommitGroups ==
    /\ tx = "groups"
    /\ groups' = draft
    /\ queued' = queued \cup Pushes(Members(touched))
    /\ EndTx
    /\ UNCHANGED <<cards, catalog, device, ready, worker, faults>>

\* Any refusal drops the clone and everything collected with it, but not what
\* the catalog was told.
Refuse ==
    /\ tx # "none"
    /\ EndTx
    /\ UNCHANGED <<cards, groups, catalog, device, pushVars, worker, faults>>

Request ==
    \/ BeginCards
    \/ BeginGroups
    \/ \E o \in OIDs : AddCard(o) \/ RemoveCard(o)
    \/ \E o \in OIDs, n \in Numbers \cup {0}, gs \in Memberships, p \in Periods : SetCard(o, n, gs, p)
    \/ \E g \in Levels : AddLevel(g) \/ RemoveLevel(g)
    \/ \E g \in Levels, ds \in LevelDoorSets, timed \in Schedules : SetLevel(g, ds, timed)

-----------------------------------------------------------------------------
(* updateCardPermissions, as a goroutine of an edit.                       *)

\* What a look at the records may yield for number n on controller c: the
\* entries to write. An empty record of the number revokes the card.
Outcomes(c, n) ==
    IF Matches(cards, n) = {} THEN {NotHeld}
    ELSE {EntryFor(groups, cards[o], c) : o \in {q \in Matches(cards, n) :
                                                    ~MustConflict(groups, cards[q].groups)}}

\* ... or the error for two schedules on one door.
MayRefuse(n) == \E o \in Matches(cards, n) : MayConflict(groups, cards[o].groups)

PushLookup(p) ==
    /\ GuardFree
    /\ queued' = queued \ {p}
    /\ \/ \E e \in Outcomes(p.controller, p.number) :
            ready' = ready \cup {[edit |-> p.edit, controller |-> p.controller,
                                  number |-> p.number, entry |-> e]}
       \/ /\ MayRefuse(p.number)
          /\ UNCHANGED ready
    /\ UNCHANGED <<cards, groups, catalog, device, txVars, worker, faults>>

\* PutCard or DeleteCard under the controller's own lock.
PushWrite(p) ==
    /\ ready' = ready \ {p}
    /\ device' = [device EXCEPT ![p.controller][p.number] = p.entry]
    /\ UNCHANGED <<cards, groups, catalog, txVars, queued, worker, faults>>

\* A failed exchange is logged and forgotten.
PushFail(p) ==
    /\ faults < MaxFaults
    /\ ready' = ready \ {p}
    /\ faults' = faults + 1
    /\ UNCHANGED <<cards, groups, catalog, device, txVars, queued, worker>>

Lookups == \E p \in queued : PushLookup(p)
Writes == \E p \in ready : PushWrite(p) \/ PushFail(p)

-----------------------------------------------------------------------------
(* The background worker.                                                  *)

At(w, pc) == worker[w].pc = pc
Become(w, state) == worker' = [worker EXCEPT ![w] = state]
Go(w, pc) == Become(w, [worker[w] EXCEPT !.pc = pc])
Rest(w) == Become(w, Resting)
Cleared(w) == [Resting EXCEPT !.last = worker[w].last]

\* Where a compare goes when it fails, and when a pass has nothing left to do.
\* 'last' is the compare that ends a synchronization.
AfterCompare(w) ==
    IF w \in Synchronizers /\ ~worker[w].last
    THEN Become(w, [Resting EXCEPT !.pc = "checkRead"]) ELSE Rest(w)

\* The live records only: an edit in progress keeps its clones of what is swept.
Sweep(w) ==
    /\ At(w, "sweep")
    /\ cards' = [o \in OIDs |-> IF cards[o].state = "expired" THEN NoCard ELSE cards[o]]
    /\ groups' = [g \in Levels |-> IF groups[g].state = "expired"
                                   THEN [groups[g] EXCEPT !.state = "swept"] ELSE groups[g]]
    /\ Go(w, "read")
    /\ UNCHANGED <<catalog, device, txVars, pushVars, faults>>

\* permissions(), at the head of compareACL, of synchronize and of
\* synchronizeACL. Two schedules on one door fail the lot.
ReadRows(w, from, to) ==
    /\ At(w, from)
    /\ ~AclMustFail(cards, groups)
    /\ Become(w, [worker[w] EXCEPT !.pc = to, !.acl = Acl(cards, groups)])
    /\ UNCHANGED <<cards, groups, catalog, device, txVars, pushVars, faults>>

NoRows(w, from) ==
    /\ At(w, from)
    /\ AclMayFail(cards, groups)
    /\ IF from = "read" THEN AfterCompare(w) ELSE Rest(w)
    /\ UNCHANGED <<cards, groups, catalog, device, txVars, pushVars, faults>>

ReadAcl(w) ==
    \/ ReadRows(w, "read", "diff") \/ NoRows(w, "read")
    \/ ReadRows(w, "checkRead", "checkDiff") \/ NoRows(w, "checkRead")
    \/ ReadRows(w, "syncRead", "syncDiff") \/ NoRows(w, "syncRead")

\* The rows of a comparison (acl.GetACL and acl.Compare): what the controllers
\* seen hold against the desired rows, and, for the controllers blank, against
\* nothing. 'Added' is held and not desired, 'Deleted' the converse.
Holds(c, n, blank) == c \notin blank /\ n # 0 /\ device[c][n].held

Compare(acl, seen, blank) ==
    LET Pairs == (seen \cup blank) \X (Numbers \cup {0})
        Desired(x) == acl[x[2]].kind # "none"
        Present(x) == Holds(x[1], x[2], blank)
        Same(x) == acl[x[2]].kind = "card" /\ device[x[1]][x[2]] = acl[x[2]].entry[x[1]]
    IN [added |-> {x \in Pairs : Present(x) /\ ~Desired(x)},
        updated |-> {x \in Pairs : Present(x) /\ Desired(x) /\ ~Same(x)},
        deleted |-> {x \in Pairs : ~Present(x) /\ Desired(x)}]

\* The card number a row carries: a blank row has none of its own.
Reported(acl, x) ==
    IF acl[x[2]].kind = "card" THEN x[2] ELSE 0

UpdatedNumbers(acl, diff) ==
    {IF RowKeepsNumber THEN x[2] ELSE Reported(acl, x) : x \in diff.updated}
DeletedNumbers(acl, rows) == {Reported(acl, x) : x \in rows}

\* A row without dates is not reported as missing.
Dated(acl, x) ==
    IF acl[x[2]].kind = "card" THEN acl[x[2]].entry[x[1]].held ELSE DefaultPeriod # 0

\* A controller that does not answer costs a fault; it is left out of the
\* comparison or taken to hold nothing.
Exchange(seen, blank) ==
    /\ blank \subseteq Controllers \ seen
    /\ \/ seen = Controllers /\ UNCHANGED faults
       \/ seen # Controllers /\ faults < MaxFaults /\ faults' = faults + 1

\* Mutant of FoundNumbers: the two sides of the comparison are swapped.
FoundNumbersSwapped(diff) == {x[2] : x \in diff.deleted}

FoundNumbers(diff) == {x[2] : x \in diff.added}

CompareDiff(w) ==
    /\ At(w, "diff")
    /\ \E seen, blank \in SUBSET Controllers :
        /\ Exchange(seen, blank)
        /\ LET acl == worker[w].acl
               diff == Compare(acl, seen, blank)
               missing == {x \in diff.deleted : Dated(acl, x)}
           IN Become(w, [Cleared(w) EXCEPT !.pc = "scan", !.found = FoundNumbers(diff),
                   !.marks = {x[2] : x \in diff.added} \cup UpdatedNumbers(acl, diff)
                                \cup DeletedNumbers(acl, missing)])
    /\ UNCHANGED <<cards, groups, catalog, device, txVars, pushVars>>

\* The records Found may decide to remove, by the order in which it meets them.
FoundIn(os) == {o \in os : cards[o].found}
LiveIn(os) == {o \in os : Live(cards, o)}

Removals(F) ==
    {R \in SUBSET FoundIn({o \in OIDs : cards[o].state # "none"}) :
        /\ \A o \in OIDs : cards[o].found /\ cards[o].number \notin F => o \in R
        /\ \A n \in F :
            IF LiveIn(Matches(cards, n)) = {} THEN R \cap Matches(cards, n) = {}
            ELSE \E first \in LiveIn(Matches(cards, n)) \ R : FoundIn(LiveIn(Matches(cards, n))) \ {first} \subseteq R}

FoundScan(w) ==
    /\ At(w, "scan") /\ GuardFree
    /\ \E R \in Removals(worker[w].found) :
        Become(w, [worker[w] EXCEPT !.pc = "apply", !.remove = R,
                       !.add = {n \in worker[w].found : LiveIn(Matches(cards, n)) = {}}])
    /\ UNCHANGED <<cards, groups, catalog, device, txVars, pushVars, faults>>

\* The changes go to whatever sys.cards is by then. The model has room for the
\* records of OIDs only: what does not fit is not added.
Room == {o \in OIDs : Unused(o)}

FoundApply(w) ==
    /\ At(w, "apply")
    /\ \E new \in SUBSET worker[w].add :
        /\ \/ new = worker[w].add /\ Cardinality(new) <= Cardinality(Room)
           \/ Cardinality(new) = Cardinality(Room)
        /\ \E at \in [new -> Room] :
            /\ \A m, n \in new : at[m] = at[n] => m = n
            /\ cards' = [o \in OIDs |->
                   IF o \in worker[w].remove THEN NoCard
                   ELSE IF \E n \in new : at[n] = o
                   THEN [NoCard EXCEPT !.state = "live", !.found = TRUE,
                                       !.number = CHOOSE n \in new : at[n] = o]
                   ELSE cards[o]]
    /\ Become(w, [Cleared(w) EXCEPT !.pc = "mark", !.marks = worker[w].marks])
    /\ UNCHANGED <<groups, catalog, device, txVars, pushVars, faults>>

\* Mutant of Marked: a flag once set is never cleared.
MarkedForGood(r, marks) ==
    IF r.number \in marks THEN [r EXCEPT !.incorrect = TRUE] ELSE r

Marked(r, marks) == [r EXCEPT !.incorrect = r.number \in marks]

MarkIncorrect(w) ==
    /\ At(w, "mark")
    /\ cards' = [o \in OIDs |->
           IF cards[o].state = "none" THEN cards[o] ELSE Marked(cards[o], worker[w].marks)]
    /\ AfterCompare(w)
    /\ UNCHANGED <<groups, catalog, device, txVars, pushVars, faults>>

-----------------------------------------------------------------------------
(* synchronize: compare once more and, if anything differs, SynchronizeACL.*)

\* Mutants of OutOfSync: one kind of row is not counted.
OutOfSyncUnlessMissing(diff) == diff.added \cup diff.updated # {}
OutOfSyncUnlessUpdated(diff) == diff.added \cup diff.deleted # {}

OutOfSync(diff) == diff.added \cup diff.updated \cup diff.deleted # {}

SyncCheck(w) ==
    /\ At(w, "checkDiff")
    /\ \E seen, blank \in SUBSET Controllers :
        /\ Exchange(seen, blank)
        /\ IF OutOfSync(Compare(worker[w].acl, seen, blank))
           THEN Become(w, [Resting EXCEPT !.pc = "profiles"]) ELSE Rest(w)
    /\ UNCHANGED <<cards, groups, catalog, device, txVars, pushVars>>

\* synchronizeTimeProfiles: one failure and the ACL is not synchronized at all.
SyncProfiles(w) ==
    /\ At(w, "profiles")
    /\ \/ Go(w, "syncRead") /\ UNCHANGED faults
       \/ /\ \E g \in Levels : groups[g].state = "live" /\ groups[g].timed
          /\ faults < MaxFaults /\ faults' = faults + 1
          /\ Rest(w)
    /\ UNCHANGED <<cards, groups, catalog, device, txVars, pushVars>>

LiveNumbers == {cards[o].number : o \in {q \in OIDs : Live(cards, q)}}

SyncDiff(w) ==
    /\ At(w, "syncDiff")
    /\ \E seen, blank \in SUBSET Controllers :
        /\ Exchange(seen, blank)
        /\ LET acl == worker[w].acl
               diff == Compare(acl, seen, blank)
               list == {x[2] : x \in diff.added} \cup UpdatedNumbers(acl, diff)
                         \cup DeletedNumbers(acl, diff.deleted) \cup LiveNumbers
           IN Become(w, [Resting EXCEPT !.pc = "syncNext", !.todo = Controllers \X (list \ {0})])
    /\ UNCHANGED <<cards, groups, catalog, device, txVars, pushVars>>

\* One updateCardPermissions after the other; a failed one does not stop them.
SyncNext(w) ==
    /\ At(w, "syncNext") /\ GuardFree
    /\ \E x \in worker[w].todo :
        LET rest == [worker[w] EXCEPT !.todo = @ \ {x}]
        IN \/ \E e \in Outcomes(x[1], x[2]) :
                 Become(w, [rest EXCEPT !.pc = "syncSend", !.writing =
                     {[edit |-> 0, controller |-> x[1], number |-> x[2], entry |-> e]}])
           \/ MayRefuse(x[2]) /\ Become(w, [rest EXCEPT !.failed = TRUE])
    /\ UNCHANGED <<cards, groups, catalog, device, txVars, pushVars, faults>>

SyncSend(w) ==
    /\ At(w, "syncSend")
    /\ \E p \in worker[w].writing :
        \/ /\ device' = [device EXCEPT ![p.controller][p.number] = p.entry]
           /\ Become(w, [worker[w] EXCEPT !.pc = "syncNext", !.writing = {}])
           /\ UNCHANGED faults
        \/ /\ faults < MaxFaults /\ faults' = faults + 1
           /\ Become(w, [worker[w] EXCEPT !.pc = "syncNext", !.writing = {}, !.failed = TRUE])
           /\ UNCHANGED device
    /\ UNCHANGED <<cards, groups, catalog, txVars, pushVars>>

\* Only a synchronization without failures is followed by a compare.
SyncDone(w) ==
    /\ At(w, "syncNext") /\ worker[w].todo = {}
    /\ IF worker[w].failed THEN Rest(w) ELSE Become(w, [Resting EXCEPT !.pc = "read", !.last = TRUE])
    /\ UNCHANGED <<cards, groups, catalog, device, txVars, pushVars, faults>>

Work(w) ==
    \/ Sweep(w) \/ ReadAcl(w) \/ CompareDiff(w)
    \/ FoundScan(w) \/ FoundApply(w) \/ MarkIncorrect(w)
    \/ SyncCheck(w) \/ SyncProfiles(w) \/ SyncDiff(w)
    \/ SyncNext(w) \/ SyncSend(w) \/ SyncDone(w)

-----------------------------------------------------------------------------
(* The world.                                                              *)

\* The retention of a deleted record runs out, in the clone of an edit as well:
\* the clone has the same timestamp.
Expired(r) == IF r.state = "deleted" THEN [r EXCEPT !.state = "expired"] ELSE r

ExpireCard(o) ==
    /\ cards[o].state = "deleted"
    /\ cards' = [cards EXCEPT ![o] = Expired(@)]
    /\ shadow' = [shadow EXCEPT ![o] = Expired(@)]
    /\ UNCHANGED <<groups, catalog, device, tx, draft, updated, touched, ops, edits,
                   pushVars, worker, faults>>

ExpireLevel(g) ==
    /\ groups[g].state = "deleted"
    /\ groups' = [groups EXCEPT ![g] = Expired(@)]
    /\ draft' = [draft EXCEPT ![g] = Expired(@)]
    /\ UNCHANGED <<cards, catalog, device, tx, shadow, updated, touched, ops, edits,
                   pushVars, worker, faults>>

\* uhppote-cli or another installation changes a card on a controller.
ForeignWrite(c, n, e) ==
    /\ faults < MaxFaults /\ faults' = faults + 1
    /\ device' = [device EXCEPT ![c][n] = e]
    /\ UNCHANGED <<cards, groups, catalog, txVars, pushVars, worker>>

Expiry == \/ \E o \in OIDs : ExpireCard(o)
          \/ \E g \in Levels : ExpireLevel(g)
Finish == CommitCards \/ CommitGroups \/ Refuse

Next ==
    \/ Request \/ Finish
    \/ Lookups \/ Writes
    \/ \E w \in Workers : Work(w)
    \/ Expiry
    \/ \E c \in Controllers, n \in Numbers, e \in ForeignEntries \cup {NotHeld} : ForeignWrite(c, n, e)

\* A handler returns, a goroutine runs, the workers are started by a ticker and
\* time passes. Faults are bounded, so exchanges succeed in the end.
Spec ==
    /\ Init /\ [][Next]_vars
    /\ WF_vars(Finish)
    /\ WF_vars(Lookups) /\ WF_vars(Writes)
    /\ \A w \in Workers : WF_vars(Work(w))
    /\ WF_vars(Expiry)

-----------------------------------------------------------------------------
(* Properties.                                                             *)

\* Every variable keeps to its type; while nobody holds sys.Lock there is no
\* clone and nothing collected for a commit.
TypeOK ==
    /\ cards \in Cards /\ groups \in LevelMap
    /\ catalog \in [Levels -> {"none", "live", "deleted"}]
    /\ device \in [Controllers -> [Numbers -> Entry]]
    /\ tx \in {"none", "cards", "groups"}
    /\ shadow \in Cards /\ draft \in LevelMap
    /\ updated \subseteq Numbers \cup {0} /\ touched \subseteq Levels
    /\ ops \in 0..MaxOps /\ edits \in 0..MaxEdits /\ faults \in 0..MaxFaults
    /\ queued \subseteq Push /\ ready \subseteq Write
    /\ worker \in [Workers -> WorkerState]
    /\ tx = "none" => updated = {} /\ touched = {} /\ ops = 0

\* However edits, sweeps and discoveries interleave, the live list never has two
\* configured credentials with one card number (Cards.Validate checks a clone that
\* may be out of date by the time it is swapped in).
UniqueConfigured ==
    \A o, q \in OIDs :
        Configured(cards, o) /\ Configured(cards, q) /\ cards[o].number = cards[q].number
            /\ cards[o].number # 0 => o = q

\* What controller c should hold for number n, by the configured records.
ConfiguredFor(m, n) == {o \in OIDs : Configured(m, o) /\ m[o].number = n}
Intended(m, gm, n, c) ==
    IF ConfiguredFor(m, n) = {} THEN NotHeld
    ELSE EntryFor(gm, m[CHOOSE o \in ConfiguredFor(m, n) : TRUE], c)

\* The clone of an edit brings back a level that a sweep removed meanwhile.
Restores == \E g \in Levels : groups[g].state = "swept" /\ groups'[g].state # "swept"

\* A commit that changes what a controller should hold for a card number starts a
\* push of that number to that controller, whatever the workers did to the live
\* records since they were cloned (dbc.Updated must have collected the number).
CommitsArePushed ==
    Finish /\ ~Restores =>
        \A c \in Controllers, n \in Numbers :
            Intended(cards', groups', n, c) # Intended(cards, groups, n, c) =>
                [edit |-> edits, controller |-> c, number |-> n] \in queued'
EditsReachControllers == [][CommitsArePushed]_vars

Diverges(n) == \E c \in Controllers : device[c][n] # Intended(cards, groups, n, c)

\* Pushes are fire and forget and may land in any order, yet the list ends up
\* telling which credentials a controller disagrees about, and only those, unless
\* a credential with two schedules for one door stops every comparison.
DivergenceFlagged ==
    <>[](AclMayFail(cards, groups) \/
         \A n \in Numbers : \A o \in ConfiguredFor(cards, n) : cards[o].incorrect <=> Diverges(n))

HeldAnywhere(n) == \E c \in Controllers : device[c][n].held
ListedAsFound(n) == \E o \in OIDs : Live(cards, o) /\ cards[o].found /\ cards[o].number = n

\* What is left of rules 1 and 3 of Cards.Found. A card that a controller holds and no
\* credential has comes back to the list however often it is removed from it, as long as
\* the model has a record for it; one that no controller holds is removed for good.
\* It does not say that a card that is held stays in the list: FoundStaysListed.
FoundCardsFollow ==
    /\ \A n \in Numbers :
        []<>(AclMayFail(cards, groups) \/ ~HeldAnywhere(n) \/ ConfiguredFor(cards, n) # {} \/ Room = {}
             \/ ListedAsFound(n))
    /\ <>[](AclMayFail(cards, groups) \/ \A n \in Numbers : ListedAsFound(n) => HeldAnywhere(n))

\* "A FOUND card is marked 'unconfigured' until manually edited" and "deleted externally ...
\* is automatically removed" (rules 2 and 3): one that is never edited and that a controller
\* holds for good is in the list for good.
FoundStaysListed ==
    \A n \in Numbers :
        <>[](HeldAnywhere(n) /\ ConfiguredFor(cards, n) = {}) => <>[]ListedAsFound(n)

\* In 'synchronize' mode every controller ends up with what it should hold: late
\* and failed pushes, foreign cards and deleted credentials are all repaired.
Converges == <>[](AclMayFail(cards, groups) \/ \A n \in Numbers : ~Diverges(n))

\* "An explicit synchronization must write the complete desired ACL": what it
\* writes for a number is what the configured credential of that number should get.
SyncWritesDesired ==
    [][\A w \in Workers : At(w, "syncNext") /\ At(w, "syncSend")' =>
          \A p \in worker'[w].writing :
              p.entry = Intended(cards, groups, p.number, p.controller)]_vars

=============================================================================
