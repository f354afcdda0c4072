----------------------------- MODULE CardEditor -----------------------------
(***************************************************************************)
(* The credential and access level pages of the console (gate-control.js): *)
(* one browser with its copy of the snapshot, the dialogs for a            *)
(* credential, a person, a management group, the levels of several         *)
(* credentials and an access level, and the handlers behind their buttons. *)
(* A handler is a chain of requests, and while one is in flight the user   *)
(* goes on, the copy is loaded again and other clients edit.  A credential *)
(* is saved under the OID its number has at that moment, because a         *)
(* credential that was found on a controller loses its OID when the next   *)
(* comparison drops it and finds it again.                                 *)
(*                                                                         *)
(* As in DoorEditor a request is served and answered in one step.  The     *)
(* buttons are not modelled: a handler in flight excludes another one,     *)
(* which is a bound (DoorEditor has handlers that run at once).            *)
(***************************************************************************)
EXTENDS Naturals, FiniteSets

CONSTANTS
    Cards,        \* OIDs of credentials
    Names,        \* full names
    Teams,        \* management groups; Ungrouped is one of them
    Ungrouped,
    Numbers,      \* controller IDs
    Terms,        \* what else a credential has: its type, PIN and dates
    Groups,       \* OIDs of access levels; NoAccess is one of them
    NoAccess,
    Titles,       \* names of access levels
    Loaded,       \* what the credentials may be at the start
    LoadedRules,  \* what the access levels are at the start
    Absent,       \* nothing
    NewRecord,    \* the dialog of a record that has no OID yet
    NotSet,       \* a field that was never set
    MaxCardEvents \* how often, together, a dialog is opened or changed, another client
                  \* writes and a request is lost

VARIABLES
    cards,      \* sys.cards: "none" (never made), "live", "deleted" or "gone"
    held,       \* what each credential holds
    groups,     \* sys.groups: "none", "live" or "deleted"
    rules,      \* the name of each access level, and whether it opens the relays
    told,       \* have the controllers got the access rules that follow from all this
    cardsView,  \* DB: the browser's copy
    cardsLoad,  \* load(): where its request is, and what it has read
    dialog,     \* the dialogs that are open, the last one on top
    cardForm,
    sheet,      \* the form of the other dialogs
    job,        \* the handler in flight
    cardEvents  \* counted, for the bound

cardServer == <<cards, held, groups, rules, told>>
cardVars == <<cardServer, cardsView, cardsLoad, dialog, cardForm, sheet, job, cardEvents>>

Credential(name, team, number, term, levels) ==
    [name |-> name, team |-> team, number |-> number, term |-> term, levels |-> levels]

BlankCard == Credential(NotSet, Ungrouped, NotSet, NotSet, {})
BlankRule == [title |-> NotSet, opens |-> FALSE]

Fields == [name : Names \cup {NotSet}, team : Teams, number : Numbers \cup {NotSet},
           term : Terms \cup {NotSet}, levels : SUBSET Groups]
Rules == [title : Titles \cup {NotSet}, opens : BOOLEAN]

\* What is there of a record has a name or a number.
Unlisted(f) == f.name = NotSet /\ f.number = NotSet

\* Cards.Validate: live credentials have different numbers.
NumbersDiffer(st, fs) ==
    \A a, b \in {c \in Cards : st[c] = "live"} :
        fs[a].number = fs[b].number /\ fs[a].number # NotSet => a = b

Made(fs) == [c \in Cards |-> IF fs[c] = BlankCard THEN "none" ELSE "live"]

ASSUME CardsAssumption ==
    /\ Ungrouped \in Teams /\ NoAccess \in Groups /\ MaxCardEvents \in Nat
    /\ NotSet \notin Names \cup Numbers \cup Terms \cup Titles
    /\ Absent \notin Names \cup Teams \cup Numbers \cup Terms \cup Fields \cup Rules \cup {NotSet}
    /\ NewRecord \notin Cards \cup Groups
    /\ LoadedRules \in [Groups -> Rules]
    /\ \A fs \in Loaded :
           /\ fs \in [Cards -> Fields] /\ NumbersDiffer(Made(fs), fs)
           /\ \A c \in Cards : /\ fs[c] = BlankCard \/ ~Unlisted(fs[c])
                               /\ \A l \in fs[c].levels : LoadedRules[l].title # NotSet

\* The dialogs.
EmptyForm == [oid |-> NewRecord, name |-> NotSet, team |-> Ungrouped, number |-> NotSet, term |-> NotSet, levels |-> {}]
EmptySheet == [oid |-> NewRecord, oids |-> {}, name |-> NotSet, team |-> Ungrouped, from |-> Ungrouped,
               levels |-> {}, mode |-> "add", rule |-> BlankRule, return |-> FALSE]

\* A request names for each credential the fields to set, the levels to add and to drop.
NoPatch == [name |-> Absent, team |-> Absent, number |-> Absent, term |-> Absent, add |-> {}, drop |-> {}]
Unpatched == [c \in Cards |-> NoPatch]

NoJob == [at |-> "idle", kind |-> "none", oid |-> NewRecord, was |-> Absent, want |-> EmptySheet,
          patch |-> Unpatched, rule |-> BlankRule, raced |-> FALSE]

-----------------------------------------------------------------------------
(* The server: a request is validated and applied as a whole, under sys.Lock. *)

\* A credential without a name and a number, and a level without a name, are not sent.
ShownCards == [c \in Cards |->
    IF cards[c] = "gone" \/ (cards[c] = "live" /\ Unlisted(held[c])) THEN "none" ELSE cards[c]]
ShownGroups == [l \in Groups |-> IF groups[l] = "live" /\ rules[l].title = NotSet THEN "none" ELSE groups[l]]

\* What /api/v1/snapshot answers: of a deleted record nothing but that it is deleted.
Listing == [cards |-> ShownCards,
            held |-> [c \in Cards |-> IF ShownCards[c] = "live" THEN held[c] ELSE BlankCard],
            groups |-> ShownGroups,
            rules |-> [l \in Groups |-> IF ShownGroups[l] = "live" THEN rules[l] ELSE BlankRule]]

\* Groups.Validate: live levels have different names.
TitlesDiffer(st, rs) ==
    \A a, b \in {l \in Groups : st[l] = "live"} :
        rs[a].title = rs[b].title /\ rs[a].title # NotSet => a = b

Given(new, old) == IF new = Absent THEN old ELSE new

FieldsWith(f, p) ==
    Credential(Given(p.name, f.name), Given(p.team, f.team), Given(p.number, f.number), Given(p.term, f.term),
           (f.levels \cup p.add) \ p.drop)

\* Card.set refuses a deleted credential and a level that is not in the catalogue; a
\* credential that is not in the list is passed over.
PatchedCards(ps) == [c \in Cards |-> IF cards[c] = "live" THEN FieldsWith(held[c], ps[c]) ELSE held[c]]

CanPatch(ps) ==
    /\ \A c \in Cards : ps[c] # NoPatch =>
           /\ cards[c] # "deleted"
           /\ cards[c] = "live" => \A l \in ps[c].add \cup ps[c].drop : groups[l] = "live"
    /\ NumbersDiffer(cards, PatchedCards(ps))

UpdateCards(ps) ==
    /\ CanPatch(ps)
    /\ held' = PatchedCards(ps)
    /\ told' = (told /\ held' = held)
    /\ UNCHANGED <<cards, groups, rules>>

CreateCard(c) ==
    /\ cards[c] = "none"
    /\ cards' = [cards EXCEPT ![c] = "live"]
    /\ UNCHANGED <<held, groups, rules, told>>

DeleteCard(c) ==
    /\ cards' = IF cards[c] = "live" THEN [cards EXCEPT ![c] = "deleted"] ELSE cards
    /\ told' = (told /\ cards' = cards)
    /\ UNCHANGED <<held, groups, rules>>

\* What was found on a controller, and never edited.
OnlyFound(f) == f = Credential(NotSet, Ungrouped, f.number, NotSet, {})

\* Cards.Found: it is dropped, and found again.
Reissue(c, d) ==
    /\ cards[c] = "live" /\ cards[d] = "none"
    /\ OnlyFound(held[c])
    /\ cards' = [cards EXCEPT ![c] = "gone", ![d] = "live"]
    /\ held' = [held EXCEPT ![c] = BlankCard, ![d] = held[c]]
    /\ UNCHANGED <<groups, rules, told>>

CreateGroup(l) ==
    /\ groups[l] = "none"
    /\ groups' = [groups EXCEPT ![l] = "live"]
    /\ UNCHANGED <<cards, held, rules, told>>

CanUpdateGroup(l, r) ==
    /\ l # NoAccess /\ groups[l] # "deleted"
    /\ TitlesDiffer(groups, [rules EXCEPT ![l] = r])

UpdateGroup(l, r) ==
    /\ CanUpdateGroup(l, r)
    /\ rules' = IF groups[l] = "live" THEN [rules EXCEPT ![l] = r] ELSE rules
    /\ told' = (told /\ rules' = rules)
    /\ UNCHANGED <<cards, held, groups>>

DeleteGroup(l) ==
    /\ l # NoAccess
    /\ groups' = IF groups[l] = "live" THEN [groups EXCEPT ![l] = "deleted"] ELSE groups
    /\ told' = (told /\ groups' = groups)
    /\ UNCHANGED <<cards, held, rules>>

\* /synchronize/ACL
SynchronizeACL == told' = TRUE /\ UNCHANGED <<cards, held, groups, rules>>

-----------------------------------------------------------------------------
(* The copy. *)

People == {c \in Cards : cardsView.cards[c] = "live"}
Offered == {l \in Groups : cardsView.groups[l] = "live"}
Known(c) == c \in Cards /\ cardsView.cards[c] # "none"

\* managementGroups()
ManagementGroups == {cardsView.held[c].team : c \in People} \ {Ungrouped}

\* existingPerson(): the first credential of that name, by OID (here any of them).
Namesakes(name, but) == {c \in People \ but : name # NotSet /\ cardsView.held[c].name = name}

\* The fields of a credential that a request has to set, when it had those of the second.
Unknown == Credential(Absent, Absent, Absent, Absent, {})

Differing(value, had) == IF value = had THEN Absent ELSE value

\* The request for several credentials.
Only(cs, Patch(_)) == [c \in Cards |-> IF c \in cs THEN Patch(c) ELSE NoPatch]

\* load(): a call while another is in flight returns at once.
StartCardsLoad == cardsLoad' = IF cardsLoad.at = "idle" THEN [at |-> "sent", view |-> cardsView] ELSE cardsLoad

PollCards ==
    /\ cardsLoad.at = "idle"
    /\ StartCardsLoad
    /\ UNCHANGED <<cardServer, cardsView, dialog, cardForm, sheet, job, cardEvents>>

ReadCards ==
    /\ cardsLoad.at = "sent"
    /\ cardsLoad' = [at |-> "read", view |-> Listing]
    /\ UNCHANGED <<cardServer, cardsView, dialog, cardForm, sheet, job, cardEvents>>

CardsArrive ==
    /\ cardsLoad.at = "read"
    /\ cardsView' = cardsLoad.view
    /\ cardsLoad' = [at |-> "idle", view |-> cardsLoad.view]
    /\ UNCHANGED <<cardServer, dialog, cardForm, sheet, job, cardEvents>>

CardsLoadFails ==
    /\ cardsLoad.at # "idle" /\ cardEvents < MaxCardEvents
    /\ cardEvents' = cardEvents + 1
    /\ cardsLoad' = [at |-> "idle", view |-> cardsView]
    /\ UNCHANGED <<cardServer, cardsView, dialog, cardForm, sheet, job>>

-----------------------------------------------------------------------------
(* The dialogs.  What the user fills in is chosen when a dialog is opened. *)

CardEvent == cardEvents < MaxCardEvents /\ cardEvents' = cardEvents + 1 /\ UNCHANGED <<cardServer, cardsView, cardsLoad>>

\* A handler that has not read its dialog for the last time reads what is there by then.
Raced == IF job.at = "idle" THEN job ELSE [job EXCEPT !.raced = TRUE]

\* enforceExclusiveNoAccess
Toggled(ls, l) ==
    IF l \in ls THEN ls \ {l} ELSE IF l = NoAccess THEN {l} ELSE (ls \cup {l}) \ {NoAccess}

\* A bug: a person there is already is not looked for.
TeamsGiven(name, but, team) == {team}

\* useExistingPersonGroup: the management group of a person there is.
TeamsFor(name, but, team) ==
    IF Namesakes(name, but) = {} THEN {team} ELSE {cardsView.held[c].team : c \in Namesakes(name, but)}

\* renderCardGroups: the levels there are can be ticked.
Ticked(f) == Credential(f.name, f.team, f.number, f.term, f.levels \cap Offered)

\* What the user makes of the dialog of a credential: one field is changed, or all that are
\* still blank are filled in.
Edits(but, f) ==
    IF f.name = NotSet
    THEN {g \in [name : Names, team : Teams, number : IF f.number = NotSet THEN Numbers ELSE {f.number},
                 term : Terms, levels : {{l} : l \in Offered}] : g.team \in TeamsFor(g.name, but, f.team)}
    ELSE (UNION {{Credential(n, t, f.number, f.term, f.levels) : t \in TeamsFor(n, but, f.team)} : n \in Names})
             \cup {Credential(f.name, t, f.number, f.term, f.levels) : t \in Teams}
             \cup {Credential(f.name, f.team, i, f.term, f.levels) : i \in Numbers}
             \cup {Credential(f.name, f.team, f.number, x, f.levels) : x \in Terms}
             \cup {Credential(f.name, f.team, f.number, f.term, Toggled(f.levels, l)) : l \in Offered}

CardFormOf(oid, f) ==
    [oid |-> oid, name |-> f.name, team |-> f.team, number |-> f.number, term |-> f.term, levels |-> f.levels]

EditCard ==
    /\ dialog = {} /\ dialog' = {"card"}
    /\ \/ \E c \in People : \E f \in Edits({c}, Ticked(cardsView.held[c])) : cardForm' = CardFormOf(c, f)
       \/ \E f \in Edits({}, BlankCard) : cardForm' = CardFormOf(NewRecord, f)
    /\ job' = Raced
    /\ CardEvent /\ UNCHANGED sheet

\* A change after that, to a dialog whose handler is at work or has failed.
FillCardForm ==
    /\ dialog = {"card"}
    /\ \E f \in Edits({cardForm.oid}, cardForm) : cardForm' = CardFormOf(cardForm.oid, f)
    /\ cardForm' # cardForm
    /\ job' = Raced
    /\ CardEvent /\ UNCHANGED <<dialog, sheet>>

\* The tree shows those credentials of a person, and of a management group, that match the
\* search: its buttons are for some of them.
EditPerson ==
    /\ \E p \in People, n \in Names, t \in Teams : \E cs \in SUBSET Namesakes(cardsView.held[p].name, {}) :
           cs # {} /\ sheet' = [EmptySheet EXCEPT !.oids = cs, !.name = n, !.team = t]
    /\ dialog = {} /\ dialog' = {"person"}
    /\ job' = Raced
    /\ CardEvent /\ UNCHANGED cardForm

ManageAccess ==
    /\ \E cs \in (SUBSET People) \ {{}}, ls \in SUBSET Offered, m \in {"add", "remove", "replace"} :
           /\ m = "replace" \/ ls # {}
           /\ sheet' = [EmptySheet EXCEPT !.oids = cs, !.levels = ls, !.mode = m]
    /\ dialog = {} /\ dialog' = {"bulk"}
    /\ job' = Raced
    /\ CardEvent /\ UNCHANGED cardForm

ManageTeams ==
    /\ \E old \in ManagementGroups : \E new \in Teams \ {old} :
           sheet' = [EmptySheet EXCEPT !.from = old, !.team = new]
    /\ dialog = {} /\ dialog' = {"team"}
    /\ job' = Raced
    /\ CardEvent /\ UNCHANGED cardForm

\* A bug: the dialog of an access level opens over any other.
EditGroupAnywhere ==
    /\ sheet' = [EmptySheet EXCEPT !.rule = [title |-> CHOOSE n \in Titles : TRUE, opens |-> TRUE]]
    /\ dialog' = dialog \cup {"level"}
    /\ job' = Raced
    /\ CardEvent /\ UNCHANGED cardForm

\* From the page of access levels, and from the dialog of a credential.
EditGroup ==
    /\ \E n \in Titles, b \in BOOLEAN :
           \/ dialog = {} /\ \E l \in (Offered \ {NoAccess}) \cup {NewRecord} :
                  sheet' = [EmptySheet EXCEPT !.oid = l, !.rule = [title |-> n, opens |-> b]]
           \/ /\ dialog = {"card"}
              /\ sheet' = [EmptySheet EXCEPT !.rule = [title |-> n, opens |-> b], !.levels = cardForm.levels, !.return = TRUE]
    /\ dialog' = dialog \cup {"level"}
    /\ job' = Raced
    /\ CardEvent /\ UNCHANGED cardForm

\* What is left of a form that is closed: what a handler may still read of it.
Left(f) == IF job.at \in {"find", "create"} THEN f ELSE EmptyForm
LeftOf(s) == IF job.kind = "level" THEN s ELSE EmptySheet

\* Cancel, the close button or Escape
CloseDialog ==
    /\ dialog # {}
    /\ \E top \in dialog :
           /\ "level" \in dialog => top = "level"
           /\ dialog' = dialog \ {top}
           /\ IF top = "card" THEN cardForm' = Left(cardForm) /\ UNCHANGED sheet
                              ELSE sheet' = LeftOf(sheet) /\ UNCHANGED cardForm
    /\ UNCHANGED <<cardServer, cardsView, cardsLoad, job, cardEvents>>

-----------------------------------------------------------------------------
(* The handlers: the steps they have in common. *)

Edited(v) == {<<c, v.held[c]>> : c \in {d \in Cards : v.cards[d] = "live" /\ ~OnlyFound(v.held[d])}}
Discovered(v) == {v.held[c] : c \in {d \in Cards : v.cards[d] = "live" /\ OnlyFound(v.held[d])}}

\* The copy is up to date but for the OIDs of credentials that were found again.
SameRecords ==
    /\ Edited(cardsView) = Edited(Listing) /\ Discovered(cardsView) = Discovered(Listing)
    /\ cardsView.groups = ShownGroups /\ cardsView.rules = Listing.rules

\* An older answer with other levels is still to come.
OlderLoad == cardsLoad.at = "read" /\ cardsLoad.view.groups # cardsView.groups

Job(kind, at, was, want) ==
    [at |-> at, kind |-> kind, oid |-> want.oid, was |-> was, want |-> want, patch |-> Unpatched, rule |-> BlankRule,
     raced |-> IF kind = "card" THEN ~SameRecords \/ OlderLoad ELSE cardsView # Listing]

\* The dialog that a handler closes at its end.
DialogOf(h) == CASE h.kind \in {"card", "erase"} -> "card" [] h.kind \in {"level", "drop"} -> "level"
                 [] OTHER -> h.kind

\* The last step is load(), for which the handler waits (or not, when one is in flight).
Goes(h) ==
    IF h.at = "reload"
    THEN /\ job' = h
         /\ dialog' = IF h.kind = "team" THEN dialog ELSE dialog \ {DialogOf(h)}
         /\ cardForm' = IF "card" \in dialog' THEN cardForm ELSE EmptyForm
         /\ sheet' = IF dialog' \subseteq {"card"} THEN EmptySheet ELSE sheet
         /\ StartCardsLoad
    ELSE job' = h /\ UNCHANGED <<dialog, cardForm, sheet, cardsLoad>>

\* Nothing to change: no request.
Sends(h, ps) ==
    [h EXCEPT !.patch = ps,
              !.at = IF ps # Unpatched THEN "update" ELSE IF h.kind = "drop" THEN "eraselevel" ELSE "reload"]

AfterUpdate(h) ==
    [h EXCEPT !.at = IF h.kind \in {"card", "bulk"} THEN "rules" ELSE IF h.kind = "drop" THEN "eraselevel" ELSE "reload"]

\* The request a handler sends, when the server accepts it.
JobRequest(h) ==
    \/ h.at = "find" /\ UNCHANGED cardServer
    \/ h.at = "create" /\ \E c \in Cards : CreateCard(c)
    \/ h.at = "update" /\ UpdateCards(h.patch)
    \/ h.at = "erase" /\ DeleteCard(h.oid)
    \/ h.at = "createlevel" /\ \E l \in Groups : CreateGroup(l)
    \/ h.at = "updatelevel" /\ UpdateGroup(h.oid, h.rule)
    \/ h.at = "eraselevel" /\ DeleteGroup(h.oid)
    \/ h.at = "rules" /\ SynchronizeACL
    \/ h.at = "levels" /\ UNCHANGED cardServer

\* currentCardOID: where the number is now.
Found(h) == {c \in Cards : ShownCards[c] = "live" /\ held[c].number = h.was.number}

JobRefused(h) ==
    /\ \/ h.at = "find" /\ Found(h) = {}    \* for four attempts
       \/ h.at = "update" /\ ~CanPatch(h.patch)
       \/ h.at = "updatelevel" /\ ~CanUpdateGroup(h.oid, h.rule)
       \/ h.at = "update" /\ h.kind = "card" /\ cards[h.oid] \notin {"live", "deleted"}
    /\ UNCHANGED <<cardServer, cardEvents>>

JobLost(h) ==
    /\ cardEvents < MaxCardEvents /\ cardEvents' = cardEvents + 1
    /\ UNCHANGED cardServer \/ JobRequest(h)

Working == job.at \notin {"idle", "reload"}

\* The catch and the finally of a handler: its dialog stays.
JobFails ==
    /\ Working
    /\ JobRefused(job) \/ JobLost(job)
    /\ job' = NoJob
    /\ cardForm' = IF "card" \in dialog THEN cardForm ELSE EmptyForm
    /\ sheet' = IF dialog \subseteq {"card"} THEN EmptySheet ELSE sheet
    /\ UNCHANGED <<cardsView, cardsLoad, dialog>>

Reloaded ==
    /\ job.at = "reload" /\ cardsLoad.at = "idle"
    /\ job' = NoJob
    /\ UNCHANGED <<cardServer, cardsView, cardsLoad, dialog, cardForm, sheet, cardEvents>>

UpdateServed ==
    /\ job.at = "update" /\ UpdateCards(job.patch)
    /\ job.kind = "card" => cards[job.oid] = "live"    \* or the answer is empty
    /\ Goes(AfterUpdate(job))
    /\ UNCHANGED <<cardsView, cardEvents>>

RulesServed ==
    /\ job.at = "rules" /\ SynchronizeACL
    /\ Goes([job EXCEPT !.at = IF job.kind = "level" THEN "levels" ELSE "reload"])
    /\ UNCHANGED <<cardsView, cardEvents>>

-----------------------------------------------------------------------------
(* saveCard and deleteCard *)

\* The type, the PIN and the dates are read from the dialog as it is by now.
CardChanges(h, c) ==
    LET was == IF h.was = Absent THEN Unknown ELSE h.was
        patch(d) == [name |-> Differing(h.want.name, was.name), team |-> Differing(h.want.team, was.team),
                     number |-> Differing(h.want.number, was.number), term |-> Differing(cardForm.term, was.term),
                     add |-> (h.want.levels \cap Offered) \ was.levels,
                     drop |-> (was.levels \cap Offered) \ h.want.levels]
    IN  Sends([h EXCEPT !.oid = c], Only({c}, patch))

Proper(ls) == ls # {} /\ (NoAccess \in ls => ls = {NoAccess})

SaveCardClicked ==
    /\ job.at = "idle" /\ dialog = {"card"}
    /\ NotSet \notin {cardForm.name, cardForm.number, cardForm.term}
    /\ cardForm.oid = NewRecord => \E c \in Cards : cards[c] = "none"
    /\ \E t \in TeamsFor(cardForm.name, {cardForm.oid}, cardForm.team) :
           LET want == [cardForm EXCEPT !.team = t]
               was == IF Known(cardForm.oid) THEN cardsView.held[cardForm.oid] ELSE Absent
           IN  IF /\ Proper(cardForm.levels)
                  /\ \A c \in People \ {cardForm.oid} : cardsView.held[c].number # cardForm.number
               THEN Goes(IF cardForm.oid = NewRecord THEN Job("card", "create", Absent, want)
                         ELSE IF was # Absent /\ was.number # NotSet THEN Job("card", "find", was, want)
                         ELSE CardChanges(Job("card", "update", was, want), cardForm.oid))
               ELSE cardForm' = want /\ UNCHANGED <<job, dialog, sheet, cardsLoad>>
    /\ UNCHANGED <<cardServer, cardsView, cardEvents>>

CardFound ==
    /\ job.at = "find"
    /\ \E c \in Found(job) : Goes(CardChanges(job, c))
    /\ UNCHANGED <<cardServer, cardsView, cardEvents>>

CardCreated ==
    /\ job.at = "create"
    /\ \E c \in Cards : CreateCard(c) /\ Goes(CardChanges(job, c))
    /\ UNCHANGED <<cardsView, cardEvents>>

DeleteCardClicked ==
    /\ job.at = "idle" /\ dialog = {"card"} /\ Known(cardForm.oid)
    /\ job' = Job("erase", "erase", Absent, cardForm)
    /\ UNCHANGED <<cardServer, cardsView, cardsLoad, dialog, cardForm, sheet, cardEvents>>

CardErased ==
    /\ job.at = "erase" /\ DeleteCard(job.oid)
    /\ job' = [job EXCEPT !.at = "rules"]
    /\ UNCHANGED <<cardsView, cardsLoad, dialog, cardForm, sheet, cardEvents>>

-----------------------------------------------------------------------------
(* saveBulkCredentialAccess, savePerson, renameManagementGroup and removeManagementGroup *)

\* What a credential is to have, of the levels the copy has.
After(had, s) ==
    CASE s.mode = "replace" -> s.levels [] s.mode = "remove" -> had \ s.levels [] OTHER -> had \cup s.levels

BulkPatch(c) ==
    LET had == cardsView.held[c].levels
        next == After(had, sheet)
    IN  [NoPatch EXCEPT !.add = (next \ had) \cap Offered, !.drop = (had \ next) \cap Offered]

SaveBulkClicked ==
    /\ job.at = "idle" /\ dialog = {"bulk"}
    /\ LET cs == {c \in sheet.oids : Known(c)}
           ps == Only(cs, BulkPatch)
       IN  /\ cs # {}
           /\ IF ps = Unpatched
              THEN dialog' = {} /\ sheet' = EmptySheet /\ UNCHANGED <<job, cardForm, cardsLoad>>
              ELSE Goes(Sends(Job("bulk", "update", Absent, sheet), ps))
    /\ UNCHANGED <<cardServer, cardsView, cardEvents>>

SavePersonClicked ==
    /\ job.at = "idle" /\ dialog = {"person"}
    /\ LET cs == {c \in sheet.oids : Known(c)} IN
       /\ cs # {}
       /\ \E t \in TeamsFor(sheet.name, sheet.oids, sheet.team) :
              LET patch(c) == [NoPatch EXCEPT !.name = Differing(sheet.name, cardsView.held[c].name),
                                              !.team = Differing(t, cardsView.held[c].team)]
              IN  Goes(Sends(Job("person", "update", Absent, [sheet EXCEPT !.team = t]), Only(cs, patch)))
    /\ UNCHANGED <<cardServer, cardsView, cardEvents>>

SaveTeamClicked ==
    /\ job.at = "idle" /\ dialog = {"team"}
    /\ LET cs == {c \in People : cardsView.held[c].team = sheet.from}
           patch(c) == [NoPatch EXCEPT !.team = sheet.team]
       IN  cs # {} /\ Goes(Sends(Job("team", "update", Absent, sheet), Only(cs, patch)))
    /\ UNCHANGED <<cardServer, cardsView, cardEvents>>

-----------------------------------------------------------------------------
(* saveGroup and deleteGroup *)

\* The relays are read from the dialog as it is by now, the name was read at the click.
GroupChanges(h, l) ==
    LET r == [title |-> h.want.rule.title, opens |-> sheet.rule.opens] IN
    [h EXCEPT !.oid = l, !.rule = r, !.at = IF r = h.was THEN "levels" ELSE "updatelevel"]

SaveGroupClicked ==
    /\ job.at = "idle" /\ "level" \in dialog
    /\ sheet.oid = NewRecord => \E l \in Groups : groups[l] = "none"
    /\ \A l \in Offered \ {sheet.oid} : cardsView.rules[l].title # sheet.rule.title
    /\ LET was == IF sheet.oid # NewRecord /\ cardsView.groups[sheet.oid] # "none" THEN cardsView.rules[sheet.oid] ELSE Absent
       IN  job' = IF sheet.oid = NewRecord THEN Job("level", "createlevel", Absent, sheet)
                  ELSE GroupChanges(Job("level", "updatelevel", was, sheet), sheet.oid)
    /\ UNCHANGED <<cardServer, cardsView, cardsLoad, dialog, cardForm, sheet, cardEvents>>

GroupServed ==
    /\ \/ job.at = "createlevel" /\ \E l \in Groups : CreateGroup(l) /\ job' = GroupChanges(job, l)
       \/ job.at = "updatelevel" /\ UpdateGroup(job.oid, job.rule) /\ job' = [job EXCEPT !.at = "rules"]
    /\ UNCHANGED <<cardsView, cardsLoad, dialog, cardForm, sheet, cardEvents>>

\* refreshGroupData: the levels of the copy are new, the rest of it is not.  The dialog of a
\* credential gets back what was selected in it, as far as it is still there, and the new level.
GroupsRefreshed ==
    /\ job.at = "levels"
    /\ cardsView' = [cardsView EXCEPT !.groups = ShownGroups, !.rules = Listing.rules]
    /\ dialog' = dialog \ {"level"}
    /\ cardForm' = IF sheet.return /\ "card" \in dialog
                   THEN [cardForm EXCEPT !.levels = {l \in sheet.levels \cup {job.oid} : ShownGroups[l] = "live"}]
                   ELSE IF "card" \in dialog THEN cardForm ELSE EmptyForm
    /\ sheet' = IF dialog' \subseteq {"card"} THEN EmptySheet ELSE sheet
    /\ job' = NoJob
    /\ UNCHANGED <<cardServer, cardsLoad, cardEvents>>

DeleteGroupClicked ==
    /\ job.at = "idle" /\ "level" \in dialog
    /\ sheet.oid # NewRecord /\ cardsView.groups[sheet.oid] # "none"
    /\ LET cs == {c \in People : sheet.oid \in cardsView.held[c].levels}
           patch(c) == [NoPatch EXCEPT !.drop = {sheet.oid}]
       IN  Goes(Sends(Job("drop", "update", Absent, sheet), Only(cs, patch)))
    /\ UNCHANGED <<cardServer, cardsView, cardEvents>>

GroupErased ==
    /\ job.at = "eraselevel" /\ DeleteGroup(job.oid)
    /\ job' = [job EXCEPT !.at = "rules"]
    /\ UNCHANGED <<cardsView, cardsLoad, dialog, cardForm, sheet, cardEvents>>

-----------------------------------------------------------------------------
(* Another client, which edits what is there, and the server when it compares: the second is *)
(* no conflict.                                                                               *)

EditedElsewhere(c, p) == LET patch(d) == p IN UpdateCards(Only({c}, patch))

CardsElsewhere ==
    /\ cardEvents < MaxCardEvents /\ cardEvents' = cardEvents + 1
    /\ \/ \E c \in Cards : ShownCards[c] = "live" /\
              \/ DeleteCard(c)
              \/ \E n \in Names : EditedElsewhere(c, [NoPatch EXCEPT !.name = n])
              \/ \E t \in Teams : EditedElsewhere(c, [NoPatch EXCEPT !.team = t])
              \/ \E i \in Numbers : EditedElsewhere(c, [NoPatch EXCEPT !.number = i])
              \/ \E l \in Groups : /\ ShownGroups[l] = "live"
                                   /\ \/ EditedElsewhere(c, [NoPatch EXCEPT !.add = {l}])
                                      \/ EditedElsewhere(c, [NoPatch EXCEPT !.drop = {l}])
       \/ \E l \in Groups : DeleteGroup(l)
    /\ cardServer' # cardServer
    /\ job' = Raced
    /\ UNCHANGED <<cardsView, cardsLoad, dialog, cardForm, sheet>>

Rediscovered ==
    /\ cardEvents < MaxCardEvents /\ cardEvents' = cardEvents + 1
    /\ \E c, d \in Cards : Reissue(c, d)
    /\ job.at = "create" => \E d \in Cards : cards'[d] = "none"
    /\ job' = IF job.kind = "card" THEN job ELSE Raced
    /\ UNCHANGED <<cardsView, cardsLoad, dialog, cardForm, sheet>>

CardsInit ==
    /\ held \in Loaded
    /\ cards = Made(held)
    /\ rules = LoadedRules
    /\ groups = [l \in Groups |-> IF rules[l] = BlankRule THEN "none" ELSE "live"]
    /\ told = TRUE
    /\ cardsView = Listing /\ cardsLoad = [at |-> "idle", view |-> cardsView]
    /\ dialog = {} /\ cardForm = EmptyForm /\ sheet = EmptySheet
    /\ job = NoJob
    /\ cardEvents = 0

CardDialogs == EditCard \/ FillCardForm \/ EditPerson \/ ManageAccess \/ ManageTeams \/ EditGroup \/ CloseDialog

CardClicks == \/ SaveCardClicked \/ DeleteCardClicked \/ SaveBulkClicked \/ SavePersonClicked
              \/ SaveTeamClicked \/ SaveGroupClicked \/ DeleteGroupClicked

CardAnswers == \/ CardFound \/ CardCreated \/ CardErased \/ UpdateServed \/ RulesServed
               \/ GroupServed \/ GroupsRefreshed \/ GroupErased \/ JobFails \/ Reloaded

CardsNext == \/ PollCards \/ ReadCards \/ CardsArrive \/ CardsLoadFails
             \/ CardDialogs \/ CardClicks \/ CardAnswers \/ CardsElsewhere \/ Rediscovered

CardsSpec == CardsInit /\ [][CardsNext]_cardVars

-----------------------------------------------------------------------------
Forms == [oid : Cards \cup {NewRecord}, name : Names \cup {NotSet}, team : Teams, number : Numbers \cup {NotSet},
          term : Terms \cup {NotSet}, levels : SUBSET Groups]
Sheets == [oid : Groups \cup {NewRecord}, oids : SUBSET Cards, name : Names \cup {NotSet}, team : Teams, from : Teams,
           levels : SUBSET Groups, mode : {"add", "remove", "replace"}, rule : Rules, return : BOOLEAN]
Views == [cards : [Cards -> {"none", "live", "deleted"}], held : [Cards -> Fields],
          groups : [Groups -> {"none", "live", "deleted"}], rules : [Groups -> Rules]]
Patches == [name : Names \cup {Absent}, team : Teams \cup {Absent}, number : Numbers \cup {Absent},
            term : Terms \cup {NotSet, Absent}, add : SUBSET Groups, drop : SUBSET Groups]

JobTypeOK ==
    /\ job.at \in {"idle", "find", "create", "update", "erase", "createlevel", "updatelevel", "eraselevel",
                   "rules", "levels", "reload"}
    /\ job.kind \in {"none", "card", "erase", "bulk", "person", "team", "level", "drop"}
    /\ job.at = "idle" <=> job.kind = "none"
    /\ job.oid \in Cards \cup Groups \cup {NewRecord}
    /\ job.was \in Fields \cup Rules \cup {Absent} /\ job.want \in Forms \cup Sheets
    /\ job.patch \in [Cards -> Patches] /\ job.rule \in Rules /\ job.raced \in BOOLEAN

CardsTypeOK ==
    /\ cards \in [Cards -> {"none", "live", "deleted", "gone"}] /\ held \in [Cards -> Fields]
    /\ groups \in [Groups -> {"none", "live", "deleted"}] /\ rules \in [Groups -> Rules]
    /\ told \in BOOLEAN
    /\ cardsView \in Views /\ cardsLoad \in [at : {"idle", "sent", "read"}, view : Views]
    /\ dialog \in (SUBSET {"card", "level"}) \cup {{"person"}, {"bulk"}, {"team"}}
    /\ cardForm \in Forms /\ sheet \in Sheets
    /\ JobTypeOK
    /\ cardEvents \in 0..MaxCardEvents

Live == {c \in Cards : cards[c] = "live"}
LiveGroups == {l \in Groups : groups[l] = "live"}

\* A handler reports success when it comes to its load(), and saveGroup when it has the levels.
Reports(kind) == job.at # "reload" /\ job'.at = "reload" /\ job'.kind = kind /\ ~job'.raced

\* The levels of a credential that there are.
SameLevels(a, b) == a \cap LiveGroups = b \cap LiveGroups

\* What is reported is done: when no other client wrote and no other dialog was opened between
\* the click and the report, and no older answer came in between, the records are as the dialog
\* showed them, under whatever OID the credential has by now, and the controllers were told.
CardsReported ==
    LET h == job'
        want == h.want
        there == want.oids \cap Live
    IN
    /\ Reports("card") =>
         /\ h.oid \in Live
         /\ held[h.oid].name = want.name /\ held[h.oid].number = want.number
         /\ held[h.oid].team = want.team /\ held[h.oid].term = want.term
         /\ SameLevels(held[h.oid].levels, want.levels)
         /\ h.patch # Unpatched => told'
    /\ Reports("erase") => want.oid \notin Live /\ told'
    /\ Reports("person") => \A c \in there : held'[c].name = want.name /\ held'[c].team = want.team
    /\ Reports("team") => \A c \in Live : held'[c].team # want.from
    /\ Reports("bulk") =>
         /\ told'
         /\ \A c \in there :
                /\ want.mode = "add" => want.levels \cap LiveGroups \subseteq held[c].levels
                /\ want.mode = "remove" => want.levels \cap held[c].levels \cap LiveGroups = {}
                /\ want.mode = "replace" => SameLevels(held[c].levels, want.levels)
    /\ Reports("drop") =>
         /\ groups[want.oid] # "live" /\ \A c \in Live : want.oid \notin held[c].levels
         /\ told'
    /\ GroupsRefreshed /\ ~job.raced =>
         /\ groups[job.oid] = "live" /\ rules[job.oid] = job.want.rule
         /\ job.want.rule # job.was => told
         /\ job.want.return /\ "card" \in dialog' => SameLevels(cardForm'.levels, job.want.levels \cup {job.oid})

\* README: 'Exact full names are consolidated under one person': of one person, all
\* credentials are in one management group, and no handler takes them apart.
OnePersonOneTeam(fs) ==
    \A c, d \in Live : fs[c].name = fs[d].name /\ fs[c].name # NotSet => fs[c].team = fs[d].team

Consolidates ==
    UpdateServed /\ ~job.raced /\ OnePersonOneTeam(held) => OnePersonOneTeam(held')

\* What the handlers of the credentials and of the access levels report as saved, assigned or
\* deleted is what the dialog showed at the click, and the credentials of one person stay in one
\* management group.
CardsAsSubmitted == [][CardsReported /\ Consolidates]_cardVars

=============================================================================
