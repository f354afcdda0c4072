------------------------------ MODULE LevelForm ------------------------------
(***************************************************************************)
(* The schedule and the relays in the dialog of an access level: what the  *)
(* dialog shows of a stored level, what it posts, what the server makes of *)
(* it (system/groups/group.go) and what the snapshot lists of it again.    *)
(***************************************************************************)
EXTENDS Naturals

CONSTANTS
    Levels,     \* numbers of access levels
    Slots,      \* those that have a time profile on the controllers
    Relays,
    Days,
    Weekend,    \* the days a new level does not have
    Times,      \* what may be typed as a start and an end, numbers
    Start, End, \* 08:00 and 17:00
    NoTime,
    None,       \* no level
    MaxEdits    \* how often, together, the dialog is opened or changed, another client
                \* edits and a request fails

VARIABLES
    level,      \* the server's levels
    listed,     \* DB.groups
    form,       \* the fields of the dialog, and its level
    saving,     \* the saveGroup() in flight
    reported,   \* what was saved last, until somebody changes the level again (history)
    edits       \* counted, for the bound

levelVars == <<level, listed, form, saving, reported, edits>>

Schedules == [enabled : BOOLEAN, start : Times \cup {NoTime}, end : Times \cup {NoTime}, days : SUBSET Days]

\* A level of which no schedule is stored, and what DB makes of one.
Unset == [enabled |-> FALSE, start |-> NoTime, end |-> NoTime, days |-> {}]
Default == [enabled |-> FALSE, start |-> Start, end |-> End, days |-> {}]

\* A level that was created and has no name yet.
Nameless == [named |-> FALSE, schedule |-> Unset, relays |-> {}]

ASSUME LevelAssumption ==
    /\ Times \subseteq Nat /\ Start \in Times /\ End \in Times /\ NoTime \notin Times
    /\ MaxEdits \in Nat
    /\ None \notin Levels \cup [named : BOOLEAN, schedule : Schedules, relays : SUBSET Relays]

Definitions == {None, Nameless} \cup [named : {TRUE}, schedule : Schedules, relays : SUBSET Relays]

-----------------------------------------------------------------------------
(* What of a level is listed, shown and posted. *)

\* A bug: a schedule is listed for the controllers that apply it.
ListedWhenEnabled(g) == [relays |-> g.relays, schedule |-> IF g.schedule.enabled THEN g.schedule ELSE Default]

\* AsObjects and DB: a schedule that is not listed is shown as the default.
Listed(g) == [relays |-> g.relays, schedule |-> IF g.schedule # Unset THEN g.schedule ELSE Default]

Snapshot == [l \in {k \in Levels : level[k] # None /\ level[k].named} |-> Listed(level[l])]

OrElse(time, otherwise) == IF time = NoTime THEN otherwise ELSE time

\* renderGroupSchedule(), with groupAllowsDoor()
Shown(g) ==
    [relays |-> g.relays,
     schedule |-> [g.schedule EXCEPT !.start = OrElse(@, Start), !.end = OrElse(@, End)]]

ShownNew == [relays |-> {}, schedule |-> [Default EXCEPT !.days = Days \ Weekend]]

\* selectedGroupSchedule()
Selected(s) == [s EXCEPT !.start = OrElse(@, Start), !.end = OrElse(@, End)]

\* A schedule that is not enabled is not looked at.
Accepted(s) == s.enabled => s.days # {} /\ s.start < s.end

-----------------------------------------------------------------------------
Count == edits < MaxEdits /\ edits' = edits + 1

\* editGroup()
Edit ==
    /\ ~form.open /\ Count
    /\ \/ \E l \in DOMAIN listed : form' = [open |-> TRUE, level |-> l, fields |-> Shown(listed[l])]
       \/ form' = [open |-> TRUE, level |-> None, fields |-> ShownNew]
    /\ UNCHANGED <<level, listed, saving, reported>>

\* The times and the days can be changed while the schedule is enabled.
Change ==
    /\ form.open /\ Count
    /\ LET s == form.fields.schedule
           schedule(t) == form' = [form EXCEPT !.fields.schedule = t]
       IN  \/ schedule([s EXCEPT !.enabled = ~@])
           \/ s.enabled /\ \E t \in Times \cup {NoTime} : schedule([s EXCEPT !.start = t]) \/ schedule([s EXCEPT !.end = t])
           \/ s.enabled /\ \E d \in Days : schedule([s EXCEPT !.days = (@ \ {d}) \cup ({d} \ @)])
           \/ \E r \in Relays : form' = [form EXCEPT !.fields.relays = (@ \ {r}) \cup ({r} \ @)]
    /\ UNCHANGED <<level, listed, saving, reported>>

Cancel ==
    /\ form.open
    /\ form' = [form EXCEPT !.open = FALSE]
    /\ UNCHANGED <<level, listed, saving, reported, edits>>

Idle == [at |-> "idle"]

\* saveGroup(): the schedule and the listed level are read at once, the relays when the
\* changes are posted.  A schedule is posted whether it was changed or not: the server lists
\* the days in another order.
SaveClicked ==
    /\ form.open /\ saving = Idle
    /\ Accepted(Selected(form.fields.schedule))
    /\ saving' = [at |-> IF form.level = None THEN "create" ELSE "update", level |-> form.level,
                  schedule |-> Selected(form.fields.schedule),
                  existing |-> IF form.level \in DOMAIN listed THEN listed[form.level] ELSE None]
    /\ UNCHANGED <<level, listed, form, reported, edits>>

Created ==
    /\ saving.at = "create"
    /\ \E l \in Levels :
           /\ level[l] = None
           /\ level' = [level EXCEPT ![l] = Nameless]
           /\ saving' = [saving EXCEPT !.at = "update", !.level = l]
    /\ UNCHANGED <<listed, form, reported, edits>>

\* The relays that differ from the level as it was listed.
Posted(g) ==
    LET before == IF saving.existing = None THEN {} ELSE saving.existing.relays
        now == form.fields.relays
    IN  IF saving.existing = None THEN now ELSE (g.relays \cup (now \ before)) \ (before \ now)

\* validate(): all of the update or nothing.
Valid(l, s) == Accepted(s) /\ (s.enabled => l \in Slots)

Updated ==
    /\ saving.at = "update" /\ Valid(saving.level, saving.schedule)
    /\ LET l == saving.level
           relays == Posted(level[l])
           current == saving.existing = None \/ saving.existing = Listed(level[l])
       IN  /\ level' = [level EXCEPT ![l] = [named |-> TRUE, schedule |-> saving.schedule, relays |-> relays]]
           /\ saving' = [at |-> "refresh", level |-> l, schedule |-> saving.schedule,
                         relays |-> IF current THEN form.fields.relays ELSE None]
           /\ reported' = IF reported # None /\ reported.level = l THEN None ELSE reported
    /\ UNCHANGED <<listed, form, edits>>

\* refreshGroupData(); the dialog that is open is closed.
Refreshed ==
    /\ saving.at = "refresh"
    /\ listed' = Snapshot
    /\ form' = [form EXCEPT !.open = FALSE]
    /\ reported' = IF saving.level = None THEN None
                   ELSE [level |-> saving.level, schedule |-> saving.schedule, relays |-> saving.relays]
    /\ saving' = Idle
    /\ UNCHANGED <<level, edits>>

\* Refused by the server, or not heard.
Fails ==
    /\ saving # Idle
    /\ (saving.at = "update" /\ ~Valid(saving.level, saving.schedule) /\ UNCHANGED edits) \/ Count
    /\ saving' = Idle
    /\ UNCHANGED <<level, listed, form, reported>>

\* load()
Load == listed' = Snapshot /\ UNCHANGED <<level, form, saving, reported, edits>>

\* Another client saves the schedule or a relay of a level: it is no longer as it was saved
\* here.
Elsewhere ==
    /\ Count
    /\ \E l \in DOMAIN Snapshot :
           /\ \/ \E r \in Relays : level' = [level EXCEPT ![l].relays = (@ \ {r}) \cup ({r} \ @)]
              \/ level' = [level EXCEPT ![l].schedule = Default]
           /\ reported' = IF reported # None /\ reported.level = l THEN None ELSE reported
           /\ saving' = IF saving.at = "refresh" /\ saving.level = l THEN [saving EXCEPT !.level = None] ELSE saving
    /\ UNCHANGED <<listed, form>>

-----------------------------------------------------------------------------
LevelInit ==
    /\ level \in [Levels -> {None, [named |-> TRUE, schedule |-> Unset, relays |-> Relays]}]
    /\ listed = Snapshot
    /\ form = [open |-> FALSE, level |-> None, fields |-> ShownNew]
    /\ saving = Idle /\ reported = None
    /\ edits = 0

LevelNext ==
    \/ Edit \/ Change \/ Cancel \/ SaveClicked \/ Created \/ Updated \/ Refreshed \/ Fails
    \/ Load \/ Elsewhere

LevelSpec == LevelInit /\ [][LevelNext]_levelVars

-----------------------------------------------------------------------------
LevelTypeOK ==
    /\ \A l \in Levels : level[l] \in Definitions
    /\ \A l \in DOMAIN listed : listed[l] \in [schedule : Schedules, relays : SUBSET Relays]
    /\ form.fields \in [schedule : Schedules, relays : SUBSET Relays]

\* Until somebody changes a level that was saved and reported, its dialog opened again shows
\* what was saved: the schedule whether it is enabled or not, and the relays when the listing
\* they were compared with was the server's.
SavedIsShown ==
    reported # None =>
        LET again == Shown(Listed(level[reported.level])) IN
        /\ again.schedule = reported.schedule
        /\ reported.relays # None => again.relays = reported.relays

=============================================================================
