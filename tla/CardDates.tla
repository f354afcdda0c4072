------------------------------ MODULE CardDates ------------------------------
(***************************************************************************)
(* A date of a card on the cards page (cards.js): a card without one shows *)
(* the default of the system, which is not a value of the field.  Other    *)
(* fields, and requests in flight, are in Table.                           *)
(***************************************************************************)
EXTENDS Naturals

CONSTANTS
    Dates,
    Blank,      \* no date
    None,       \* what is not there
    MaxChanges  \* how often, together, the user and others do something

VARIABLES
    stored,   \* the date of the card at the server
    default,  \* defaultStartDate or defaultEndDate of the server
    system,   \* DB.system, None before it was heard
    date,     \* the field: what it shows, and its data
    chosen,   \* what the user last typed into the field or confirmed with Enter (history)
    changed   \* counted, for the bound

dateVars == <<stored, default, system, date, chosen, changed>>

Values == Dates \cup {Blank}

Count == changed < MaxChanges /\ changed' = changed + 1

\* DB.get: null, and that it has none, until the system was heard.
Get == IF system = None THEN <<None, FALSE>> ELSE <<system, TRUE>>

\* What a field without a date shows instead.
Instead == IF Get[2] /\ Get[1] # Blank THEN Get[1] ELSE Blank

Set(f, v) == [f EXCEPT !.value = v, !.modified = v # f.original]

\* The default, in place of no date.
WithDefault(f, v) ==
    IF v = Blank /\ Instead # Blank THEN [f EXCEPT !.shown = Instead, !.defval = TRUE]
    ELSE [f EXCEPT !.defval = FALSE]

\* onDateEdit(): the field is set to what was typed before the default is shown.
Edited(f) == WithDefault(Set(f, f.shown), f.shown)

\* updateFromDB(): the default is shown over a date that was typed and not sent, too.
Refreshed(f, v) ==
    LET new == [f EXCEPT !.original = v]
        updated == IF f.modified THEN [new EXCEPT !.modified = f.value # v] ELSE Set([new EXCEPT !.shown = v], v)
    IN  WithDefault(updated, v)

-----------------------------------------------------------------------------
\* onchange
Type ==
    /\ Count
    /\ \E v \in Values : v # date.shown /\ date' = Edited([date EXCEPT !.shown = v]) /\ chosen' = v
    /\ UNCHANGED <<stored, default, system>>

\* onEnter: a default that is shown is confirmed.
Enter ==
    /\ Count
    /\ date' = Set(date, date.shown) /\ chosen' = date.shown
    /\ UNCHANGED <<stored, default, system>>

\* onRollback; the mark of the default stays.
Rollback ==
    /\ Count
    /\ date.modified
    /\ date' = Set([date EXCEPT !.shown = date.original], date.original)
    /\ UNCHANGED <<stored, default, system, chosen>>

\* onCommit, and its answer
Commit ==
    /\ Count
    /\ date.modified
    /\ stored' = date.value
    /\ date' = Refreshed([date EXCEPT !.modified = FALSE], date.value)
    /\ UNCHANGED <<default, system, chosen>>

\* GET of the cards
Hear == date' = Refreshed(date, stored) /\ UNCHANGED <<stored, default, system, chosen, changed>>

\* GET of the system
HearSystem == system' = default /\ UNCHANGED <<stored, default, date, chosen, changed>>

Elsewhere ==
    /\ Count
    /\ (stored' \in Values /\ UNCHANGED default) \/ (default' \in Values /\ UNCHANGED stored)
    /\ UNCHANGED <<system, date, chosen>>

DatesInit ==
    /\ stored \in Values /\ default \in Values /\ system = None
    /\ date = [shown |-> Blank, value |-> Blank, original |-> Blank, modified |-> FALSE, defval |-> FALSE]
    /\ chosen = None
    /\ changed = 0

DatesNext == Type \/ Enter \/ Rollback \/ Commit \/ Hear \/ HearSystem \/ Elsewhere

-----------------------------------------------------------------------------
TypeOK ==
    /\ {stored, default, date.shown, date.value, date.original} \subseteq Values
    /\ system \in Values \cup {None} /\ chosen \in Values \cup {None}
    /\ {date.modified, date.defval} \subseteq BOOLEAN

\* A default that is shown is not a date of the card: what waits to be sent is what the user
\* typed or confirmed last, whatever the default, another client and the refreshes did since.
DefaultsAreNotSent == date.modified => date.value = chosen

=============================================================================
