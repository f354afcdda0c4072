--------------------------- MODULE CredentialForm ---------------------------
(***************************************************************************)
(* The fields of the dialog of a credential that follow one another        *)
(* (gate-control.js): the controller ID with the facility code and the     *)
(* card decimal it is made of, and the dates it is valid from and until.   *)
(* The user types into any of them in any order; a listener fills in the   *)
(* others.                                                                 *)
(*                                                                         *)
(* A date is the number year * 512 + month * 32 + day, which orders dates  *)
(* as their text does.                                                     *)
(***************************************************************************)
EXTENDS Integers

CONSTANTS
    Blank,      \* an empty field
    Typed,      \* what may be typed into the three number fields
    Picked,     \* the dates that may be picked
    Stored,     \* the credentials the dialog may be opened for
    Today

Base == 100000
MaxFacility == 255
Term == 40        \* years, of a credential that is not given an end

Year(d) == d \div 512
Month(d) == (d \div 32) % 16
Day(d) == d % 32

Leap(y) == y % 4 = 0 /\ (y % 100 # 0 \/ y % 400 = 0)

DaysIn(y, m) == IF m = 2 THEN (IF Leap(y) THEN 29 ELSE 28)
                ELSE IF m \in {4, 6, 9, 11} THEN 30 ELSE 31

Date == {d \in Nat : Month(d) \in 1..12 /\ Day(d) \in 1..DaysIn(Year(d), Month(d))}

ASSUME FormConstants ==
    /\ Blank \notin Int
    /\ Typed \subseteq Nat /\ Picked \subseteq Date /\ Today \in Date
    /\ Stored \subseteq [number : Nat \cup {Blank}, from : Date \cup {Blank}, to : Date \cup {Blank}]

VARIABLES
    number,     \* the controller ID
    facility,   \* FC
    card,       \* CD
    from, to,   \* Valid from, Valid until
    automatic   \* dataset.untilAutomatic: the end was set by the form

vars == <<number, facility, card, from, to, automatic>>

-----------------------------------------------------------------------------
(* decodeFacilityCard and what populateDecimalCard makes of two numbers. *)

Encoded(f, c) == f * Base + c

Decodes(n) == n # Blank /\ n <= MaxFacility * Base + Base - 1
FacilityOf(n) == IF Decodes(n) THEN n \div Base ELSE Blank
CardOf(n) == IF Decodes(n) THEN n % Base ELSE Blank

InRange(f, c) == f # Blank /\ c # Blank /\ f <= MaxFacility /\ c < Base

\* populateDecimalCard: with a field blank or out of range the controller ID stays.
DecimalCard(f, c) == IF InRange(f, c) THEN Encoded(f, c) ELSE number

-----------------------------------------------------------------------------
(* addYearsToDate and updateValidUntil *)

AddYears(d, years) ==
    LET y == Year(d) + years
        days == DaysIn(y, Month(d))
    IN  y * 512 + Month(d) * 32 + (IF Day(d) < days THEN Day(d) ELSE days)

\* A bug: the end is compared only when there is none.
ValidUntilWhenBlank(f, t, auto, force) ==
    IF f # Blank /\ (force \/ t = Blank)
    THEN to' = AddYears(f, Term) /\ automatic' = TRUE
    ELSE to' = t /\ automatic' = auto

ValidUntil(f, t, auto, force) ==
    IF f # Blank /\ (force \/ t = Blank \/ t < f)
    THEN to' = AddYears(f, Term) /\ automatic' = TRUE
    ELSE to' = t /\ automatic' = auto

-----------------------------------------------------------------------------
\* A bug: the controller ID has no listener.
OpenedAlone(n) == number' = n /\ UNCHANGED <<facility, card>>

Opened(n) ==
    /\ number' = n
    /\ facility' = (IF n = Blank THEN Blank ELSE FacilityOf(n))
    /\ card' = (IF n = Blank THEN Blank ELSE CardOf(n))

\* editCard
EditNew ==
    /\ Opened(Blank)
    /\ from' = Today
    /\ ValidUntil(Today, AddYears(Today, Term), TRUE, FALSE)

EditStored ==
    \E r \in Stored :
        /\ Opened(r.number)
        /\ from' = (IF r.from = Blank THEN Today ELSE r.from)
        /\ ValidUntil(from', IF r.to = Blank THEN AddYears(Today, Term) ELSE r.to, FALSE, FALSE)

\* The listeners of the number fields: an input that is empty or not a number is Blank.
TypeNumber ==
    /\ \E n \in Typed \cup {Blank} : Opened(n)
    /\ UNCHANGED <<from, to, automatic>>

TypeFacility ==
    /\ facility' \in Typed \cup {Blank}
    /\ number' = DecimalCard(facility', card)
    /\ UNCHANGED <<card, from, to, automatic>>

TypeCard ==
    /\ card' \in Typed \cup {Blank}
    /\ number' = DecimalCard(facility, card')
    /\ UNCHANGED <<facility, from, to, automatic>>

\* The listeners of the dates
PickFrom ==
    /\ from' \in Picked \cup {Blank}
    /\ ValidUntil(from', to, automatic, automatic)
    /\ UNCHANGED <<number, facility, card>>

PickTo ==
    /\ \E t \in Picked \cup {Blank} : ValidUntil(from, t, FALSE, FALSE)
    /\ UNCHANGED <<number, facility, card, from>>

Init ==
    /\ number = Blank /\ facility = Blank /\ card = Blank
    /\ from = Today /\ to = AddYears(Today, Term) /\ automatic = TRUE

Next == EditNew \/ EditStored \/ TypeNumber \/ TypeFacility \/ TypeCard \/ PickFrom \/ PickTo

Spec == Init /\ [][Next]_vars

-----------------------------------------------------------------------------
TypeOK ==
    /\ number \in Nat \cup {Blank} /\ facility \in Nat \cup {Blank} /\ card \in Nat \cup {Blank}
    /\ from \in Date \cup {Blank} /\ to \in Date \cup {Blank}
    /\ automatic \in BOOLEAN

\* README: 'controller ID = (facility code * 100000) + card decimal', whichever of the three
\* fields the user typed last.
NumberAgrees == InRange(facility, card) => number = Encoded(facility, card)

\* The dialog never shows an end before the beginning, whatever the record held and whichever
\* date was changed last; a credential that was given no end is valid for forty years.
DatesInOrder == from # Blank => to # Blank /\ from <= to /\ (automatic => to = AddYears(from, Term))

=============================================================================
