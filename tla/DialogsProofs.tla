------------------------ MODULE DialogsProofs -------------------------------
(***************************************************************************)
(* Proofs about the dialogs of the console: CredentialForm for whatever is *)
(* typed, picked and stored, LevelForm for any levels, relays, days and    *)
(* times, DoorEditor for any doors and channels, and CardEditor for any    *)
(* credentials, access levels and names.                                   *)
(***************************************************************************)
EXTENDS MCDialogs, FiniteSetTheorems, TLAPS

-----------------------------------------------------------------------------
(* Arithmetic: what the encodings give back.                               *)

LEMMA EncodedDecodes ==
    ASSUME NEW n \in Nat, Decodes(n)
    PROVE  /\ FacilityOf(n) \in 0..MaxFacility /\ CardOf(n) \in 0..(Base - 1)
           /\ Encoded(FacilityOf(n), CardOf(n)) = n
<1> DEFINE f == n \div Base
           c == n % Base
<1>1. Base \in Int /\ MaxFacility \in Int
  BY SMT DEF Base, MaxFacility
<1>2. FacilityOf(n) = f /\ CardOf(n) = c
  BY DEF FacilityOf, CardOf
<1>3. f \in Int /\ 0 <= f /\ f <= MaxFacility
  BY SMT DEF Decodes, Base, MaxFacility
<1>4. c \in Int /\ 0 <= c /\ c < Base
  BY SMT DEF Base
<1>5. f * Base + c = n
  BY SMT DEF Base
<1> HIDE DEF f, c
<1>6. f \in 0..MaxFacility /\ c \in 0..(Base - 1)
  BY <1>1, <1>3, <1>4, SMT
<1>7. Encoded(f, c) = n
  BY <1>5 DEF Encoded
<1> QED  BY <1>2, <1>6, <1>7

LEMMA DaysInMonth ==
    ASSUME NEW y \in Nat, NEW m \in 1..12 PROVE DaysIn(y, m) \in 28..31
  BY DEF DaysIn

DateOf(y, m, d) == y * 512 + m * 32 + d

LEMMA DateParts ==
    ASSUME NEW y \in Nat, NEW m \in 1..12, NEW d \in 1..31
    PROVE  /\ DateOf(y, m, d) \in Nat
           /\ Year(DateOf(y, m, d)) = y /\ Month(DateOf(y, m, d)) = m /\ Day(DateOf(y, m, d)) = d
<1> DEFINE n == y * 512 + m * 32 + d
<1>1. n \in Nat
  BY SMT
<1>2. n \div 512 = y
  BY SMT
<1>3. n \div 32 = 16 * y + m
  BY SMT
<1>4. (16 * y + m) % 16 = m
  BY SMT
<1>5. n % 32 = d
  BY SMT
<1> HIDE DEF n
<1>6. Year(n) = y /\ Month(n) = m /\ Day(n) = d
  BY <1>2, <1>3, <1>4, <1>5 DEF Year, Month, Day
<1> QED  BY <1>1, <1>6 DEF n, DateOf

LEMMA DateIsItsParts ==
    ASSUME NEW d \in Date
    PROVE  /\ d \in Nat /\ Year(d) \in Nat /\ Month(d) \in 1..12 /\ Day(d) \in 1..31
           /\ d = Year(d) * 512 + Month(d) * 32 + Day(d)
<1>1. d \in Nat /\ Month(d) \in 1..12 /\ Day(d) \in 1..DaysIn(Year(d), Month(d))
  BY DEF Date
<1>2. Year(d) \in Nat
  BY <1>1 DEF Year
<1>3. Day(d) \in 1..31
  BY <1>1, <1>2, DaysInMonth
<1>4. d = Year(d) * 512 + Month(d) * 32 + Day(d)
  BY <1>1 DEF Year, Month, Day
<1> QED  BY <1>1, <1>2, <1>3, <1>4

\* Forty years on there is such a date, and it is later.
LEMMA YearsLater ==
    ASSUME NEW d \in Date
    PROVE  AddYears(d, Term) \in Date /\ d <= AddYears(d, Term)
<1> DEFINE y == Year(d) + Term
           m == Month(d)
           days == DaysIn(y, m)
           day == IF Day(d) < days THEN Day(d) ELSE days
           later == DateOf(y, m, day)
<1>1. /\ d \in Nat /\ Year(d) \in Nat /\ m \in 1..12 /\ Day(d) \in 1..31
      /\ d = Year(d) * 512 + m * 32 + Day(d)
  BY DateIsItsParts
<1>2. y \in Nat /\ y = Year(d) + 40
  BY <1>1 DEF Term
<1>3. days \in 28..31
  BY <1>1, <1>2, DaysInMonth
<1>4. day \in 1..31 /\ day \in 1..days
  BY <1>1, <1>3
<1>5. later \in Nat /\ Year(later) = y /\ Month(later) = m /\ Day(later) = day
  <2>1. y \in Nat /\ m \in 1..12 /\ day \in 1..31
    BY <1>1, <1>2, <1>4
  <2> HIDE DEF y, m, days, day
  <2> QED  BY <2>1, DateParts
<1>6. later \in Date
  BY <1>1, <1>4, <1>5 DEF Date
<1>7. d <= later
  <2> HIDE DEF y, m, days, day
  <2> QED  BY <1>1, <1>2, <1>4 DEF DateOf
<1>8. AddYears(d, Term) = later
  BY DEF AddYears, DateOf
<1> QED  BY <1>6, <1>7, <1>8

-----------------------------------------------------------------------------
(* The invariant: the three properties together are inductive.              *)

FormInv == TypeOK /\ NumberAgrees /\ DatesInOrder

LEMMA OpenedAgrees ==
    ASSUME NEW n \in Nat \cup {Blank}, Opened(n)
    PROVE  /\ number' \in Nat \cup {Blank} /\ facility' \in Nat \cup {Blank} /\ card' \in Nat \cup {Blank}
           /\ NumberAgrees'
<1> USE FormConstants
<1>1. CASE n = Blank
  BY <1>1 DEF Opened, NumberAgrees, InRange
<1>2. CASE n # Blank /\ Decodes(n)
  <2>1. n \in Nat  BY <1>2
  <2>2. /\ FacilityOf(n) \in 0..MaxFacility /\ CardOf(n) \in 0..(Base - 1)
        /\ Encoded(FacilityOf(n), CardOf(n)) = n
    BY <1>2, <2>1, EncodedDecodes
  <2>3. number' = n /\ facility' = FacilityOf(n) /\ card' = CardOf(n)
    BY <1>2 DEF Opened
  <2>4. FacilityOf(n) \in Nat /\ CardOf(n) \in Nat
    BY <2>2
  <2>5. NumberAgrees'
    BY <2>2, <2>3 DEF NumberAgrees
  <2> QED  BY <2>1, <2>3, <2>4, <2>5
<1>3. CASE n # Blank /\ ~Decodes(n)
  BY <1>3 DEF Opened, FacilityOf, CardOf, NumberAgrees, InRange
<1> QED  BY <1>1, <1>2, <1>3

LEMMA DecimalAgrees ==
    ASSUME TypeOK, NEW f \in Nat \cup {Blank}, NEW c \in Nat \cup {Blank}
    PROVE  DecimalCard(f, c) \in Nat \cup {Blank} /\ (InRange(f, c) => DecimalCard(f, c) = Encoded(f, c))
<1>1. CASE InRange(f, c)
  <2>1. f \in Nat /\ c \in Nat  BY <1>1 DEF InRange
  <2>2. Encoded(f, c) \in Nat  BY <2>1 DEF Encoded, Base
  <2> QED  BY <1>1, <2>2 DEF DecimalCard
<1>2. CASE ~InRange(f, c)
  BY <1>2 DEF DecimalCard, TypeOK
<1> QED  BY <1>1, <1>2

\* The end that updateValidUntil leaves, for whatever beginning and end it finds.
LEMMA ValidUntilInOrder ==
    ASSUME NEW f \in Date \cup {Blank}, NEW t \in Date \cup {Blank}, NEW auto \in BOOLEAN,
           NEW force \in BOOLEAN, from' = f, ValidUntil(f, t, auto, force),
           f # Blank /\ t # Blank /\ auto => force \/ t = AddYears(f, Term)
    PROVE  to' \in Date \cup {Blank} /\ automatic' \in BOOLEAN /\ DatesInOrder'
<1> USE FormConstants
<1>1. CASE f # Blank /\ (force \/ t = Blank \/ t < f)
  <2>1. f \in Date  BY <1>1
  <2>2. AddYears(f, Term) \in Date /\ f <= AddYears(f, Term)  BY <2>1, YearsLater
  <2>3. to' = AddYears(f, Term) /\ automatic' = TRUE  BY <1>1 DEF ValidUntil
  <2>4. AddYears(f, Term) # Blank  BY <2>2 DEF Date
  <2> QED  BY <2>2, <2>3, <2>4 DEF DatesInOrder
<1>2. CASE ~(f # Blank /\ (force \/ t = Blank \/ t < f))
  <2>1. to' = t /\ automatic' = auto  BY <1>2 DEF ValidUntil
  <2>2. CASE f = Blank  BY <2>1, <2>2 DEF DatesInOrder
  <2>3. CASE f # Blank
    <3>1. t # Blank /\ ~(t < f) /\ ~force  BY <1>2, <2>3
    <3>2. f \in Nat /\ t \in Nat  BY <2>3, <3>1 DEF Date
    <3>3. f <= t  BY <3>1, <3>2
    <3> QED  BY <2>1, <2>3, <3>1, <3>3 DEF DatesInOrder
  <2> QED  BY <2>2, <2>3
<1> QED  BY <1>1, <1>2

LEMMA FormInit == Init => FormInv
<1> SUFFICES ASSUME Init PROVE FormInv  OBVIOUS
<1> USE FormConstants
<1>1. Today \in Date /\ AddYears(Today, Term) \in Date /\ Today <= AddYears(Today, Term)
  BY YearsLater
<1>2. AddYears(Today, Term) # Blank  BY <1>1 DEF Date
<1>3. TypeOK  BY <1>1 DEF Init, TypeOK
<1>4. NumberAgrees  BY DEF Init, NumberAgrees, InRange
<1>5. DatesInOrder  BY <1>1, <1>2 DEF Init, DatesInOrder
<1> QED  BY <1>3, <1>4, <1>5 DEF FormInv

LEMMA FormStep == FormInv /\ [Next]_vars => FormInv'
<1> SUFFICES ASSUME FormInv, [Next]_vars PROVE FormInv'  OBVIOUS
<1> USE FormConstants
<1>0. TypeOK /\ NumberAgrees /\ DatesInOrder  BY DEF FormInv
<1>t. Today \in Date /\ AddYears(Today, Term) \in Date  BY YearsLater
<1>1. CASE EditNew
  <2>1. /\ number' \in Nat \cup {Blank} /\ facility' \in Nat \cup {Blank} /\ card' \in Nat \cup {Blank}
        /\ NumberAgrees'
    BY <1>1, OpenedAgrees DEF EditNew
  <2>2. from' = Today /\ ValidUntil(Today, AddYears(Today, Term), TRUE, FALSE)
    BY <1>1 DEF EditNew
  <2>3. to' \in Date \cup {Blank} /\ automatic' \in BOOLEAN /\ DatesInOrder'
    BY <1>t, <2>2, ValidUntilInOrder
  <2> QED  BY <1>t, <2>1, <2>2, <2>3 DEF FormInv, TypeOK
<1>2. CASE EditStored
  <2> PICK r \in Stored :
        /\ Opened(r.number)
        /\ from' = (IF r.from = Blank THEN Today ELSE r.from)
        /\ ValidUntil(from', IF r.to = Blank THEN AddYears(Today, Term) ELSE r.to, FALSE, FALSE)
    BY <1>2 DEF EditStored
  <2> DEFINE f == IF r.from = Blank THEN Today ELSE r.from
             t == IF r.to = Blank THEN AddYears(Today, Term) ELSE r.to
  <2>1. /\ r.number \in Nat \cup {Blank} /\ f \in Date \cup {Blank} /\ t \in Date \cup {Blank}
    BY <1>t
  <2>2. /\ number' \in Nat \cup {Blank} /\ facility' \in Nat \cup {Blank} /\ card' \in Nat \cup {Blank}
        /\ NumberAgrees'
    BY <2>1, OpenedAgrees
  <2>3. to' \in Date \cup {Blank} /\ automatic' \in BOOLEAN /\ DatesInOrder'
    BY <2>1, ValidUntilInOrder
  <2> QED  BY <2>1, <2>2, <2>3 DEF FormInv, TypeOK
<1>3. CASE TypeNumber
  <2>1. /\ number' \in Nat \cup {Blank} /\ facility' \in Nat \cup {Blank} /\ card' \in Nat \cup {Blank}
        /\ NumberAgrees'
    BY <1>3, OpenedAgrees DEF TypeNumber
  <2> QED  BY <1>0, <1>3, <2>1 DEF TypeNumber, FormInv, TypeOK, DatesInOrder
<1>4. CASE TypeFacility
  <2>1. facility' \in Nat \cup {Blank} /\ card' = card /\ card \in Nat \cup {Blank}
    BY <1>0, <1>4 DEF TypeFacility, TypeOK
  <2>2. number' \in Nat \cup {Blank} /\ (InRange(facility', card) => number' = Encoded(facility', card))
    BY <1>0, <1>4, <2>1, DecimalAgrees DEF TypeFacility
  <2> QED  BY <1>0, <1>4, <2>1, <2>2 DEF TypeFacility, FormInv, TypeOK, DatesInOrder, NumberAgrees
<1>5. CASE TypeCard
  <2>1. card' \in Nat \cup {Blank} /\ facility' = facility /\ facility \in Nat \cup {Blank}
    BY <1>0, <1>5 DEF TypeCard, TypeOK
  <2>2. number' \in Nat \cup {Blank} /\ (InRange(facility, card') => number' = Encoded(facility, card'))
    BY <1>0, <1>5, <2>1, DecimalAgrees DEF TypeCard
  <2> QED  BY <1>0, <1>5, <2>1, <2>2 DEF TypeCard, FormInv, TypeOK, DatesInOrder, NumberAgrees
<1>6. CASE PickFrom
  <2>1. from' \in Date \cup {Blank} /\ to \in Date \cup {Blank} /\ automatic \in BOOLEAN
    BY <1>0, <1>6 DEF PickFrom, TypeOK
  <2>2. to' \in Date \cup {Blank} /\ automatic' \in BOOLEAN /\ DatesInOrder'
    BY <1>6, <2>1, ValidUntilInOrder DEF PickFrom
  <2> QED  BY <1>0, <1>6, <2>1, <2>2 DEF PickFrom, FormInv, TypeOK, NumberAgrees
<1>7. CASE PickTo
  <2>1. PICK t \in Picked \cup {Blank} : ValidUntil(from, t, FALSE, FALSE)
    BY <1>7 DEF PickTo
  <2>2. from' = from /\ from \in Date \cup {Blank}
    BY <1>0, <1>7 DEF PickTo, TypeOK
  <2>3. to' \in Date \cup {Blank} /\ automatic' \in BOOLEAN /\ DatesInOrder'
    BY <2>1, <2>2, ValidUntilInOrder
  <2> QED  BY <1>0, <1>7, <2>2, <2>3 DEF PickTo, FormInv, TypeOK, NumberAgrees
<1>8. CASE UNCHANGED vars
  BY <1>0, <1>8 DEF vars, FormInv, TypeOK, NumberAgrees, DatesInOrder
<1> QED  BY <1>1, <1>2, <1>3, <1>4, <1>5, <1>6, <1>7, <1>8 DEF Next

\* What is in the fields is always a number or a calendar date.
THEOREM FormTypeOK == Spec => []TypeOK
<1> FormInv => TypeOK  BY DEF FormInv
<1> QED  BY FormInit, FormStep, PTL DEF Spec

\* The controller ID is the facility code and the card decimal, whatever was typed and in
\* whatever order.
THEOREM FormNumberAgrees == Spec => []NumberAgrees
<1> FormInv => NumberAgrees  BY DEF FormInv
<1> QED  BY FormInit, FormStep, PTL DEF Spec

\* The end is never before the beginning, for all dates.
THEOREM FormDatesInOrder == Spec => []DatesInOrder
<1> FormInv => DatesInOrder  BY DEF FormInv
<1> QED  BY FormInit, FormStep, PTL DEF Spec

-----------------------------------------------------------------------------
(* LevelForm.  The invariant: the schedule on its way has both times, and a *)
(* level that was saved is the server's, until somebody changes it.         *)

Entries == [schedule : Schedules, relays : SUBSET Relays]
Filled == {s \in Schedules : s.start # NoTime /\ s.end # NoTime}

Asking == [at : {"create", "update"}, level : Levels \cup {None}, schedule : Filled, existing : Entries \cup {None}]
Answered == [at : {"refresh"}, level : Levels \cup {None}, schedule : Filled, relays : (SUBSET Relays) \cup {None}]

\* Level l is on the server as it was saved.
AsSaved(l, s, r) ==
    /\ l \in Levels /\ s \in Filled
    /\ level[l] \in [named : {TRUE}, schedule : {s}, relays : SUBSET Relays]
    /\ r # None => level[l].relays = r

FormTyped == form \in [open : BOOLEAN, level : Levels \cup {None}, fields : Entries]
ListTyped == DOMAIN listed \subseteq Levels /\ \A l \in DOMAIN listed : listed[l] \in Entries
SavingTyped == saving \in {Idle} \cup Asking \cup Answered

\* Whatever is listed, in the dialog or updated is there.
There ==
    /\ \A l \in DOMAIN listed : level[l] # None
    /\ form.level # None => level[form.level] # None
    /\ saving.at = "create" => saving.level = None
    /\ saving.at = "update" => saving.level \in Levels /\ level[saving.level] # None

AnswerIsSaved == saving.at = "refresh" /\ saving.level # None => AsSaved(saving.level, saving.schedule, saving.relays)
ReportIsSaved == reported # None => AsSaved(reported.level, reported.schedule, reported.relays)

LevelInv ==
    /\ level \in [Levels -> Definitions] /\ ListTyped /\ FormTyped /\ SavingTyped /\ There
    /\ AnswerIsSaved /\ ReportIsSaved

LEMMA ScheduleFacts ==
    /\ Default \in Schedules /\ Unset \in Schedules /\ ShownNew \in Entries
    /\ \A s \in Schedules : Selected(s) \in Filled
    /\ \A s \in Filled : s # Unset /\ Selected(s) = s
<1> USE LevelAssumption
<1>1. Default \in Schedules /\ Unset \in Schedules
  BY DEF Default, Unset, Schedules
<1>2. [Default EXCEPT !.days = Days \ Weekend] \in Schedules
  BY <1>1 DEF Schedules
<1>3. ShownNew \in Entries
  BY <1>2 DEF ShownNew, Entries
<1>4. ASSUME NEW s \in Schedules PROVE Selected(s) \in Filled
  BY DEF Selected, OrElse, Schedules, Filled
<1>5. ASSUME NEW s \in Filled PROVE s # Unset /\ Selected(s) = s
  <2>1. s # Unset
    BY DEF Filled, Unset
  <2>2. Selected(s) = [s EXCEPT !.start = s.start, !.end = s.end]
    BY DEF Filled, Selected, OrElse
  <2>3. [s EXCEPT !.start = s.start, !.end = s.end] = s
    BY DEF Filled, Schedules
  <2> QED  BY <2>1, <2>2, <2>3
<1> QED  BY <1>1, <1>3, <1>4, <1>5

LEMMA EntryFacts ==
    /\ \A e \in Entries : Shown(e) \in Entries /\ Shown(e).relays = e.relays /\ Shown(e).schedule = Selected(e.schedule)
    /\ \A g \in [named : {TRUE}, schedule : Schedules, relays : SUBSET Relays] :
           /\ Listed(g) \in Entries /\ Listed(g).relays = g.relays
           /\ g.schedule # Unset => Listed(g).schedule = g.schedule
<1>1. ASSUME NEW e \in Entries
      PROVE  Shown(e) \in Entries /\ Shown(e).relays = e.relays /\ Shown(e).schedule = Selected(e.schedule)
  <2>1. e.schedule \in Schedules /\ e.relays \in SUBSET Relays
    BY DEF Entries
  <2>2. Shown(e) = [relays |-> e.relays, schedule |-> Selected(e.schedule)]
    BY DEF Shown, Selected
  <2>3. Selected(e.schedule) \in Schedules
    BY <2>1, ScheduleFacts DEF Filled
  <2> QED  BY <2>1, <2>2, <2>3 DEF Entries
<1>2. ASSUME NEW g \in [named : {TRUE}, schedule : Schedules, relays : SUBSET Relays]
      PROVE  /\ Listed(g) \in Entries /\ Listed(g).relays = g.relays
             /\ g.schedule # Unset => Listed(g).schedule = g.schedule
  BY ScheduleFacts DEF Listed, Entries
<1> QED  BY <1>1, <1>2

\* Snapshot has levels with a name, and entries.
LEMMA SnapshotTyped ==
    ASSUME level \in [Levels -> Definitions]
    PROVE  /\ DOMAIN Snapshot \subseteq Levels /\ \A l \in DOMAIN Snapshot : Snapshot[l] \in Entries
           /\ \A l \in DOMAIN Snapshot : level[l] \in [named : {TRUE}, schedule : Schedules, relays : SUBSET Relays]
<1>1. ASSUME NEW l \in Levels, level[l] # None, level[l].named
      PROVE  level[l] \in [named : {TRUE}, schedule : Schedules, relays : SUBSET Relays]
  <2>1. level[l] \in Definitions
    OBVIOUS
  <2>2. level[l] # Nameless
    BY <1>1 DEF Nameless
  <2> QED  BY <1>1, <2>1, <2>2 DEF Definitions
<1>2. DOMAIN Snapshot = {k \in Levels : level[k] # None /\ level[k].named}
  BY DEF Snapshot
<1>3. ASSUME NEW l \in DOMAIN Snapshot PROVE Snapshot[l] = Listed(level[l])
  BY DEF Snapshot
<1> QED  BY <1>1, <1>2, <1>3, EntryFacts

\* Only a change of the level changes what was saved of it.
LEMMA StaysSaved ==
    ASSUME NEW l, NEW s, NEW r, AsSaved(l, s, r), level'[l] = level[l]
    PROVE  AsSaved(l, s, r)'
  BY DEF AsSaved

LEMMA LevelsRemain ==
    ASSUME LevelInv, \A k \in Levels : level[k] # None => level'[k] # None, UNCHANGED <<listed, form>>,
           saving'.at = "create" => saving'.level = None,
           saving'.at = "update" => saving'.level \in Levels /\ level'[saving'.level] # None
    PROVE  There'
  BY DEF LevelInv, There, ListTyped, FormTyped

LEMMA LevelInits == LevelInit => LevelInv
<1> SUFFICES ASSUME LevelInit PROVE LevelInv  OBVIOUS
<1> USE LevelAssumption
<1>1. [named |-> TRUE, schedule |-> Unset, relays |-> Relays] \in Definitions /\ None \in Definitions
  BY ScheduleFacts DEF Definitions
<1>2. level \in [Levels -> Definitions]
  BY <1>1 DEF LevelInit
<1>3. ListTyped
  BY <1>2, SnapshotTyped DEF LevelInit, ListTyped
<1>4. FormTyped
  BY ScheduleFacts DEF LevelInit, FormTyped
<1>5. SavingTyped /\ AnswerIsSaved /\ ReportIsSaved
  BY DEF LevelInit, Idle, SavingTyped, AnswerIsSaved, ReportIsSaved
<1>6. There
  <2>1. \A l \in DOMAIN Snapshot : level[l] # None
    BY DEF Snapshot
  <2> QED  BY <2>1 DEF LevelInit, Idle, There
<1> QED  BY <1>2, <1>3, <1>4, <1>5, <1>6 DEF LevelInv

LEMMA LevelEdits ==
    ASSUME LevelInv, Edit \/ Change \/ Cancel
    PROVE  LevelInv'
<1> USE LevelAssumption
<1>0. UNCHANGED <<level, listed, saving, reported>>
  BY DEF Edit, Change, Cancel
<1>1. FormTyped' /\ (form'.level # None => level[form'.level] # None)
  <2>1. CASE Edit
    <3>1. ShownNew \in Entries /\ \A l \in DOMAIN listed : l \in Levels /\ Shown(listed[l]) \in Entries
      BY ScheduleFacts, EntryFacts DEF LevelInv, ListTyped
    <3>2. PICK k \in Levels \cup {None}, e \in Entries :
              /\ form' = [open |-> TRUE, level |-> k, fields |-> e]
              /\ k # None => k \in DOMAIN listed
      BY <2>1, <3>1 DEF Edit
    <3>3. form'.level = k /\ form' \in [open : BOOLEAN, level : Levels \cup {None}, fields : Entries]
      BY <3>2
    <3> QED  BY <3>2, <3>3 DEF FormTyped, LevelInv, There
  <2>2. CASE Change
    <3> DEFINE s == form.fields.schedule
    <3>1. /\ form \in [open : BOOLEAN, level : Levels \cup {None}, fields : [schedule : Schedules, relays : SUBSET Relays]]
          /\ s \in Schedules
      BY DEF LevelInv, FormTyped, Entries
    <3>2. ASSUME NEW t \in Schedules, form' = [form EXCEPT !.fields.schedule = t] PROVE FormTyped' /\ form'.level = form.level
      BY <3>1, <3>2 DEF FormTyped, Entries
    <3>3. ASSUME NEW r \in Relays, form' = [form EXCEPT !.fields.relays = (@ \ {r}) \cup ({r} \ @)] PROVE FormTyped' /\ form'.level = form.level
      BY <3>1, <3>3 DEF FormTyped, Entries
    <3>4. /\ [s EXCEPT !.enabled = ~@] \in Schedules
          /\ \A t \in Times \cup {NoTime} : [s EXCEPT !.start = t] \in Schedules /\ [s EXCEPT !.end = t] \in Schedules
          /\ \A d \in Days : [s EXCEPT !.days = (@ \ {d}) \cup ({d} \ @)] \in Schedules
      BY <3>1 DEF Schedules
    <3> HIDE DEF s
    <3>5. \/ \E t \in Schedules : form' = [form EXCEPT !.fields.schedule = t]
          \/ \E r \in Relays : form' = [form EXCEPT !.fields.relays = (@ \ {r}) \cup ({r} \ @)]
      BY <2>2, <3>4 DEF Change, s
    <3> QED  BY <3>2, <3>3, <3>5 DEF LevelInv, There
  <2>3. CASE Cancel
    BY <2>3 DEF LevelInv, Cancel, FormTyped, There
  <2> QED  BY <2>1, <2>2, <2>3
<1> QED  BY <1>0, <1>1 DEF LevelInv, ListTyped, SavingTyped, There, AnswerIsSaved, ReportIsSaved, AsSaved

LEMMA LevelIsAsked ==
    ASSUME LevelInv, SaveClicked
    PROVE  LevelInv'
<1> USE LevelAssumption
<1>0. UNCHANGED <<level, listed, form, reported>>
  BY DEF SaveClicked
<1>1. /\ saving' \in Asking /\ saving'.level = form.level
      /\ saving'.at = (IF form.level = None THEN "create" ELSE "update")
  <2>1. form.level \in Levels \cup {None} /\ form.fields.schedule \in Schedules
    BY DEF LevelInv, FormTyped, Entries
  <2>2. Selected(form.fields.schedule) \in Filled
    BY <2>1, ScheduleFacts
  <2>3. (IF form.level \in DOMAIN listed THEN listed[form.level] ELSE None) \in Entries \cup {None}
    BY DEF LevelInv, ListTyped
  <2> QED  BY <2>1, <2>2, <2>3 DEF SaveClicked, Asking
<1>2. SavingTyped' /\ AnswerIsSaved'
  BY <1>1 DEF SavingTyped, AnswerIsSaved, Asking
<1>3. There'
  BY <1>0, <1>1 DEF LevelInv, There, FormTyped
<1> QED  BY <1>0, <1>2, <1>3 DEF LevelInv, ListTyped, FormTyped, ReportIsSaved, AsSaved

LEMMA LevelIsCreated ==
    ASSUME LevelInv, Created
    PROVE  LevelInv'
<1> USE LevelAssumption
<1>1. PICK l \in Levels :
          /\ level[l] = None
          /\ level' = [level EXCEPT ![l] = Nameless]
          /\ saving' = [saving EXCEPT !.at = "update", !.level = l]
  BY DEF Created
<1>2. saving.at = "create" /\ UNCHANGED <<listed, form, reported>>
  BY DEF Created
<1>3. level' \in [Levels -> Definitions]
  BY <1>1 DEF LevelInv, Definitions
<1>4. SavingTyped' /\ AnswerIsSaved' /\ There'
  <2>1. saving \in Asking
    BY <1>2 DEF LevelInv, SavingTyped, Idle, Answered
  <2>2. saving' \in Asking /\ saving'.at = "update" /\ saving'.level = l
    BY <1>1, <2>1 DEF Asking
  <2>3. Nameless # None /\ level'[l] = Nameless /\ \A k \in Levels : k # l => level'[k] = level[k]
    <3>1. Nameless \in [named : BOOLEAN, schedule : Schedules, relays : SUBSET Relays]
      BY ScheduleFacts DEF Nameless
    <3> QED  BY <1>1, <3>1 DEF LevelInv
  <2>4. There'
    BY <1>2, <2>2, <2>3, LevelsRemain
  <2> QED  BY <2>2, <2>4 DEF SavingTyped, AnswerIsSaved
<1>5. ReportIsSaved'
  <2> SUFFICES ASSUME reported # None PROVE AsSaved(reported.level, reported.schedule, reported.relays)'
    BY <1>2 DEF ReportIsSaved
  <2>1. AsSaved(reported.level, reported.schedule, reported.relays)
    BY DEF LevelInv, ReportIsSaved
  <2>2. reported.level # l /\ reported.level \in Levels
    <3>1. level[reported.level] \in [named : BOOLEAN, schedule : Schedules, relays : SUBSET Relays]
      BY <2>1 DEF AsSaved, Filled
    <3> QED  BY <1>1, <2>1, <3>1 DEF AsSaved
  <2>3. level'[reported.level] = level[reported.level]
    BY <1>1, <2>2 DEF LevelInv
  <2> QED  BY <1>2, <2>1, <2>3 DEF AsSaved
<1> QED  BY <1>2, <1>3, <1>4, <1>5 DEF LevelInv, ListTyped, FormTyped

\* The relays of a level are those of the dialog, when the listing that they were compared with
\* was the server's.
LEMMA LevelIsUpdated ==
    ASSUME LevelInv, Updated
    PROVE  LevelInv'
<1> USE LevelAssumption
<1> DEFINE l == saving.level
           relays == Posted(level[l])
           current == saving.existing = None \/ saving.existing = Listed(level[l])
<1>1. /\ saving.at = "update" /\ UNCHANGED <<listed, form>>
      /\ level' = [level EXCEPT ![l] = [named |-> TRUE, schedule |-> saving.schedule, relays |-> relays]]
      /\ saving' = [at |-> "refresh", level |-> l, schedule |-> saving.schedule,
                    relays |-> IF current THEN form.fields.relays ELSE None]
      /\ reported' = IF reported # None /\ reported.level = l THEN None ELSE reported
  BY DEF Updated
<1>2. /\ saving \in Asking /\ l \in Levels /\ saving.schedule \in Filled /\ saving.schedule \in Schedules
      /\ saving.existing \in Entries \cup {None}
      /\ form.fields.relays \in SUBSET Relays
  <2>1. saving \in Asking
    BY <1>1 DEF LevelInv, SavingTyped, Idle, Answered
  <2>2. l \in Levels
    BY <1>1 DEF LevelInv, There
  <2>3. saving.schedule \in Filled /\ saving.existing \in Entries \cup {None}
    BY <2>1 DEF Asking
  <2>4. form.fields.relays \in SUBSET Relays
    BY DEF LevelInv, FormTyped, Entries
  <2> QED  BY <2>1, <2>2, <2>3, <2>4 DEF Filled
<1>3. level[l] \in [named : BOOLEAN, schedule : Schedules, relays : SUBSET Relays]
  <2>1. level[l] # None /\ level[l] \in Definitions
    BY <1>1, <1>2 DEF LevelInv, There
  <2>2. Nameless \in [named : BOOLEAN, schedule : Schedules, relays : SUBSET Relays]
    BY ScheduleFacts DEF Nameless
  <2> QED  BY <2>1, <2>2 DEF Definitions
<1>4. relays \in SUBSET Relays
  <2>1. saving.existing # None => saving.existing.relays \in SUBSET Relays
    BY <1>2 DEF Entries
  <2> QED  BY <1>2, <1>3, <2>1 DEF Posted
<1>10. current => relays = form.fields.relays
  <2>1. CASE saving.existing = None
    BY <2>1 DEF Posted
  <2>2. CASE saving.existing # None /\ saving.existing = Listed(level[l])
    <3>1. saving.existing.relays = level[l].relays
      BY <2>2 DEF Listed
    <3> QED  BY <1>2, <1>3, <2>2, <3>1 DEF Posted
  <2> QED  BY <2>1, <2>2
<1> HIDE DEF relays, current
<1>5. level' \in [Levels -> Definitions] /\ level'[l] = [named |-> TRUE, schedule |-> saving.schedule, relays |-> relays]
  BY <1>1, <1>2, <1>4 DEF LevelInv, Definitions
<1>6. SavingTyped'
  BY <1>1, <1>2 DEF SavingTyped, Answered
<1>7. There'
  <2>1. [named |-> TRUE, schedule |-> saving.schedule, relays |-> relays] # None
    <3>1. [named |-> TRUE, schedule |-> saving.schedule, relays |-> relays]
              \in [named : BOOLEAN, schedule : Schedules, relays : SUBSET Relays]
      BY <1>2, <1>4
    <3> QED  BY <3>1
  <2>2. \A k \in Levels : level[k] # None => level'[k] # None
    BY <1>1, <1>2, <2>1 DEF LevelInv
  <2> QED  BY <1>1, <2>2, LevelsRemain
<1>8. AnswerIsSaved'
  BY <1>1, <1>2, <1>4, <1>5, <1>10 DEF AnswerIsSaved, AsSaved
<1>9. ReportIsSaved'
  <2> SUFFICES ASSUME reported' # None PROVE AsSaved(reported.level, reported.schedule, reported.relays)'
    BY DEF ReportIsSaved
  <2>1. reported' = reported /\ reported.level # l
    BY <1>1
  <2>2. AsSaved(reported.level, reported.schedule, reported.relays)
    BY <2>1 DEF LevelInv, ReportIsSaved
  <2>3. level'[reported.level] = level[reported.level]
    BY <1>1, <2>1, <2>2 DEF LevelInv, AsSaved
  <2> QED  BY <2>1, <2>2, <2>3 DEF AsSaved
<1> QED  BY <1>1, <1>5, <1>6, <1>7, <1>8, <1>9 DEF LevelInv, ListTyped, FormTyped

LEMMA LevelIsRefreshed ==
    ASSUME LevelInv, Refreshed
    PROVE  LevelInv'
<1> USE LevelAssumption
<1>1. saving.at = "refresh" /\ saving \in Answered
  BY DEF LevelInv, Refreshed, SavingTyped, Idle, Asking
<1>2. FormTyped' /\ form'.level = form.level
  BY DEF LevelInv, Refreshed, FormTyped
<1>3. /\ level' = level /\ saving' = Idle /\ listed' = Snapshot
      /\ reported' = IF saving.level = None THEN None
                     ELSE [level |-> saving.level, schedule |-> saving.schedule, relays |-> saving.relays]
  BY DEF Refreshed
<1>4. ListTyped'
  BY <1>3, SnapshotTyped DEF LevelInv, ListTyped
<1>5. There'
  <2>1. \A l \in DOMAIN Snapshot : level[l] # None
    BY DEF Snapshot
  <2> QED  BY <1>2, <1>3, <2>1 DEF LevelInv, There, Idle
<1>6. SavingTyped' /\ AnswerIsSaved'
  BY <1>3 DEF SavingTyped, AnswerIsSaved, Idle
<1>7. ReportIsSaved'
  <2> SUFFICES ASSUME reported' # None PROVE AsSaved(reported.level, reported.schedule, reported.relays)'
    BY DEF ReportIsSaved
  <2>1. saving.level # None /\ reported'.level = saving.level /\ reported'.schedule = saving.schedule /\ reported'.relays = saving.relays
    BY <1>3
  <2>2. AsSaved(saving.level, saving.schedule, saving.relays)
    BY <1>1, <2>1 DEF LevelInv, AnswerIsSaved
  <2> QED  BY <1>3, <2>1, <2>2 DEF AsSaved
<1> QED  BY <1>2, <1>3, <1>4, <1>5, <1>6, <1>7 DEF LevelInv

LEMMA LevelElsewhere ==
    ASSUME LevelInv, Elsewhere
    PROVE  LevelInv'
<1> USE LevelAssumption
<1>1. PICK l \in DOMAIN Snapshot :
          /\ \/ \E r \in Relays : level' = [level EXCEPT ![l].relays = (@ \ {r}) \cup ({r} \ @)]
             \/ level' = [level EXCEPT ![l].schedule = Default]
          /\ reported' = IF reported # None /\ reported.level = l THEN None ELSE reported
          /\ saving' = IF saving.at = "refresh" /\ saving.level = l THEN [saving EXCEPT !.level = None] ELSE saving
  BY DEF Elsewhere
<1>2. UNCHANGED <<listed, form>>
  BY DEF Elsewhere
<1>3. l \in Levels /\ level[l] \in [named : {TRUE}, schedule : Schedules, relays : SUBSET Relays]
  BY SnapshotTyped DEF LevelInv
<1>4. /\ level' = [level EXCEPT ![l] = level'[l]]
      /\ level'[l] \in [named : {TRUE}, schedule : Schedules, relays : SUBSET Relays]
  <2>1. level \in [Levels -> Definitions] /\ Default \in Schedules
    BY ScheduleFacts DEF LevelInv
  <2> DEFINE g == level[l]
  <2>2. level' = [level EXCEPT ![l] = level'[l]]
    BY <1>1, <1>3, <2>1
  <2>3. \/ \E r \in Relays : level'[l] = [g EXCEPT !.relays = (@ \ {r}) \cup ({r} \ @)]
        \/ level'[l] = [g EXCEPT !.schedule = Default]
    BY <1>1, <1>3, <2>1
  <2>4. g \in [named : {TRUE}, schedule : Schedules, relays : SUBSET Relays]
    BY <1>3
  <2> HIDE DEF g
  <2>5. level'[l] \in [named : {TRUE}, schedule : Schedules, relays : SUBSET Relays]
    <3>1. CASE level'[l] = [g EXCEPT !.schedule = Default]
      BY <2>1, <2>4, <3>1
    <3>2. ASSUME NEW r \in Relays, level'[l] = [g EXCEPT !.relays = (@ \ {r}) \cup ({r} \ @)]
          PROVE  level'[l] \in [named : {TRUE}, schedule : Schedules, relays : SUBSET Relays]
      BY <2>4, <3>2
    <3> QED  BY <2>3, <3>1, <3>2
  <2> QED  BY <2>2, <2>5
<1>5. level' \in [Levels -> Definitions] /\ \A k \in Levels : k # l => level'[k] = level[k]
  BY <1>3, <1>4 DEF LevelInv, Definitions
<1>6. \A k \in Levels : level[k] # None => level'[k] # None
  BY <1>4, <1>5
<1>7. SavingTyped' /\ There' /\ AnswerIsSaved'
  <2>1. CASE saving.at = "refresh" /\ saving.level = l
    <3>1. saving \in Answered
      BY <2>1 DEF LevelInv, SavingTyped, Idle, Asking
    <3>2. saving' \in Answered /\ saving'.at = "refresh" /\ saving'.level = None
      BY <1>1, <2>1, <3>1 DEF Answered
    <3>3. There'
      BY <1>2, <1>6, <3>2, LevelsRemain
    <3> QED  BY <3>2, <3>3 DEF SavingTyped, AnswerIsSaved
  <2>2. CASE ~(saving.at = "refresh" /\ saving.level = l)
    <3>1. saving' = saving
      BY <1>1, <2>2
    <3>2. There'
      BY <1>2, <1>6, <3>1, LevelsRemain DEF LevelInv, There
    <3>3. ASSUME saving.at = "refresh", saving.level # None
          PROVE  AsSaved(saving.level, saving.schedule, saving.relays)'
      <4>1. AsSaved(saving.level, saving.schedule, saving.relays)
        BY <3>3 DEF LevelInv, AnswerIsSaved
      <4>2. level'[saving.level] = level[saving.level]
        BY <1>5, <2>2, <3>3, <4>1 DEF AsSaved
      <4> QED  BY <3>1, <4>1, <4>2 DEF AsSaved
    <3> QED  BY <3>1, <3>2, <3>3 DEF LevelInv, SavingTyped, AnswerIsSaved
  <2> QED  BY <2>1, <2>2
<1>8. ReportIsSaved'
  <2> SUFFICES ASSUME reported' # None PROVE AsSaved(reported.level, reported.schedule, reported.relays)'
    BY DEF ReportIsSaved
  <2>1. reported' = reported /\ reported.level # l
    BY <1>1
  <2>2. AsSaved(reported.level, reported.schedule, reported.relays)
    BY <2>1 DEF LevelInv, ReportIsSaved
  <2>3. level'[reported.level] = level[reported.level]
    BY <1>5, <2>1, <2>2 DEF AsSaved
  <2> QED  BY <2>1, <2>2, <2>3 DEF AsSaved
<1> QED  BY <1>2, <1>5, <1>7, <1>8 DEF LevelInv, ListTyped, FormTyped

LEMMA LevelStep == LevelInv /\ [LevelNext]_levelVars => LevelInv'
<1> SUFFICES ASSUME LevelInv, [LevelNext]_levelVars PROVE LevelInv'  OBVIOUS
<1>1. CASE Edit \/ Change \/ Cancel
  BY <1>1, LevelEdits
<1>2. CASE SaveClicked
  BY <1>2, LevelIsAsked
<1>3. CASE Created
  BY <1>3, LevelIsCreated
<1>4. CASE Updated
  BY <1>4, LevelIsUpdated
<1>5. CASE Refreshed
  BY <1>5, LevelIsRefreshed
<1>6. CASE Fails
  BY <1>6 DEF LevelInv, Fails, ListTyped, FormTyped, SavingTyped, There, Idle, AnswerIsSaved, ReportIsSaved, AsSaved
<1>7. CASE Load
  <2>1. listed' = Snapshot /\ UNCHANGED <<level, form, saving, reported>>
    BY <1>7 DEF Load
  <2>2. ListTyped'
    BY <2>1, SnapshotTyped DEF LevelInv, ListTyped
  <2>3. There'
    <3>1. \A l \in DOMAIN Snapshot : level[l] # None
      BY DEF Snapshot
    <3> QED  BY <2>1, <3>1 DEF LevelInv, There
  <2> QED  BY <2>1, <2>2, <2>3 DEF LevelInv, FormTyped, SavingTyped, AnswerIsSaved, ReportIsSaved, AsSaved
<1>8. CASE Elsewhere
  BY <1>8, LevelElsewhere
<1>9. CASE UNCHANGED levelVars
  BY <1>9 DEF levelVars, LevelInv, ListTyped, FormTyped, SavingTyped, There, AnswerIsSaved, ReportIsSaved, AsSaved
<1> QED  BY <1>1, <1>2, <1>3, <1>4, <1>5, <1>6, <1>7, <1>8, <1>9 DEF LevelNext

\* A level, a listing and the fields of its dialog are always what the page can show.
THEOREM LevelIsTyped == LevelSpec => []LevelTypeOK
<1>1. LevelInv => LevelTypeOK
  <2> SUFFICES ASSUME LevelInv PROVE LevelTypeOK  OBVIOUS
  <2>1. \A l \in Levels : level[l] \in Definitions
    BY DEF LevelInv
  <2>2. \A l \in DOMAIN listed : listed[l] \in [schedule : Schedules, relays : SUBSET Relays]
    BY DEF LevelInv, ListTyped, Entries
  <2>3. form.fields \in [schedule : Schedules, relays : SUBSET Relays]
    BY DEF LevelInv, FormTyped, Entries
  <2> QED  BY <2>1, <2>2, <2>3 DEF LevelTypeOK
<1> QED  BY <1>1, LevelInits, LevelStep, PTL DEF LevelSpec

\* saveGroup(): until somebody changes it, the dialog of a level that was reported as saved shows
\* what was saved, whatever its schedule was before and whoever else edited levels meanwhile.
THEOREM TheLevelIsShownAsSaved == LevelSpec => []SavedIsShown
<1>1. LevelInv => SavedIsShown
  <2> SUFFICES ASSUME LevelInv, reported # None
               PROVE  LET again == Shown(Listed(level[reported.level])) IN
                      /\ again.schedule = reported.schedule
                      /\ reported.relays # None => again.relays = reported.relays
    BY DEF SavedIsShown
  <2> DEFINE g == level[reported.level]
  <2>1. AsSaved(reported.level, reported.schedule, reported.relays)
    BY DEF LevelInv, ReportIsSaved
  <2>2. /\ g \in [named : {TRUE}, schedule : Schedules, relays : SUBSET Relays]
        /\ g.schedule = reported.schedule /\ reported.schedule \in Filled
        /\ reported.relays # None => g.relays = reported.relays
    BY <2>1 DEF AsSaved, Filled
  <2> HIDE DEF g
  <2>3. Listed(g) \in Entries /\ Listed(g).relays = g.relays /\ Listed(g).schedule = g.schedule
    BY <2>2, ScheduleFacts, EntryFacts
  <2>4. Shown(Listed(g)).relays = g.relays /\ Shown(Listed(g)).schedule = g.schedule
    BY <2>2, <2>3, ScheduleFacts, EntryFacts
  <2> QED  BY <2>2, <2>4 DEF g
<1> QED  BY <1>1, LevelInits, LevelStep, PTL DEF LevelSpec

-----------------------------------------------------------------------------
(* DoorEditor.  The invariant: the server's list never has a door on two    *)
(* channels, or one that was never made on any; both copies of the browser  *)
(* are lists of that kind, no newer than the server's; and as long as       *)
(* nobody came between, the dialogs are about doors that are there, and     *)
(* each handler has done what its next request builds on.                   *)

ChannelsDiffer(s) == \A k, m \in Channels : s[k] # Nothing /\ s[k] = s[m] => k = m

LEMMA ValidChannelsDiffer ==
    ASSUME NEW s, ValidControllers(s) PROVE ChannelsDiffer(s)
  BY DEF ValidControllers, ChannelsDiffer

DoorStates == {"none", "live", "deleted", "swept"}
Contents == Settings \cup {Unnamed}
DoorCopies == [door : [Doors -> DoorStates], fields : [Doors -> Contents], slot : [Channels -> Doors \cup {Nothing}]]
DoorForms == [open : BOOLEAN, oid : Doors \cup {New}, original : Channels \cup {Nothing},
              channel : Channels \cup {Nothing}, fields : Contents, return : BOOLEAN]

ServerTyped ==
    /\ door \in [Doors -> DoorStates]
    /\ fields \in [Doors -> Contents]
    /\ slot \in [Channels -> Doors \cup {Nothing}]
    /\ behind \subseteq {"relays", "rules"}

\* A copy mixes doors and channels that were never together, but its channels were.
LoadOK ==
    /\ view \in DoorCopies /\ load \in [at : {"idle", "sent", "read"}, view : DoorCopies]
    /\ ChannelsDiffer(view.slot) /\ ChannelsDiffer(load.view.slot)

DialogTyped ==
    /\ doorForm \in DoorForms
    /\ panel \in [open : BOOLEAN, slot : [Channels -> Doors \cup {Nothing}]]

\* What a request for the channels says: some of them, each with a door or none.
IsPatch(p) == \A k \in DOMAIN p : k \in Channels /\ p[k] \in Doors \cup {Nothing}

IsHandler(h) == h = [at |-> h.at, oid |-> h.oid, was |-> h.was, fields |-> h.fields, patch |-> h.patch]

IsSave(h) ==
    /\ IsHandler(h)
    /\ h.at \in {"idle", "create", "update", "assign", "relays", "taken", "reload"}
    /\ h.at \in {"update", "assign", "relays"} => h.oid \in Doors
    /\ h.at = "update" => h.fields \in Contents
    /\ h.at = "assign" => IsPatch(h.patch)

HandlersTyped ==
    /\ IsSave(save) /\ save.at # "taken"
    /\ IsHandler(erase) /\ erase.at \in {"idle", "clear", "delete", "rules", "reload"}
    /\ Waits(erase) => erase.oid \in Doors
    /\ erase.at = "clear" => IsPatch(erase.patch)
    /\ IsHandler(setup) /\ setup.at \in {"idle", "assign", "relays", "rules", "reload"}
    /\ setup.at = "assign" => IsPatch(setup.patch)

Gone(s) == s \in {"deleted", "swept"}

\* A door on a channel was made.
AllMade == \A k \in Channels : slot[k] # Nothing => door[slot[k]] # "none"

\* A copy is no newer than the list, and the one in use no newer than the one on its way.
CopiesAge ==
    \A d \in Doors :
        /\ Gone(view.door[d]) => Gone(load.view.door[d])
        /\ Gone(load.view.door[d]) => Gone(door[d])
        /\ view.door[d] = "live" \/ load.view.door[d] = "live" => door[d] # "none"

\* What every request keeps, whoever sends it.
ServerOK == ServerTyped /\ ChannelsDiffer(slot) /\ AllMade

\* What every request does to the doors.
Ages ==
    \A d \in Doors : /\ Gone(door[d]) => Gone(door'[d])
                     /\ door[d] # "none" => door'[d] # "none"

\* One lemma for each request, and then for every step.
LEMMA CreateKeeps ==
    ASSUME ServerOK, NEW d \in Doors, CreateDoor(d) PROVE ServerOK' /\ Ages
<1>1. /\ door[d] = "none" /\ door' = [door EXCEPT ![d] = "live"] /\ fields' = [fields EXCEPT ![d] = Unnamed]
      /\ slot' = slot /\ behind' = behind \cup {"relays"}
  BY DEF CreateDoor, UpdateDoors
<1> QED  BY <1>1, DoorAssumption DEF ServerOK, ServerTyped, ChannelsDiffer, AllMade, Ages, DoorStates, Gone, Contents

LEMMA UpdateKeeps ==
    ASSUME ServerOK, NEW d \in Doors, NEW f \in Contents, UpdateDoor(d, f) PROVE ServerOK' /\ Ages
<1>1. /\ door' = door /\ slot' = slot /\ behind' = behind \cup {"relays"}
      /\ fields' = fields \/ fields' = [fields EXCEPT ![d] = f]
  BY DEF UpdateDoor, UpdateDoors, With
<1> QED  BY <1>1 DEF ServerOK, ServerTyped, ChannelsDiffer, AllMade, Ages

LEMMA DeleteKeeps ==
    ASSUME ServerOK, NEW d \in Doors, DeleteDoor(d) PROVE ServerOK' /\ Ages
<1>1. /\ door' = door \/ (InList(door[d]) /\ door' = [door EXCEPT ![d] = "deleted"])
      /\ fields' = fields /\ slot' = slot /\ behind' = behind \cup {"relays"}
  BY DEF DeleteDoor, UpdateDoors, Without
<1> QED  BY <1>1, DoorAssumption
         DEF ServerOK, ServerTyped, ChannelsDiffer, AllMade, Ages, DoorStates, Gone, InList

LEMMA SweepKeeps ==
    ASSUME ServerOK, NEW d \in Doors, Sweep(d) PROVE ServerOK' /\ Ages
BY DoorAssumption DEF Sweep, ServerOK, ServerTyped, ChannelsDiffer, AllMade, Ages, DoorStates, Gone

LEMMA ControllersKeep ==
    ASSUME ServerOK, NEW p, IsPatch(p), UpdateControllers(p) PROVE ServerOK' /\ Ages
<1>1. /\ slot' = Patched(p) /\ ValidControllers(slot')
      /\ door' = door /\ fields' = fields /\ behind' = behind \cup {"relays", "rules"}
  BY DEF UpdateControllers
<1>2. slot' \in [Channels -> Doors \cup {Nothing}]
  BY <1>1 DEF Patched, IsPatch, ServerOK, ServerTyped
<1>3. ChannelsDiffer(slot')
  BY <1>1, ValidChannelsDiffer
<1>4. AllMade'
  BY <1>1, <1>2 DEF AllMade, ValidControllers, InList
<1> QED  BY <1>1, <1>2, <1>3, <1>4 DEF ServerOK, ServerTyped, Ages, ChannelsDiffer

LEMMA SynchronizeKeeps ==
    ASSUME ServerOK, NEW what, Synchronize(what) PROVE ServerOK' /\ Ages
BY DEF Synchronize, ServerOK, ServerTyped, ChannelsDiffer, AllMade, Ages

LEMMA NothingKeeps ==
    ASSUME ServerOK, UNCHANGED server PROVE ServerOK' /\ Ages
BY DEF server, ServerOK, ServerTyped, ChannelsDiffer, AllMade, Ages

\* What the requests of a handler are about is there.
Sendable(h) ==
    /\ h.at \in {"update", "delete"} => h.oid \in Doors
    /\ h.at = "update" => h.fields \in Contents
    /\ h.at \in {"clear", "assign"} => IsPatch(h.patch)

LEMMA RequestsKeep ==
    ASSUME ServerOK, NEW h, Sendable(h), Request(h) PROVE ServerOK' /\ Ages
<1>1. CASE h.at = "create" /\ \E d \in Doors : CreateDoor(d)
  BY <1>1, CreateKeeps
<1>2. CASE h.at = "update" /\ UpdateDoor(h.oid, h.fields)
  BY <1>2, UpdateKeeps DEF Sendable
<1>3. CASE h.at \in {"clear", "assign"} /\ UpdateControllers(h.patch)
  BY <1>3, ControllersKeep DEF Sendable
<1>4. CASE h.at = "delete" /\ DeleteDoor(h.oid)
  BY <1>4, DeleteKeeps DEF Sendable
<1>5. CASE h.at \in {"relays", "rules"} /\ Synchronize(h.at)
  BY <1>5, SynchronizeKeeps
<1> QED  BY <1>1, <1>2, <1>3, <1>4, <1>5 DEF Request

LEMMA HandlersSendable ==
    ASSUME HandlersTyped PROVE Sendable(save) /\ Sendable(erase) /\ Sendable(setup)
BY DEF HandlersTyped, IsSave, Sendable, Waits

LEMMA ServerKeeps ==
    ASSUME ServerOK, HandlersTyped, [DoorNext]_doorVars PROVE ServerOK' /\ Ages
<1>0. Sendable(save) /\ Sendable(erase) /\ Sendable(setup)
  BY HandlersSendable
<1>1. ASSUME NEW h, Sendable(h), UNCHANGED server \/ Request(h) PROVE ServerOK' /\ Ages
  BY <1>1, NothingKeeps, RequestsKeep
<1>2. CASE UNCHANGED server
  BY <1>2, NothingKeeps
<1>3. CASE EditsElsewhere
  <2>1. PICK d \in Doors : \/ CreateDoor(d) \/ DeleteDoor(d) \/ Sweep(d)
                           \/ \E f \in Settings : UpdateDoor(d, f)
                           \/ \E k \in Channels, e \in {d, Nothing} : UpdateControllers([m \in {k} |-> e])
    BY <1>3 DEF EditsElsewhere
  <2>2. CASE \E f \in Settings : UpdateDoor(d, f)
    BY <2>2, UpdateKeeps DEF Contents
  <2>3. CASE \E k \in Channels, e \in {d, Nothing} : UpdateControllers([m \in {k} |-> e])
    <3> PICK k \in Channels, e \in {d, Nothing} : UpdateControllers([m \in {k} |-> e])  BY <2>3
    <3>1. IsPatch([m \in {k} |-> e])
      BY DEF IsPatch
    <3> QED  BY <3>1, ControllersKeep
  <2> QED  BY <2>1, <2>2, <2>3, CreateKeeps, DeleteKeeps, SweepKeeps
<1>4. CASE Poll \/ ReadDoors \/ LoadArrives \/ LoadFails
  BY <1>4, <1>2 DEF Poll, ReadDoors, LoadArrives, LoadFails
<1>5. CASE EditDoor \/ EditController \/ EditControllerDoor \/ FillForm \/ FillPanel \/ CancelDialog
  BY <1>5, <1>2 DEF EditDoor, EditController, EditControllerDoor, OpenDialog, FillForm, FillPanel, CancelDialog
<1>6. CASE SaveDoorClicked \/ DeleteClicked \/ SetupClicked
  BY <1>6, <1>2 DEF SaveDoorClicked, DeleteClicked, SetupClicked
<1>7. CASE SaveServed
  <2>1. Request(save) \/ \E d \in Doors : CreateDoor(d)
    BY <1>7 DEF SaveServed
  <2> QED  BY <2>1, <1>0, <1>1, CreateKeeps
<1>8. CASE DeleteServed \/ SetupServed \/ SaveDone \/ DeleteDone \/ SetupDone
  BY <1>8, <1>0, <1>1 DEF DeleteServed, SetupServed, SaveDone, DeleteDone, SetupDone
<1>9. CASE SaveFails \/ DeleteFails \/ SetupFails
  BY <1>9, <1>0, <1>1 DEF SaveFails, DeleteFails, SetupFails, Refused, Lost
<1>10. CASE UNCHANGED doorVars
  BY <1>10, <1>2 DEF doorVars
<1> QED  BY <1>3, <1>4, <1>5, <1>6, <1>7, <1>8, <1>9, <1>10 DEF DoorNext, Answers

\* The copy and the request for it change in four ways.
LEMMA LoadKinds ==
    ASSUME [DoorNext]_doorVars
    PROVE  \/ view' = view /\ (load' = load \/ StartLoad)
           \/ ReadDoors \/ LoadArrives \/ LoadFails
<1>1. \A h : SaveGoesOn(h) => load' = load
  BY DEF SaveGoesOn, Caught
<1>2. CASE SaveServed \/ SaveDoorClicked
  BY <1>2, <1>1 DEF SaveServed, SaveDoorClicked
<1>3. CASE Poll \/ SaveDone \/ DeleteDone \/ SetupDone
  BY <1>3 DEF Poll, SaveDone, DeleteDone, SetupDone, DoorDialogDone, ThenLoad
<1>4. CASE SaveFails \/ DeleteFails \/ SetupFails
  BY <1>4 DEF SaveFails, DeleteFails, SetupFails, Caught
<1>5. CASE DeleteServed \/ SetupServed \/ DeleteClicked \/ SetupClicked \/ EditsElsewhere
  BY <1>5 DEF DeleteServed, SetupServed, DeleteClicked, SetupClicked, EditsElsewhere
<1>6. CASE EditDoor \/ EditController \/ EditControllerDoor \/ FillForm \/ FillPanel \/ CancelDialog
  BY <1>6 DEF EditDoor, EditController, EditControllerDoor, OpenDialog, FillForm, FillPanel, CancelDialog
<1>7. CASE UNCHANGED doorVars
  BY <1>7 DEF doorVars
<1> QED  BY <1>2, <1>3, <1>4, <1>5, <1>6, <1>7 DEF DoorNext, Answers

\* A door that is on no channel and has no name is passed over in the list, and no other.
ListShowsDoors ==
    /\ ShownDoors \in [Doors -> DoorStates]
    /\ \A d \in Doors : /\ ShownDoors[d] \in {door[d], "none"}
                        /\ ShownDoors[d] = "none" => door[d] \in {"none", "live"}
                        /\ \A k \in Channels : slot[k] = d => ShownDoors[d] = door[d]

LEMMA ShownFacts == ServerTyped => ListShowsDoors
BY DEF ListShowsDoors, ServerTyped, ShownDoors, DoorStates

LEMMA LoadKeeps ==
    ASSUME ServerOK, ServerOK', Ages, LoadOK, CopiesAge, [DoorNext]_doorVars
    PROVE  LoadOK' /\ CopiesAge'
<1>1. CASE view' = view /\ load' = load
  BY <1>1 DEF LoadOK, CopiesAge, Ages
<1>2. CASE view' = view /\ StartLoad
  <2>1. CASE load' = load
    BY <2>1, <1>1, <1>2
  <2>2. CASE load' = [at |-> "sent", view |-> [view EXCEPT !.slot = slot']]
    <3>1. PICK v : v = [view EXCEPT !.slot = slot']
      OBVIOUS
    <3>2. v \in DoorCopies /\ v.door = view.door
      BY <3>1 DEF LoadOK, DoorCopies, ServerOK, ServerTyped
    <3>3. load' = [at |-> "sent", view |-> v]
      BY <2>2, <3>1
    <3>4. ChannelsDiffer(v.slot)
      BY <3>1 DEF LoadOK, DoorCopies, ServerOK, ChannelsDiffer
    <3>5. LoadOK'
      BY <1>2, <3>2, <3>3, <3>4 DEF LoadOK, ChannelsDiffer
    <3>6. CopiesAge'
      BY <1>2, <3>2, <3>3 DEF CopiesAge, Ages
    <3> QED  BY <3>5, <3>6
  <2> QED  BY <1>2, <2>1, <2>2 DEF StartLoad
<1>3. CASE ReadDoors
  <2>1. PICK v : v = [load.view EXCEPT !.door = ShownDoors, !.fields = fields]
    OBVIOUS
  <2>2. v \in DoorCopies /\ v.door = ShownDoors /\ v.slot = load.view.slot
    BY <2>1, ShownFacts DEF ListShowsDoors, LoadOK, DoorCopies, ServerOK, ServerTyped
  <2>3. load' = [load EXCEPT !.at = "read", !.view = v] /\ view' = view /\ UNCHANGED server
    BY <1>3, <2>1 DEF ReadDoors
  <2>4. load' = [at |-> "read", view |-> v]
    BY <2>3 DEF LoadOK
  <2>5. LoadOK'
    BY <2>2, <2>3, <2>4 DEF LoadOK, ChannelsDiffer
  <2>6. CopiesAge'
    BY <2>2, <2>3, <2>4, ShownFacts DEF ListShowsDoors, CopiesAge, server, Gone, ServerOK
  <2> QED  BY <2>5, <2>6
<1>4. CASE LoadArrives
  <2>1. view' = load.view /\ load' = [at |-> "idle", view |-> load.view]
    BY <1>4 DEF LoadArrives, LoadOK
  <2> QED  BY <2>1 DEF LoadOK, CopiesAge, Ages
<1>5. CASE LoadFails
  <2>1. view' = view /\ load' = [at |-> "idle", view |-> view]
    BY <1>5 DEF LoadFails
  <2> QED  BY <2>1 DEF LoadOK, CopiesAge, Ages
<1> QED  BY <1>1, <1>2, <1>3, <1>4, <1>5, LoadKinds

\* The dialogs keep to their types: what each can be opened with and closed to.
LEMMA ChannelFacts ==
    ASSUME NEW d, LoadOK
    PROVE  /\ ChannelOf(d) \in Channels \cup {Nothing}
           /\ ChannelOf(d) \in Channels => view.slot[ChannelOf(d)] = d
           /\ ChannelOf(d) = Nothing => \A k \in Channels : view.slot[k] # d
<1>1. CASE \E k \in Channels : view.slot[k] = d
  <2> DEFINE c == CHOOSE k \in Channels : view.slot[k] = d
  <2>1. c \in Channels /\ view.slot[c] = d
    BY <1>1
  <2>2. ChannelOf(d) = c
    BY <1>1 DEF ChannelOf
  <2> QED  BY <2>1, <2>2, DoorAssumption
<1>2. CASE \A k \in Channels : view.slot[k] # d
  BY <1>2, DoorAssumption DEF ChannelOf
<1> QED  BY <1>1, <1>2

LEMMA FormFacts ==
    ASSUME NEW d, NEW k \in Channels \cup {Nothing}, LoadOK
    PROVE  /\ FormOf(d, k) \in DoorForms /\ FormOf(d, k).open
           /\ \/ FormOf(d, k).oid = New /\ FormOf(d, k).original = Nothing
              \/ /\ d \in Doors /\ InList(view.door[d]) /\ FormOf(d, k).oid = d
                 /\ FormOf(d, k).original = ChannelOf(d)
<1>1. CASE d \in Doors /\ InList(view.door[d])
  <2>1. FormOf(d, k) = [open |-> TRUE, oid |-> d, original |-> ChannelOf(d), channel |-> ChannelOf(d),
                        fields |-> view.fields[d], return |-> FALSE]
    BY <1>1 DEF FormOf
  <2>2. ChannelOf(d) \in Channels \cup {Nothing} /\ view.fields[d] \in Contents
    BY <1>1, ChannelFacts DEF LoadOK, DoorCopies
  <2> QED  BY <1>1, <2>1, <2>2 DEF DoorForms
<1>2. CASE ~(d \in Doors /\ InList(view.door[d]))
  <2>1. FormOf(d, k) = [open |-> TRUE, oid |-> New, original |-> Nothing, channel |-> k,
                        fields |-> Unnamed, return |-> FALSE]
    BY <1>2 DEF FormOf
  <2> QED  BY <2>1 DEF DoorForms, Contents
<1> QED  BY <1>1, <1>2

LEMMA ClosedFacts ==
    ASSUME DialogTyped
    PROVE  /\ Shut \in DoorForms /\ [Shut EXCEPT !.return = FALSE] \in DoorForms
           /\ ~Shut.open /\ ~[Shut EXCEPT !.return = FALSE].open
           /\ Closed \in DoorForms
<1>1. Closed \in DoorForms /\ ~Closed.open
  BY DEF Closed, DoorForms, Contents
<1>2. Shut \in DoorForms /\ ~Shut.open
  BY <1>1 DEF Shut, DialogTyped, DoorForms
<1>3. PICK s : s = Shut
  OBVIOUS
<1>4. PICK t : t = [s EXCEPT !.return = FALSE]
  OBVIOUS
<1>5. t \in DoorForms /\ ~t.open
  BY <1>2, <1>3, <1>4 DEF DoorForms
<1> QED  BY <1>1, <1>2, <1>3, <1>4, <1>5

LEMMA PanelFacts ==
    ASSUME DialogTyped, NEW v \in DoorCopies
    PROVE  /\ Selects(v) \in [Channels -> Doors \cup {Nothing}]
           /\ Returned(v) \in [open : BOOLEAN, slot : [Channels -> Doors \cup {Nothing}]]
           /\ Returned(v).open = panel.open
           /\ Away \in [open : BOOLEAN, slot : [Channels -> Doors \cup {Nothing}]] /\ ~Away.open
<1>1. Selects(v) \in [Channels -> Doors \cup {Nothing}]
  BY DEF Selects, DoorCopies
<1>2. /\ Returned(v) \in [open : BOOLEAN, slot : [Channels -> Doors \cup {Nothing}]]
      /\ Returned(v).open = panel.open
  BY <1>1 DEF Returned, DialogTyped
<1> QED  BY <1>1, <1>2 DEF Away

LEMMA DialogsKeep ==
    ASSUME LoadOK, DialogTyped, [DoorNext]_doorVars PROVE DialogTyped'
<1>1. CASE UNCHANGED dialogs
  BY <1>1 DEF dialogs, DialogTyped
<1>2. CASE LoadArrives \/ LoadFails
  <2>1. PICK v \in DoorCopies : AfterLoad(v)
    BY <1>2 DEF LoadArrives, LoadFails, LoadOK
  <2>2. \/ UNCHANGED dialogs
        \/ doorForm' = [doorForm EXCEPT !.return = FALSE] /\ panel' = Returned(v)
    BY <2>1 DEF AfterLoad
  <2>3. [doorForm EXCEPT !.return = FALSE] \in DoorForms
    BY DEF DialogTyped, DoorForms
  <2> QED  BY <1>1, <2>2, <2>3, PanelFacts DEF DialogTyped
<1>3. CASE EditDoor
  <2>1. PICK d : doorForm' = [FormOf(d, Nothing) EXCEPT !.return = doorForm.return]
    BY <1>3 DEF EditDoor
  <2>2. PICK f : f = FormOf(d, Nothing)
    OBVIOUS
  <2>3. f \in DoorForms
    BY <2>2, FormFacts
  <2>4. doorForm' \in DoorForms
    BY <2>1, <2>2, <2>3 DEF DoorForms, DialogTyped
  <2> QED  BY <1>3, <2>4 DEF EditDoor, DialogTyped
<1>4. CASE EditController
  <2>1. panel' = [open |-> TRUE, slot |-> Selects(view)] /\ doorForm' = doorForm
    BY <1>4 DEF EditController
  <2> QED  BY <2>1, PanelFacts DEF DialogTyped, LoadOK
<1>5. CASE EditControllerDoor
  <2>1. PICK k \in Channels : doorForm' = [FormOf(panel.slot[k], k) EXCEPT !.channel = k, !.return = TRUE]
    BY <1>5 DEF EditControllerDoor
  <2>2. PICK f : f = FormOf(panel.slot[k], k)
    OBVIOUS
  <2>3. f \in DoorForms
    BY <2>2, FormFacts
  <2>4. doorForm' \in DoorForms
    BY <2>1, <2>2, <2>3 DEF DoorForms
  <2> QED  BY <1>5, <2>4 DEF EditControllerDoor, DialogTyped
<1>6. CASE FillForm
  <2>1. PICK f \in Settings, k \in Channels \cup {Nothing} : doorForm' = [doorForm EXCEPT !.fields = f, !.channel = k]
    BY <1>6 DEF FillForm
  <2> QED  BY <1>6, <2>1 DEF FillForm, DialogTyped, DoorForms, Contents
<1>7. CASE FillPanel
  <2>1. PICK k \in Channels, d \in Doors \cup {Nothing} : panel' = [panel EXCEPT !.slot[k] = d]
    BY <1>7 DEF FillPanel
  <2> QED  BY <1>7, <2>1 DEF FillPanel, DialogTyped
<1>8. CASE CancelDialog
  BY <1>8, ClosedFacts, PanelFacts DEF CancelDialog, DialogTyped, LoadOK
<1>9. CASE SetupClicked \/ SetupDone
  BY <1>9, PanelFacts DEF SetupClicked, SetupDone, DialogTyped, LoadOK, dialogs
<1>10. CASE SaveDone \/ DeleteDone
  <2>1. PICK e : DoorDialogDone(e)
    BY <1>10 DEF SaveDone, DeleteDone
  <2>2. /\ doorForm' = Shut \/ doorForm' = [Shut EXCEPT !.return = FALSE]
        /\ panel' = panel \/ panel' = Returned(view)
    BY <2>1 DEF DoorDialogDone
  <2>3. doorForm' \in DoorForms
    BY <2>2, ClosedFacts
  <2>4. view \in DoorCopies
    BY DEF LoadOK
  <2>5. Returned(view) \in [open : BOOLEAN, slot : [Channels -> Doors \cup {Nothing}]]
    BY <2>4, PanelFacts
  <2>6. panel' \in [open : BOOLEAN, slot : [Channels -> Doors \cup {Nothing}]]
    <3>1. CASE panel' = panel
      BY <3>1 DEF DialogTyped
    <3>2. CASE panel' = Returned(view)
      BY <3>2, <2>5
    <3> QED  BY <3>1, <3>2, <2>2
  <2> QED  BY <2>3, <2>6 DEF DialogTyped
<1>11. CASE SaveServed \/ SaveDoorClicked
  <2>1. PICK h : SaveGoesOn(h)
    BY <1>11 DEF SaveServed, SaveDoorClicked
  <2> QED  BY <2>1, <1>1 DEF SaveGoesOn, Caught
<1>12. CASE SaveFails \/ DeleteFails \/ SetupFails
  BY <1>12, <1>1 DEF SaveFails, DeleteFails, SetupFails, Caught
<1>13. CASE Poll \/ ReadDoors \/ DeleteServed \/ SetupServed \/ DeleteClicked \/ EditsElsewhere
  BY <1>13, <1>1 DEF Poll, ReadDoors, DeleteServed, SetupServed, DeleteClicked, EditsElsewhere
<1>14. CASE UNCHANGED doorVars
  BY <1>14, <1>1 DEF doorVars
<1> QED  BY <1>2, <1>3, <1>4, <1>5, <1>6, <1>7, <1>8, <1>9, <1>10, <1>11, <1>12, <1>13, <1>14
         DEF DoorNext, Answers

\* The handlers keep to their types: what each request is made from.
LEMMA MovesFacts ==
    ASSUME DialogTyped, NEW oid \in Doors PROVE IsPatch(Moves(oid))
<1>1. doorForm.channel \in Channels \cup {Nothing} /\ doorForm.original \in Channels \cup {Nothing}
  BY DEF DialogTyped, DoorForms
<1> QED  BY <1>1 DEF Moves, IsPatch

\* What saveDoor does next, by the dialog.
LEMMA AssignFacts ==
    ASSUME NEW h, IsHandler(h)
    PROVE  LET a == ToAssign(h) IN
           /\ IsHandler(a) /\ a.oid = h.oid /\ a.fields = h.fields /\ a.was = h.was
           /\ a.patch = Moves(h.oid)
           /\ \/ a.at = "taken"
              \/ a.at = "assign" /\ Moved
              \/ a.at = "relays" /\ ~Moved
<1>1. PICK m : m = Moves(h.oid)
  OBVIOUS
<1>2. PICK x : x = (IF Taken(h.oid) THEN "taken" ELSE IF Moved THEN "assign" ELSE "relays")
  OBVIOUS
<1>3. ToAssign(h) = [h EXCEPT !.at = x, !.patch = m]
  BY <1>1, <1>2 DEF ToAssign
<1>4. ToAssign(h) = [at |-> x, oid |-> h.oid, was |-> h.was, fields |-> h.fields, patch |-> m]
  BY <1>3 DEF IsHandler
<1> QED  BY <1>1, <1>2, <1>4 DEF IsHandler

LEMMA UpdateFacts ==
    ASSUME NEW h, IsHandler(h)
    PROVE  LET u == ToUpdate(h) IN
           \/ /\ IsHandler(u) /\ u.at = "update" /\ u.oid = h.oid /\ u.fields = doorForm.fields /\ u.was = h.was
           \/ u = ToAssign(h) /\ h.was # Nothing /\ doorForm.fields = h.was
<1>1. CASE h.was = Nothing \/ doorForm.fields # h.was
  <2>1. ToUpdate(h) = [h EXCEPT !.at = "update", !.fields = doorForm.fields]
    BY <1>1 DEF ToUpdate
  <2>2. ToUpdate(h) = [at |-> "update", oid |-> h.oid, was |-> h.was, fields |-> doorForm.fields, patch |-> h.patch]
    BY <2>1 DEF IsHandler
  <2> QED  BY <2>2 DEF IsHandler
<1>2. CASE ~(h.was = Nothing \/ doorForm.fields # h.was)
  BY <1>2 DEF ToUpdate
<1> QED  BY <1>1, <1>2

LEMMA AssignIsSave ==
    ASSUME DialogTyped, NEW h, IsHandler(h), h.oid \in Doors PROVE IsSave(ToAssign(h))
BY AssignFacts, MovesFacts DEF IsSave

LEMMA UpdateIsSave ==
    ASSUME DialogTyped, NEW h, IsHandler(h), h.oid \in Doors PROVE IsSave(ToUpdate(h))
<1>1. IsSave(ToAssign(h))
  BY AssignIsSave
<1>2. doorForm.fields \in Contents
  BY DEF DialogTyped, DoorForms
<1>3. PICK u : u = ToUpdate(h)
  OBVIOUS
<1>4. \/ IsHandler(u) /\ u.at = "update" /\ u.oid = h.oid /\ u.fields = doorForm.fields
      \/ u = ToAssign(h)
  BY <1>3, UpdateFacts
<1>5. IsSave(u)
  BY <1>1, <1>2, <1>4 DEF IsSave
<1> QED  BY <1>3, <1>5

LEMMA RestingFacts ==
    /\ IsHandler(Resting) /\ Resting.at = "idle" /\ IsSave(Resting)
    /\ IsHandler(Then) /\ Then.at \in {"idle", "reload"} /\ IsSave(Then)
    /\ load.at # "idle" => Then.at = "idle"
<1>1. IsHandler(Resting) /\ Resting.at = "idle"
  BY DEF Resting, IsHandler
<1>2. IsHandler(Then) /\ Then.at \in {"idle", "reload"} /\ (load.at # "idle" => Then.at = "idle")
  BY <1>1 DEF Then, IsHandler
<1> QED  BY <1>1, <1>2 DEF IsSave

LEMMA GoesOnFacts ==
    ASSUME NEW h, IsSave(h), SaveGoesOn(h)
    PROVE  /\ IsSave(save') /\ save'.at # "taken"
           /\ buttons' \subseteq buttons \cup {"save"} /\ UNCHANGED dialogs /\ load' = load
           /\ \/ save' = h
              \/ h.at = "taken" /\ save' = Resting
BY RestingFacts DEF SaveGoesOn, Caught

\* The handler of a save as it starts.
Clicked == [Resting EXCEPT !.oid = doorForm.oid,
                           !.was = IF doorForm.oid # New /\ InList(view.door[doorForm.oid]) THEN view.fields[doorForm.oid] ELSE Nothing]

LEMMA ClickedFacts ==
    /\ IsHandler(Clicked) /\ Clicked.oid = doorForm.oid
    /\ Clicked.was = IF doorForm.oid # New /\ InList(view.door[doorForm.oid]) THEN view.fields[doorForm.oid] ELSE Nothing
    /\ IsSave([Clicked EXCEPT !.at = "create"])
    /\ [Clicked EXCEPT !.at = "create"].was = Clicked.was /\ [Clicked EXCEPT !.at = "create"].at = "create"
<1>1. PICK w : w = (IF doorForm.oid # New /\ InList(view.door[doorForm.oid]) THEN view.fields[doorForm.oid] ELSE Nothing)
  OBVIOUS
<1>2. Clicked = [at |-> "idle", oid |-> doorForm.oid, was |-> w, fields |-> Unnamed, patch |-> Resting.patch]
  <2>1. PICK r : r = Resting
    OBVIOUS
  <2>2. r = [at |-> "idle", oid |-> r.oid, was |-> r.was, fields |-> Unnamed, patch |-> r.patch]
    BY <2>1 DEF Resting
  <2>3. PICK o : o = [r EXCEPT !.oid = doorForm.oid]
    OBVIOUS
  <2>4. o = [at |-> "idle", oid |-> doorForm.oid, was |-> r.was, fields |-> Unnamed, patch |-> r.patch]
    BY <2>2, <2>3
  <2>5. Clicked = [o EXCEPT !.was = w]
    BY <1>1, <2>1, <2>3, Zenon DEF Clicked
  <2> QED  BY <2>1, <2>4, <2>5
<1>3. [Clicked EXCEPT !.at = "create"] = [at |-> "create", oid |-> doorForm.oid, was |-> w, fields |-> Unnamed, patch |-> Resting.patch]
  BY <1>2
<1> QED  BY <1>1, <1>2, <1>3 DEF IsHandler, IsSave

LEMMA ClickedSave ==
    ASSUME DialogTyped, SaveDoorClicked
    PROVE  \E h : /\ IsSave(h) /\ SaveGoesOn(h)
                  /\ \/ doorForm.oid = New /\ h = [Clicked EXCEPT !.at = "create"]
                     \/ doorForm.oid \in Doors /\ h = ToUpdate(Clicked)
<1>1. SaveGoesOn(IF doorForm.oid = New THEN [Clicked EXCEPT !.at = "create"] ELSE ToUpdate(Clicked))
  BY DEF SaveDoorClicked, Clicked
<1>2. CASE doorForm.oid = New
  BY <1>1, <1>2, ClickedFacts
<1>3. CASE doorForm.oid # New
  <2>1. doorForm.oid \in Doors
    BY <1>3 DEF DialogTyped, DoorForms
  <2>2. IsSave(ToUpdate(Clicked))
    BY <2>1, ClickedFacts, UpdateIsSave
  <2> QED  BY <1>1, <1>3, <2>1, <2>2
<1> QED  BY <1>2, <1>3

LEMMA ServedSave ==
    ASSUME DialogTyped, HandlersTyped, SaveServed
    PROVE  \/ \E d \in Doors : LET h == ToUpdate([save EXCEPT !.oid = d]) IN
                 save.at = "create" /\ CreateDoor(d) /\ SaveGoesOn(h) /\ IsSave(h)
           \/ save.at = "update" /\ Request(save) /\ SaveGoesOn(ToAssign(save)) /\ IsSave(ToAssign(save))
           \/ LET h == [save EXCEPT !.at = "relays"] IN
                 save.at = "assign" /\ Request(save) /\ SaveGoesOn(h) /\ IsSave(h) /\ h.oid = save.oid /\ h.at = "relays"
<1>1. CASE save.at = "create"
  <2>1. PICK d \in Doors : CreateDoor(d) /\ SaveGoesOn(ToUpdate([save EXCEPT !.oid = d]))
    BY <1>1 DEF SaveServed
  <2>2. PICK s : s = [save EXCEPT !.oid = d]
    OBVIOUS
  <2>3. IsHandler(s) /\ s.oid \in Doors
    BY <2>2 DEF HandlersTyped, IsSave, IsHandler
  <2>4. IsSave(ToUpdate(s))
    BY <2>3, UpdateIsSave
  <2> QED  BY <1>1, <2>1, <2>2, <2>4
<1>2. CASE save.at = "update"
  <2>1. IsSave(ToAssign(save))
    BY <1>2, AssignIsSave DEF HandlersTyped, IsSave
  <2> QED  BY <1>2, <2>1 DEF SaveServed
<1>3. CASE save.at = "assign"
  <2>1. PICK h : h = [save EXCEPT !.at = "relays"]
    OBVIOUS
  <2>2. h = [at |-> "relays", oid |-> save.oid, was |-> save.was, fields |-> save.fields, patch |-> save.patch]
    BY <2>1 DEF HandlersTyped, IsSave, IsHandler
  <2>3. IsSave(h) /\ h.oid = save.oid /\ h.at = "relays"
    BY <1>3, <2>2 DEF HandlersTyped, IsSave, IsHandler
  <2> QED  BY <1>3, <2>1, <2>3 DEF SaveServed
<1> QED  BY <1>1, <1>2, <1>3 DEF SaveServed

\* A handler that starts, for the channels alone and for a door.
LEMMA AskingFacts ==
    ASSUME NEW a, NEW p
    PROVE  LET s == [Resting EXCEPT !.at = a, !.patch = p] IN IsHandler(s) /\ s.at = a /\ s.patch = p
<1>1. PICK r : r = Resting
  OBVIOUS
<1>2. r = [at |-> "idle", oid |-> r.oid, was |-> r.was, fields |-> r.fields, patch |-> r.patch]
  BY <1>1 DEF Resting
<1>3. PICK x : x = [r EXCEPT !.at = a]
  OBVIOUS
<1>4. x = [at |-> a, oid |-> r.oid, was |-> r.was, fields |-> r.fields, patch |-> r.patch]
  BY <1>2, <1>3
<1>5. PICK s : s = [x EXCEPT !.patch = p]
  OBVIOUS
<1>6. s = [at |-> a, oid |-> r.oid, was |-> r.was, fields |-> r.fields, patch |-> p]
  BY <1>4, <1>5
<1>7. IsHandler(s) /\ s.at = a /\ s.patch = p
  BY <1>6 DEF IsHandler
<1> QED  BY <1>1, <1>3, <1>5, <1>7, Zenon

LEMMA AskingFor ==
    ASSUME NEW a, NEW o, NEW p
    PROVE  LET d == [[[Resting EXCEPT !.at = a] EXCEPT !.oid = o] EXCEPT !.patch = p] IN
           d = [at |-> a, oid |-> o, was |-> Resting.was, fields |-> Resting.fields, patch |-> p]
<1>1. PICK r : r = Resting
  OBVIOUS
<1>2. r = [at |-> "idle", oid |-> r.oid, was |-> r.was, fields |-> r.fields, patch |-> r.patch]
  BY <1>1 DEF Resting
<1>3. PICK x : x = [r EXCEPT !.at = a]
  OBVIOUS
<1>4. x = [at |-> a, oid |-> r.oid, was |-> r.was, fields |-> r.fields, patch |-> r.patch]
  BY <1>2, <1>3
<1>5. PICK y : y = [x EXCEPT !.oid = o]
  OBVIOUS
<1>6. y = [at |-> a, oid |-> o, was |-> r.was, fields |-> r.fields, patch |-> r.patch]
  BY <1>4, <1>5
<1>7. PICK d : d = [y EXCEPT !.patch = p]
  OBVIOUS
<1>8. d = [at |-> a, oid |-> o, was |-> r.was, fields |-> r.fields, patch |-> p]
  BY <1>6, <1>7
<1> QED  BY <1>1, <1>3, <1>5, <1>7, <1>8, Zenon

\* A patch that clears every channel of a door, in a list of channels.
Clears(p, s, d) ==
    \A k \in Channels : /\ k \in DOMAIN p <=> s[k] = d
                        /\ k \in DOMAIN p => p[k] = Nothing

LEMMA EraseClicked ==
    ASSUME LoadOK, DialogTyped, DeleteClicked
    PROVE  /\ IsHandler(erase') /\ erase'.oid = doorForm.oid /\ doorForm.oid \in Doors
           /\ \/ erase'.at = "delete" /\ \A k \in Channels : view.slot[k] # doorForm.oid
              \/ erase'.at = "clear"
           /\ IsPatch(erase'.patch)
           /\ Clears(erase'.patch, view.slot, doorForm.oid)
<1> DEFINE those == {k \in Channels : view.slot[k] = doorForm.oid}
<1>1. PICK a : a = (IF those = {} THEN "delete" ELSE "clear")
  OBVIOUS
<1>2. PICK p : p = [k \in those |-> Nothing]
  OBVIOUS
<1>3. erase' = [Resting EXCEPT !.at = a, !.oid = doorForm.oid, !.patch = p]
  BY <1>1, <1>2, Zenon DEF DeleteClicked
<1>4. IsHandler(erase') /\ erase'.at = a /\ erase'.oid = doorForm.oid /\ erase'.patch = p
  <2>1. erase' = [at |-> a, oid |-> doorForm.oid, was |-> Resting.was, fields |-> Resting.fields, patch |-> p]
    BY <1>3, AskingFor, Zenon
  <2> QED  BY <2>1 DEF IsHandler
<1>5. doorForm.oid \in Doors
  BY DEF DeleteClicked, DialogTyped, DoorForms
<1>6. IsPatch(p)
  BY <1>2 DEF IsPatch
<1>7. Clears(p, view.slot, doorForm.oid)
  BY <1>2 DEF Clears
<1> QED  BY <1>1, <1>4, <1>5, <1>6, <1>7

LEMMA SetupAsked ==
    ASSUME LoadOK, DialogTyped, SetupClicked
    PROVE  \/ UNCHANGED <<setup, wanted, raced>> /\ panel' = Away
           \/ /\ IsHandler(setup') /\ setup'.at = "assign" /\ IsPatch(setup'.patch)
              /\ setup'.patch = [k \in {c \in Channels : panel.slot[c] # view.slot[c]} |-> panel.slot[k]]
              /\ panel' = panel /\ wanted' = [Unsaid EXCEPT !.slot = panel.slot]
              /\ raced' = (raced \/ view # Copy \/ Waits(save) \/ Waits(erase))
<1> DEFINE changed == {k \in Channels : panel.slot[k] # view.slot[k]}
<1>1. CASE changed = {}
  BY <1>1 DEF SetupClicked
<1>2. CASE changed # {}
  <2>1. PICK p : p = [k \in changed |-> panel.slot[k]]
    OBVIOUS
  <2>2. /\ setup' = [Resting EXCEPT !.at = "assign", !.patch = p]
        /\ panel' = panel /\ wanted' = [Unsaid EXCEPT !.slot = panel.slot]
        /\ raced' = (raced \/ view # Copy \/ Waits(save) \/ Waits(erase))
    BY <1>2, <2>1, Zenon DEF SetupClicked
  <2>3. IsHandler(setup') /\ setup'.at = "assign" /\ setup'.patch = p
    BY <2>2, AskingFacts, Zenon
  <2>4. IsPatch(p)
    BY <2>1 DEF IsPatch, DialogTyped
  <2> QED  BY <2>1, <2>2, <2>3, <2>4
<1> QED  BY <1>1, <1>2

\* A handler goes from one request to the next.
LEMMA OnFacts ==
    ASSUME NEW h, IsHandler(h), NEW a
    PROVE  LET n == [h EXCEPT !.at = a] IN
           IsHandler(n) /\ n.at = a /\ n.oid = h.oid /\ n.patch = h.patch
<1>1. PICK n : n = [h EXCEPT !.at = a]
  OBVIOUS
<1>2. n = [at |-> a, oid |-> h.oid, was |-> h.was, fields |-> h.fields, patch |-> h.patch]
  BY <1>1 DEF IsHandler
<1>3. IsHandler(n) /\ n.at = a /\ n.oid = h.oid /\ n.patch = h.patch
  BY <1>2 DEF IsHandler
<1> QED  BY <1>1, <1>3

HandlersOK == HandlersTyped /\ buttons \subseteq {"save", "delete", "setup"}

LEMMA HandlersKeep ==
    ASSUME LoadOK, DialogTyped, HandlersOK, [DoorNext]_doorVars PROVE HandlersOK'
<1>1. CASE UNCHANGED <<handlers, buttons>>
  BY <1>1 DEF handlers, HandlersOK, HandlersTyped, Waits, IsSave
<1>2. CASE LoadArrives \/ LoadFails
  <2>1. PICK v : AfterLoad(v)
    BY <1>2 DEF LoadArrives, LoadFails
  <2>2. /\ save' = save \/ save' = Resting
        /\ erase' = erase \/ erase' = Resting
        /\ setup' = setup \/ setup' = Resting
        /\ buttons' \subseteq buttons \cup {"save", "delete", "setup"}
    BY <2>1 DEF AfterLoad
  <2>3. HandlersTyped'
    BY <2>2, RestingFacts DEF HandlersOK, HandlersTyped, Waits, IsSave
  <2> QED  BY <2>2, <2>3 DEF HandlersOK
<1>3. CASE SaveDoorClicked \/ SaveServed
  <2>1. PICK h : IsSave(h) /\ SaveGoesOn(h)
    BY <1>3, ClickedSave, ServedSave DEF HandlersOK
  <2>2. UNCHANGED <<erase, setup>>
    BY <1>3 DEF SaveDoorClicked, SaveServed
  <2> QED  BY <2>1, <2>2, GoesOnFacts DEF HandlersOK, HandlersTyped, Waits, IsSave
<1>4. CASE SaveDone \/ SaveFails
  <2>1. /\ save' \in {Resting, Then} /\ UNCHANGED <<erase, setup>>
        /\ buttons' \subseteq buttons \cup {"save"}
    BY <1>4 DEF SaveDone, SaveFails, Caught, DoorDialogDone
  <2> QED  BY <2>1, RestingFacts DEF HandlersOK, HandlersTyped, Waits, IsSave
<1>5. CASE DeleteClicked
  <2>1. UNCHANGED <<save, setup>> /\ buttons' \subseteq buttons
    BY <1>5 DEF DeleteClicked
  <2> QED  BY <1>5, <2>1, EraseClicked DEF HandlersOK, HandlersTyped, Waits, IsSave
<1>6. CASE DeleteServed
  <2>1. PICK a \in {"delete", "rules"} : erase' = [erase EXCEPT !.at = a] /\ Waits(erase)
    BY <1>6 DEF DeleteServed, Waits
  <2>2. UNCHANGED <<save, setup, buttons>>
    BY <1>6 DEF DeleteServed
  <2>3. IsHandler(erase') /\ erase'.at = a /\ erase'.oid = erase.oid
    BY <2>1, OnFacts DEF HandlersOK, HandlersTyped
  <2> QED  BY <2>1, <2>2, <2>3 DEF HandlersOK, HandlersTyped, Waits, IsSave
<1>7. CASE DeleteDone \/ DeleteFails
  <2>1. /\ erase' \in {Resting, Then} /\ UNCHANGED <<save, setup>>
        /\ buttons' \subseteq buttons \cup {"save", "delete"}
    BY <1>7 DEF DeleteDone, DeleteFails, Caught, DoorDialogDone
  <2> QED  BY <2>1, RestingFacts DEF HandlersOK, HandlersTyped, Waits, IsSave
<1>8. CASE SetupClicked
  <2>1. UNCHANGED <<save, erase>> /\ buttons' \subseteq buttons
    BY <1>8 DEF SetupClicked
  <2> QED  BY <1>8, <2>1, SetupAsked DEF HandlersOK, HandlersTyped, Waits, IsSave
<1>9. CASE SetupServed
  <2>1. PICK a \in {"relays", "rules"} : setup' = [setup EXCEPT !.at = a]
    BY <1>9 DEF SetupServed
  <2>2. UNCHANGED <<save, erase, buttons>>
    BY <1>9 DEF SetupServed
  <2>3. IsHandler(setup') /\ setup'.at = a
    BY <2>1, OnFacts DEF HandlersOK, HandlersTyped
  <2> QED  BY <2>1, <2>2, <2>3 DEF HandlersOK, HandlersTyped, Waits, IsSave
<1>10. CASE SetupDone \/ SetupFails
  <2>1. /\ setup' \in {Resting, Then} /\ UNCHANGED <<save, erase>>
        /\ buttons' \subseteq buttons \cup {"setup"}
    BY <1>10 DEF SetupDone, SetupFails, Caught
  <2> QED  BY <2>1, RestingFacts DEF HandlersOK, HandlersTyped, Waits, IsSave
<1>11. CASE Poll \/ ReadDoors \/ EditsElsewhere
  BY <1>11, <1>1 DEF Poll, ReadDoors, EditsElsewhere
<1>12. CASE EditDoor \/ EditController \/ EditControllerDoor \/ FillForm \/ FillPanel \/ CancelDialog
  BY <1>12, <1>1 DEF EditDoor, EditController, EditControllerDoor, OpenDialog, FillForm, FillPanel, CancelDialog
<1>13. CASE UNCHANGED doorVars
  BY <1>13, <1>1 DEF doorVars
<1> QED  BY <1>2, <1>3, <1>4, <1>5, <1>6, <1>7, <1>8, <1>9, <1>10, <1>11, <1>12, <1>13
         DEF DoorNext, Answers

OnlyOn(d, c) == \A k \in Channels : slot[k] = d <=> k = c

\* One handler has a request in flight, at most.
OneWaits == ~(Waits(save) /\ Waits(erase)) /\ ~(Waits(save) /\ Waits(setup)) /\ ~(Waits(erase) /\ Waits(setup))

\* No request is in flight that takes a door away or moves one.
Settled == save.at \notin {"assign", "relays"} /\ ~Waits(erase) /\ ~Waits(setup)

\* What the dialogs are about, and what the copy knows.
PanelIsLive ==
    panel.open => \A k \in Channels : panel.slot[k] # Nothing => door[panel.slot[k]] = "live"
FormIsLive ==
    doorForm.open => \/ doorForm.oid = New /\ doorForm.original = Nothing
                     \/ doorForm.oid \in Doors /\ door[doorForm.oid] = "live" /\ OnlyOn(doorForm.oid, doorForm.original)
GoneIsKnown == \A d \in Doors : Gone(door[d]) => Gone(view.door[d])

DialogsAreLive == PanelIsLive /\ FormIsLive /\ GoneIsKnown

\* What moves a door from channel o to channel c.
MoveOf(d, o, c) == [k \in {c, o} \ {Nothing} |-> IF k = c THEN d ELSE Nothing]

\* What each handler has done when it sends its next request, and what that request is.
SaveOK ==
    /\ save.at = "create" =>
         /\ save.was = Nothing /\ doorForm.original = Nothing
         /\ doorForm.fields \in wanted.fields /\ doorForm.channel \in wanted.channels
    /\ save.at \in {"update", "assign", "relays"} => door[save.oid] = "live"
    /\ save.at = "update" =>
         /\ save.fields \in wanted.fields /\ doorForm.channel \in wanted.channels
         /\ OnlyOn(save.oid, doorForm.original)
    /\ save.at \in {"assign", "relays"} => fields[save.oid] \in wanted.fields
    /\ save.at = "assign" =>
         \E o \in Channels \cup {Nothing}, c \in wanted.channels :
            OnlyOn(save.oid, o) /\ o # c /\ save.patch = MoveOf(save.oid, o, c)
    /\ save.at = "relays" => \E c \in wanted.channels : OnlyOn(save.oid, c)
EraseOK ==
    /\ erase.at = "clear" => Clears(erase.patch, slot, erase.oid)
    /\ erase.at \in {"delete", "rules"} => \A k \in Channels : slot[k] # erase.oid
    /\ erase.at = "rules" => door[erase.oid] # "live"
SetupOK ==
    /\ setup.at = "assign" => Patched(setup.patch) = wanted.slot
    /\ setup.at \in {"relays", "rules"} => slot = wanted.slot
    /\ setup.at = "rules" => "relays" \notin behind

Undisturbed == OneWaits /\ (Settled => DialogsAreLive) /\ SaveOK /\ EraseOK /\ SetupOK

\* The invariant.
DoorsOK ==
    /\ ServerOK /\ LoadOK /\ DialogTyped /\ HandlersOK /\ CopiesAge
    /\ ~raced => Undisturbed

\* A copy that is up to date knows every door on a channel.
LEMMA CopyFacts ==
    ASSUME ServerOK, LoadOK, view = Copy
    PROVE  /\ view.slot = slot /\ view.fields = fields
           /\ \A d \in Doors : /\ InList(view.door[d]) => view.door[d] = door[d]
                               /\ Gone(door[d]) => Gone(view.door[d])
                               /\ \A k \in Channels : slot[k] = d => view.door[d] = door[d]
<1>1. view.slot = slot /\ view.fields = fields /\ view.door = ShownDoors
  BY DEF Copy
<1> QED  BY <1>1, ShownFacts DEF ListShowsDoors, ServerOK, InList, Gone

\* No handler waits: there is nothing to say of what they do.
LEMMA NoneWaits ==
    ASSUME ~Waits(save), ~Waits(erase), ~Waits(setup), DialogsAreLive
    PROVE  Undisturbed
BY DEF Undisturbed, OneWaits, Waits, SaveOK, EraseOK, SetupOK

\* Nothing changes but what the copy and the loads know.
LEMMA KeptUndisturbed ==
    ASSUME Undisturbed, UNCHANGED <<server, handlers, wanted, dialogs>>, GoneIsKnown => GoneIsKnown'
    PROVE  Undisturbed'
<1>1. (Settled => DialogsAreLive)'
  BY DEF Undisturbed, Settled, DialogsAreLive, PanelIsLive, FormIsLive, OnlyOn, server, handlers, dialogs, Waits
<1>2. SaveOK' /\ EraseOK' /\ SetupOK' /\ OneWaits'
  BY DEF Undisturbed, OneWaits, SaveOK, EraseOK, SetupOK, OnlyOn, Patched, server, handlers, dialogs, Waits
<1> QED  BY <1>1, <1>2 DEF Undisturbed

\* Nothing came between: one lemma for each group of steps.
LEMMA LoadUndisturbed ==
    ASSUME DoorsOK, LoadArrives \/ LoadFails, ~raced' PROVE Undisturbed'
<1>1. PICK v \in {load.view, view} : AfterLoad(v) /\ view' = v /\ UNCHANGED <<server, wanted>>
  BY DEF LoadArrives, LoadFails
<1>2. v \in DoorCopies
  BY DEF DoorsOK, LoadOK
<1>3. \A d \in Doors : Gone(view.door[d]) => Gone(v.door[d])
  BY DEF DoorsOK, CopiesAge
<1>4. /\ save' = save \/ (save.at = "reload" /\ save' = Resting)
      /\ erase' = erase \/ (erase.at = "reload" /\ erase' = Resting)
      /\ setup' = setup \/ (setup.at = "reload" /\ setup' = Resting)
  BY <1>1 DEF AfterLoad
<1>5. /\ Waits(save') = Waits(save) /\ Waits(erase') = Waits(erase) /\ Waits(setup') = Waits(setup)
      /\ Waits(save) => save' = save
      /\ Waits(erase) => erase' = erase
      /\ Waits(setup) => setup' = setup
  BY <1>4, RestingFacts DEF Waits
<1>6. CASE save.at = "reload" \/ erase.at = "reload"
  <2>1. /\ doorForm' = [doorForm EXCEPT !.return = FALSE] /\ panel' = Returned(v)
        /\ Returns /\ ~doorForm.open /\ ~Busy /\ v = Copy
    BY <1>1, <1>6 DEF AfterLoad
  <2>2. ~doorForm'.open /\ panel'.slot = Selects(v)
    BY <2>1 DEF DoorsOK, DialogTyped, DoorForms, Returned
  <2>3. /\ v.slot = slot
        /\ \A d \in Doors : /\ v.door[d] = "live" => door[d] = "live"
                            /\ Gone(door[d]) => Gone(v.door[d])
    BY <2>1, ShownFacts DEF ListShowsDoors, Copy, DoorsOK, ServerOK, Gone
  <2>4. \A k \in Channels : Selects(v)[k] # Nothing => Selects(v)[k] \in Doors /\ v.door[Selects(v)[k]] = "live"
    BY <1>2 DEF Selects, DoorCopies
  <2>5. DialogsAreLive'
    BY <1>1, <2>2, <2>3, <2>4 DEF DialogsAreLive, PanelIsLive, FormIsLive, GoneIsKnown, server
  <2>6. ~Waits(save') /\ ~Waits(erase') /\ ~Waits(setup')
    BY <1>5, <2>1 DEF Busy
  <2> QED  BY <2>5, <2>6 DEF Undisturbed, OneWaits, Waits, SaveOK, EraseOK, SetupOK
<1>7. CASE ~(save.at = "reload" \/ erase.at = "reload")
  <2>1. UNCHANGED <<doorForm, panel, raced>> /\ save' = save /\ erase' = erase
    BY <1>1, <1>4, <1>7 DEF AfterLoad, dialogs
  <2>2. Undisturbed
    BY <2>1 DEF DoorsOK
  <2>3. Settled' = Settled
    BY <1>5, <2>1 DEF Settled, Waits
  <2>4. Settled => DialogsAreLive'
    BY <1>1, <1>3, <2>1, <2>2 DEF Undisturbed, DialogsAreLive, PanelIsLive, FormIsLive, GoneIsKnown, OnlyOn, server
  <2>5. SaveOK' /\ EraseOK'
    BY <1>1, <2>1, <2>2 DEF Undisturbed, SaveOK, EraseOK, OnlyOn, server
  <2>6. SetupOK'
    BY <1>1, <1>5, <2>2 DEF Undisturbed, SetupOK, Patched, server, Waits
  <2>7. OneWaits'
    BY <1>5, <2>2 DEF Undisturbed, OneWaits, Waits
  <2> QED  BY <2>3, <2>4, <2>5, <2>6, <2>7 DEF Undisturbed
<1> QED  BY <1>6, <1>7

\* The form of a door that the copy has, when the copy is up to date.
LEMMA FreshForm ==
    ASSUME ServerOK, LoadOK, view = Copy, NEW d, NEW k \in Channels \cup {Nothing},
           d \in Doors /\ InList(view.door[d]) => door[d] = "live"
    PROVE  LET f == FormOf(d, k) IN
           \/ f.oid = New /\ f.original = Nothing
           \/ f.oid \in Doors /\ door[f.oid] = "live" /\ OnlyOn(f.oid, f.original)
<1>1. CASE FormOf(d, k).oid = New /\ FormOf(d, k).original = Nothing
  BY <1>1
<1>2. CASE d \in Doors /\ InList(view.door[d]) /\ FormOf(d, k).oid = d /\ FormOf(d, k).original = ChannelOf(d)
  <2>1. view.slot = slot
    BY CopyFacts
  <2>2. OnlyOn(d, ChannelOf(d))
    BY <1>2, <2>1, ChannelFacts, DoorAssumption DEF OnlyOn, ServerOK, ChannelsDiffer
  <2> QED  BY <1>2, <2>2
<1> QED  BY <1>1, <1>2, FormFacts

LEMMA OpenUndisturbed ==
    ASSUME DoorsOK, EditDoor \/ EditController \/ EditControllerDoor, ~raced' PROVE Undisturbed'
<1>1. /\ view = Copy /\ ~Busy /\ ~(panel.open /\ raced)
      /\ UNCHANGED <<server, view, handlers>>
  BY DEF EditDoor, EditController, EditControllerDoor, OpenDialog
<1>2. ~Waits(save') /\ ~Waits(erase') /\ ~Waits(setup')
  BY <1>1 DEF Busy, handlers
<1>3. /\ view.slot = slot
      /\ \A d \in Doors : /\ InList(view.door[d]) => view.door[d] = door[d]
                          /\ Gone(door[d]) => Gone(view.door[d])
  BY <1>1, CopyFacts DEF DoorsOK
<1>4. GoneIsKnown'
  BY <1>1, <1>3 DEF GoneIsKnown, server
<1>5. PanelIsLive' /\ FormIsLive'
  <2>1. CASE EditDoor
    <3>1. PICK d \in {e \in Doors : view.door[e] = "live"} \cup {New} :
             doorForm' = [FormOf(d, Nothing) EXCEPT !.return = doorForm.return]
      BY <2>1 DEF EditDoor
    <3>2. d \in Doors /\ InList(view.door[d]) => door[d] = "live"
      BY <3>1, <1>3, DoorAssumption DEF InList
    <3>3. PICK f : f = FormOf(d, Nothing)
      OBVIOUS
    <3>4. \/ f.oid = New /\ f.original = Nothing
          \/ f.oid \in Doors /\ door[f.oid] = "live" /\ OnlyOn(f.oid, f.original)
      BY <1>1, <3>2, <3>3, FreshForm DEF DoorsOK
    <3>5. f \in DoorForms
      BY <3>3, FormFacts DEF DoorsOK
    <3>6. doorForm'.oid = f.oid /\ doorForm'.original = f.original
      BY <3>1, <3>3, <3>5 DEF DoorForms
    <3>7. FormIsLive'
      BY <1>1, <3>4, <3>6 DEF FormIsLive, OnlyOn, server
    <3>8. PanelIsLive'
      BY <2>1 DEF EditDoor, PanelIsLive
    <3> QED  BY <3>7, <3>8
  <2>2. CASE EditController
    <3>1. panel' = [open |-> TRUE, slot |-> Selects(view)] /\ doorForm' = doorForm /\ ~doorForm.open
      BY <2>2 DEF EditController
    <3>2. panel'.slot = Selects(view)
      BY <3>1
    <3>3. \A k \in Channels : Selects(view)[k] # Nothing => Selects(view)[k] \in Doors /\ view.door[Selects(view)[k]] = "live"
      BY DEF Selects, DoorCopies, DoorsOK, LoadOK
    <3> QED  BY <1>1, <1>3, <3>1, <3>2, <3>3 DEF PanelIsLive, FormIsLive, InList, server
  <2>3. CASE EditControllerDoor
    <3>1. PICK k \in Channels : doorForm' = [FormOf(panel.slot[k], k) EXCEPT !.channel = k, !.return = TRUE]
      BY <2>3 DEF EditControllerDoor
    <3>2. panel' = panel /\ panel.open
      BY <2>3 DEF EditControllerDoor
    <3>3. PanelIsLive
      BY <1>1, <3>2 DEF DoorsOK, Undisturbed, Settled, DialogsAreLive, Busy, Waits
    <3>4. panel.slot[k] \in Doors => door[panel.slot[k]] = "live"
      BY <3>2, <3>3, DoorAssumption DEF PanelIsLive
    <3>5. PICK f : f = FormOf(panel.slot[k], k)
      OBVIOUS
    <3>6. \/ f.oid = New /\ f.original = Nothing
          \/ f.oid \in Doors /\ door[f.oid] = "live" /\ OnlyOn(f.oid, f.original)
      BY <1>1, <3>4, <3>5, FreshForm DEF DoorsOK
    <3>7. f \in DoorForms
      BY <3>5, FormFacts DEF DoorsOK
    <3>8. doorForm'.oid = f.oid /\ doorForm'.original = f.original
      BY <3>1, <3>5, <3>7 DEF DoorForms
    <3>9. FormIsLive'
      BY <1>1, <3>6, <3>8 DEF FormIsLive, OnlyOn, server
    <3>10. PanelIsLive'
      BY <1>1, <3>2, <3>3 DEF PanelIsLive, server
    <3> QED  BY <3>9, <3>10
  <2> QED  BY <2>1, <2>2, <2>3
<1> QED  BY <1>2, <1>4, <1>5 DEF Undisturbed, OneWaits, Waits, SaveOK, EraseOK, SetupOK, DialogsAreLive

LEMMA FillUndisturbed ==
    ASSUME DoorsOK, FillForm \/ FillPanel \/ CancelDialog, ~raced' PROVE Undisturbed'
<1>1. UNCHANGED <<server, view, handlers>> /\ (FillForm \/ wanted' = wanted)
  BY DEF FillForm, FillPanel, CancelDialog, history
<1>2. Undisturbed
  BY DEF FillForm, FillPanel, CancelDialog, history, DoorsOK
<1>3. OneWaits' /\ EraseOK' /\ SetupOK'
  <2>1. wanted'.slot = wanted.slot
    <3>1. CASE FillForm
      <4>1. PICK f \in Settings, k \in Channels \cup {Nothing} : wanted' = Seen(f, k)
        BY <3>1 DEF FillForm
      <4> QED  BY <4>1 DEF Seen
    <3> QED  BY <1>1, <3>1
  <2> QED  BY <1>1, <1>2, <2>1 DEF Undisturbed, OneWaits, EraseOK, SetupOK, Patched, server, handlers, Waits
<1>4. CASE FillForm
  <2>1. panel' = panel
    BY <1>4 DEF FillForm
  <2>2. doorForm'.oid = doorForm.oid /\ doorForm'.original = doorForm.original /\ doorForm'.open = doorForm.open
    BY <1>4 DEF FillForm, DoorsOK, DialogTyped, DoorForms
  <2>3. (Settled => DialogsAreLive)'
    BY <1>1, <1>2, <2>1, <2>2
       DEF Undisturbed, Settled, DialogsAreLive, PanelIsLive, FormIsLive, GoneIsKnown, OnlyOn, server, handlers, Waits
  <2>4. PICK f \in Settings, k \in Channels \cup {Nothing} :
           doorForm' = [doorForm EXCEPT !.fields = f, !.channel = k] /\ wanted' = Seen(f, k)
    BY <1>4 DEF FillForm
  <2>5. doorForm'.fields = f /\ doorForm'.channel = k
    BY <2>4 DEF DoorsOK, DialogTyped, DoorForms
  <2>6. /\ wanted.fields \subseteq wanted'.fields /\ wanted.channels \subseteq wanted'.channels
        /\ save.at = "create" => f \in wanted'.fields
        /\ save.at \in {"create", "update"} => k \in wanted'.channels
    BY <2>4 DEF Seen
  <2>7. SaveOK'
    BY <1>1, <1>2, <2>2, <2>5, <2>6 DEF Undisturbed, SaveOK, OnlyOn, server, handlers
  <2> QED  BY <1>3, <2>3, <2>7 DEF Undisturbed
<1>5. CASE FillPanel
  <2>1. PICK k \in Channels, d \in {e \in Doors : view.door[e] = "live"} \cup {Nothing} : panel' = [panel EXCEPT !.slot[k] = d]
    BY <1>5 DEF FillPanel
  <2>2. /\ panel'.open /\ panel.open /\ doorForm' = doorForm
        /\ \A m \in Channels : panel'.slot[m] = IF m = k THEN d ELSE panel.slot[m]
    BY <1>5, <2>1 DEF FillPanel, DoorsOK, DialogTyped
  <2>3. ASSUME Settled, d # Nothing PROVE door[d] = "live"
    <3>1. d \in Doors /\ view.door[d] = "live" /\ ~Gone(door[d])
      BY <1>2, <2>1, <2>3 DEF Undisturbed, DialogsAreLive, GoneIsKnown, Gone
    <3>2. door[d] # "none"
      BY <3>1 DEF DoorsOK, CopiesAge
    <3> QED  BY <3>1, <3>2 DEF DoorsOK, ServerOK, ServerTyped, DoorStates, Gone
  <2>4. (Settled => DialogsAreLive)'
    BY <1>1, <1>2, <2>2, <2>3
       DEF Undisturbed, Settled, DialogsAreLive, PanelIsLive, FormIsLive, GoneIsKnown, OnlyOn, server, handlers, Waits
  <2>5. SaveOK'
    <3>1. doorForm' = doorForm /\ wanted' = wanted /\ SaveOK
      BY <1>2, <1>5, <2>2 DEF Undisturbed, FillPanel, history
    <3> QED  BY <1>1, <3>1 DEF SaveOK, OnlyOn, server, handlers
  <2> QED  BY <1>3, <2>4, <2>5 DEF Undisturbed
<1>6. CASE CancelDialog
  <2>0. wanted' = wanted
    BY <1>6 DEF CancelDialog, history
  <2>1. CASE doorForm' = doorForm /\ panel' = Away
    <3>1. (Settled => DialogsAreLive)'
      BY <1>1, <1>2, <2>1
         DEF Undisturbed, Settled, DialogsAreLive, PanelIsLive, FormIsLive, GoneIsKnown, OnlyOn, server, handlers, Waits, Away
    <3>2. SaveOK'
      BY <1>1, <1>2, <2>0, <2>1 DEF Undisturbed, SaveOK, OnlyOn, server, handlers
    <3> QED  BY <1>3, <3>1, <3>2 DEF Undisturbed
  <2>2. CASE doorForm' \in {Shut, [Shut EXCEPT !.return = FALSE]} /\ panel' = panel
    <3>1. ~doorForm'.open
      BY <2>2, ClosedFacts DEF DoorsOK
    <3>2. (Settled => DialogsAreLive)'
      BY <1>1, <1>2, <2>2, <3>1
         DEF Undisturbed, Settled, DialogsAreLive, PanelIsLive, FormIsLive, GoneIsKnown, server, handlers, Waits
    <3>3. save.at \in {"create", "update"} =>
             /\ doorForm'.channel = doorForm.channel /\ doorForm'.original = doorForm.original
             /\ doorForm'.fields = doorForm.fields
      <4>1. ASSUME save.at \in {"create", "update"}
            PROVE  /\ doorForm'.channel = doorForm.channel /\ doorForm'.original = doorForm.original
                   /\ doorForm'.fields = doorForm.fields
        <5>1. PICK s : s = [doorForm EXCEPT !.open = FALSE]
          OBVIOUS
        <5>2. s \in DoorForms /\ s.channel = doorForm.channel /\ s.original = doorForm.original /\ s.fields = doorForm.fields
          BY <5>1 DEF DoorsOK, DialogTyped, DoorForms
        <5>3. doorForm' = s \/ doorForm' = [s EXCEPT !.return = FALSE]
          BY <2>2, <4>1, <5>1 DEF Shut
        <5> QED  BY <5>2, <5>3 DEF DoorForms
      <4> QED  BY <4>1
    <3>4. SaveOK'
      BY <1>1, <1>2, <2>0, <3>3 DEF Undisturbed, SaveOK, OnlyOn, server, handlers
    <3> QED  BY <1>3, <3>2, <3>4 DEF Undisturbed
  <2> QED  BY <1>6, <2>1, <2>2 DEF CancelDialog
<1> QED  BY <1>4, <1>5, <1>6

\* The channels that change when the dialog moves a door that is where the dialog was opened on.
LEMMA MovesSay ==
    ASSUME DialogTyped, NEW oid, Moved, OnlyOn(oid, doorForm.original)
    PROVE  \E o \in Channels \cup {Nothing} :
              /\ OnlyOn(oid, o) /\ o # doorForm.channel
              /\ Moves(oid) = MoveOf(oid, o, doorForm.channel)
<1>1. doorForm.original \in Channels \cup {Nothing}
  BY DEF DialogTyped, DoorForms
<1>2. Moves(oid) = MoveOf(oid, doorForm.original, doorForm.channel)
  BY DEF Moves, MoveOf
<1> QED  BY <1>1, <1>2 DEF Moved

LEMMA AssignIsOK ==
    ASSUME DialogTyped, Moved, save'.at = "assign", save'.patch = Moves(save'.oid),
           OnlyOn(save'.oid, doorForm.original), slot' = slot,
           doorForm.channel \in wanted'.channels,
           door'[save'.oid] = "live", fields'[save'.oid] \in wanted'.fields
    PROVE  SaveOK'
<1>1. PICK d : d = save'.oid
  OBVIOUS
<1>2. PICK o \in Channels \cup {Nothing} :
         /\ OnlyOn(d, o) /\ o # doorForm.channel
         /\ Moves(d) = MoveOf(d, o, doorForm.channel)
  BY <1>1, MovesSay
<1>3. save'.patch = MoveOf(save'.oid, o, doorForm.channel)
  BY <1>1, <1>2
<1>4. OnlyOn(save.oid, o)' /\ o # doorForm.channel
  BY <1>1, <1>2 DEF OnlyOn
<1> QED  BY <1>3, <1>4 DEF SaveOK

LEMMA ClickUndisturbed ==
    ASSUME DoorsOK, SaveDoorClicked, ~raced' PROVE Undisturbed'
<1>1. /\ ~raced /\ view = Copy /\ ~Waits(erase) /\ ~Waits(setup) /\ save.at = "idle" /\ doorForm.open
      /\ UNCHANGED <<server, view, erase, setup>>
  BY DEF SaveDoorClicked
<1>2. Undisturbed /\ DialogsAreLive
  BY <1>1 DEF DoorsOK, Undisturbed, Settled
<1>3. wanted'.fields = {doorForm.fields} /\ wanted'.channels = {doorForm.channel}
  BY DEF SaveDoorClicked
<1>4. PICK h : /\ IsSave(h) /\ SaveGoesOn(h)
               /\ \/ doorForm.oid = New /\ h = [Clicked EXCEPT !.at = "create"]
                  \/ doorForm.oid \in Doors /\ h = ToUpdate(Clicked)
  BY ClickedSave DEF DoorsOK
<1>5. UNCHANGED dialogs /\ (save' = h \/ save' = Resting)
  BY <1>4, GoesOnFacts
<1>6. EraseOK' /\ SetupOK'
  BY <1>1 DEF EraseOK, SetupOK, Waits
<1>7. OneWaits'
  BY <1>1 DEF OneWaits, Waits
<1>8. DialogsAreLive'
  BY <1>1, <1>2, <1>5 DEF DialogsAreLive, PanelIsLive, FormIsLive, GoneIsKnown, OnlyOn, server, dialogs
<1>9. CASE save' = Resting
  <2>1. SaveOK'
    BY <1>9, RestingFacts DEF SaveOK
  <2> QED  BY <1>6, <1>7, <1>8, <2>1 DEF Undisturbed
<1>10. CASE save' = h /\ doorForm.oid = New /\ h = [Clicked EXCEPT !.at = "create"]
  <2>1. save'.at = "create" /\ save'.was = Nothing
    BY <1>10, ClickedFacts
  <2>2. doorForm.original = Nothing
    BY <1>1, <1>2, <1>10, DoorAssumption DEF DialogsAreLive, FormIsLive
  <2>3. SaveOK'
    BY <1>3, <1>5, <2>1, <2>2 DEF SaveOK, dialogs
  <2> QED  BY <1>6, <1>7, <1>8, <2>3 DEF Undisturbed
<1>11. CASE save' = h /\ doorForm.oid \in Doors /\ h = ToUpdate(Clicked)
  <2>1. door[doorForm.oid] = "live" /\ OnlyOn(doorForm.oid, doorForm.original)
    BY <1>1, <1>2, <1>11, DoorAssumption DEF DialogsAreLive, FormIsLive
  <2>2. IsHandler(Clicked) /\ Clicked.oid = doorForm.oid
    BY ClickedFacts
  <2>3. CASE h.at = "update" /\ h.oid = doorForm.oid /\ h.fields = doorForm.fields
    <3>1. SaveOK'
      BY <1>1, <1>3, <1>5, <1>11, <2>1, <2>3 DEF SaveOK, OnlyOn, server, dialogs
    <3> QED  BY <1>6, <1>7, <1>8, <3>1 DEF Undisturbed
  <2>4. CASE h = ToAssign(Clicked) /\ Clicked.was # Nothing /\ doorForm.fields = Clicked.was
    <3>1. h.oid = doorForm.oid /\ h.patch = Moves(doorForm.oid)
      BY <2>2, <2>4, AssignFacts
    <3>2. (h.at = "assign" /\ Moved) \/ (h.at = "relays" /\ ~Moved)
      BY <1>4, <1>11, <2>2, <2>4, AssignFacts, GoesOnFacts
    <3>3. fields[doorForm.oid] = doorForm.fields
      BY <1>1, <2>4, ClickedFacts, CopyFacts DEF DoorsOK
    <3>4. CASE h.at = "relays" /\ ~Moved
      <4>1. OnlyOn(doorForm.oid, doorForm.channel)
        BY <2>1, <3>4 DEF Moved
      <4>2. SaveOK'
        BY <1>1, <1>3, <1>11, <2>1, <3>1, <3>3, <3>4, <4>1 DEF SaveOK, OnlyOn, server
      <4> QED  BY <1>6, <1>7, <1>8, <4>2 DEF Undisturbed
    <3>5. CASE h.at = "assign" /\ Moved
      <4>0. /\ save'.at = "assign" /\ save'.oid = doorForm.oid /\ save'.patch = Moves(save'.oid)
            /\ slot' = slot /\ door' = door /\ fields' = fields
        BY <1>1, <1>11, <3>1, <3>5 DEF server
      <4>1. SaveOK'
        BY <1>3, <2>1, <3>3, <3>5, <4>0, AssignIsOK DEF DoorsOK
      <4> QED  BY <1>6, <1>7, <1>8, <4>1 DEF Undisturbed
    <3> QED  BY <3>2, <3>4, <3>5
  <2> QED  BY <1>11, <2>2, <2>3, <2>4, UpdateFacts
<1> QED  BY <1>4, <1>5, <1>9, <1>10, <1>11

LEMMA MovedIsThere ==
    ASSUME ServerTyped, NEW d \in Doors, NEW o, NEW c, OnlyOn(d, o), o # c, slot' = Patched(MoveOf(d, o, c))
    PROVE  OnlyOn(d, c)'
<1> SUFFICES ASSUME NEW k \in Channels PROVE slot'[k] = d <=> k = c
  BY DEF OnlyOn
<1>1. PICK p : p = MoveOf(d, o, c)
  OBVIOUS
<1>2. /\ k \in DOMAIN p <=> k \in {c, o} \ {Nothing}
      /\ k \in {c, o} \ {Nothing} => p[k] = IF k = c THEN d ELSE Nothing
  BY <1>1 DEF MoveOf
<1>3. slot'[k] = IF k \in DOMAIN p THEN p[k] ELSE slot[k]
  BY <1>1 DEF Patched
<1>4. slot[k] = d <=> k = o
  BY DEF OnlyOn
<1> QED  BY <1>2, <1>3, <1>4, DoorAssumption

LEMMA SaveServedUndisturbed ==
    ASSUME DoorsOK, SaveServed, ~raced' PROVE Undisturbed'
<1>1. UNCHANGED <<view, erase, setup, wanted>> /\ Undisturbed
  BY DEF SaveServed, history, DoorsOK
<1>2. Waits(save) /\ ~Waits(erase) /\ ~Waits(setup)
  BY <1>1 DEF SaveServed, Waits, Undisturbed, OneWaits
<1>3. EraseOK' /\ SetupOK' /\ OneWaits'
  BY <1>1, <1>2 DEF EraseOK, SetupOK, OneWaits, Waits
<1>4. save.oid \in Doors \/ save.at = "create"
  BY <1>2 DEF DoorsOK, HandlersOK, HandlersTyped, IsSave, Waits
<1>5. ASSUME NEW d \in Doors, NEW h, h = ToUpdate([save EXCEPT !.oid = d]),
             save.at = "create", CreateDoor(d), SaveGoesOn(h), IsSave(h)
      PROVE  Undisturbed'
  <2>1. PICK s : s = [save EXCEPT !.oid = d]
    OBVIOUS
  <2>2. s = [at |-> save.at, oid |-> d, was |-> save.was, fields |-> save.fields, patch |-> save.patch]
    BY <2>1 DEF DoorsOK, HandlersOK, HandlersTyped, IsSave, IsHandler
  <2>3. IsHandler(s) /\ s.oid = d /\ s.was = Nothing
    BY <1>1, <1>5, <2>2 DEF IsHandler, Undisturbed, SaveOK
  <2>4. h.at = "update" /\ h.oid = d /\ h.fields = doorForm.fields
    BY <1>5, <2>1, <2>3, UpdateFacts
  <2>5. save' = h /\ UNCHANGED dialogs
    BY <1>5, <2>4, GoesOnFacts
  <2>6. door[d] = "none" /\ door' = [door EXCEPT ![d] = "live"] /\ slot' = slot
    BY <1>5 DEF CreateDoor, UpdateDoors
  <2>7. door'[d] = "live" /\ \A e \in Doors : e # d => door'[e] = door[e]
    BY <2>6 DEF DoorsOK, ServerOK, ServerTyped
  <2>8. OnlyOn(d, Nothing)'
    BY <2>6, DoorAssumption DEF OnlyOn, DoorsOK, ServerOK, AllMade
  <2>9. SaveOK'
    BY <1>1, <1>5, <2>4, <2>5, <2>7, <2>8 DEF SaveOK, Undisturbed, dialogs
  <2>10. DialogsAreLive
    BY <1>1, <1>2, <1>5 DEF Undisturbed, Settled
  <2>11. PanelIsLive'
    BY <2>5, <2>6, <2>7, <2>10 DEF DialogsAreLive, PanelIsLive, dialogs, DoorsOK, DialogTyped
  <2>12. FormIsLive'
    BY <2>5, <2>6, <2>7, <2>10 DEF DialogsAreLive, FormIsLive, dialogs, OnlyOn
  <2>13. GoneIsKnown'
    BY <1>1, <2>7, <2>10 DEF DialogsAreLive, GoneIsKnown, Gone
  <2> QED  BY <1>3, <2>9, <2>11, <2>12, <2>13 DEF Undisturbed, DialogsAreLive
<1>6. ASSUME save.at = "update", Request(save), SaveGoesOn(ToAssign(save)), IsSave(ToAssign(save))
      PROVE  Undisturbed'
  <2>1. PICK h : h = ToAssign(save)
    OBVIOUS
  <2>2. /\ h.oid = save.oid /\ h.patch = Moves(save.oid)
        /\ h.at = "taken" \/ (h.at = "assign" /\ Moved) \/ (h.at = "relays" /\ ~Moved)
    BY <2>1, AssignFacts DEF DoorsOK, HandlersOK, HandlersTyped, IsSave
  <2>3. UNCHANGED dialogs /\ (save' = h \/ (h.at = "taken" /\ save' = Resting)) /\ save'.at # "taken"
    BY <1>6, <2>1, GoesOnFacts
  <2>4. save.oid \in Doors /\ UpdateDoor(save.oid, save.fields)
    BY <1>4, <1>6 DEF Request
  <2>5. /\ door[save.oid] = "live" /\ save.fields \in wanted.fields /\ doorForm.channel \in wanted.channels
        /\ OnlyOn(save.oid, doorForm.original)
    BY <1>1, <1>6 DEF Undisturbed, SaveOK
  <2>6. door' = door /\ slot' = slot /\ fields' = [fields EXCEPT ![save.oid] = save.fields]
    BY <2>4, <2>5 DEF UpdateDoor, UpdateDoors, With
  <2>8. fields'[save.oid] \in wanted.fields
    BY <2>4, <2>5, <2>6 DEF DoorsOK, ServerOK, ServerTyped
  <2>9. DialogsAreLive
    BY <1>1, <1>2, <1>6 DEF Undisturbed, Settled
  <2>10. DialogsAreLive'
    BY <1>1, <2>3, <2>6, <2>9 DEF DialogsAreLive, PanelIsLive, FormIsLive, GoneIsKnown, OnlyOn, dialogs
  <2>11. CASE save' = Resting
    <3>1. SaveOK'
      BY <2>11, RestingFacts DEF SaveOK
    <3> QED  BY <1>3, <2>10, <3>1 DEF Undisturbed
  <2>12. CASE save' = h /\ h.at = "relays" /\ ~Moved
    <3>1. OnlyOn(save.oid, doorForm.channel)
      BY <2>5, <2>12 DEF Moved
    <3>2. SaveOK'
      BY <1>1, <2>2, <2>5, <2>6, <2>8, <2>12, <3>1 DEF SaveOK, OnlyOn
    <3> QED  BY <1>3, <2>10, <3>2 DEF Undisturbed
  <2>13. CASE save' = h /\ h.at = "assign" /\ Moved
    <3>1. /\ OnlyOn(save.oid, doorForm.original) /\ save'.oid = save.oid /\ save'.at = "assign"
          /\ save'.patch = Moves(save.oid) /\ wanted' = wanted
      BY <1>1, <2>2, <2>5, <2>13
    <3>2. PICK o \in Channels \cup {Nothing} : /\ OnlyOn(save.oid, o) /\ o # doorForm.channel
                                               /\ Moves(save.oid) = MoveOf(save.oid, o, doorForm.channel)
      BY <2>13, <3>1, MovesSay DEF DoorsOK
    <3>3. save'.patch = MoveOf(save'.oid, o, doorForm.channel) /\ o # doorForm.channel
      BY <2>5, <3>1, <3>2
    <3>4. OnlyOn(save.oid, o)'
      BY <2>6, <3>1, <3>2 DEF OnlyOn
    <3>5. SaveOK'
      BY <2>5, <2>6, <2>8, <3>1, <3>3, <3>4 DEF SaveOK
    <3> QED  BY <1>3, <2>10, <3>5 DEF Undisturbed
  <2> QED  BY <2>2, <2>3, <2>11, <2>12, <2>13
<1>7. ASSUME NEW h, h = [save EXCEPT !.at = "relays"], save.at = "assign", Request(save),
             SaveGoesOn(h), IsSave(h), h.oid = save.oid, h.at = "relays"
      PROVE  Undisturbed'
  <2>1. save' = h
    BY <1>7, GoesOnFacts
  <2>2. save.oid \in Doors /\ UpdateControllers(save.patch)
    BY <1>4, <1>7 DEF Request
  <2>3. door' = door /\ fields' = fields /\ slot' = Patched(save.patch)
    BY <2>2 DEF UpdateControllers
  <2>4. door[save.oid] = "live" /\ fields[save.oid] \in wanted.fields
    BY <1>1, <1>7 DEF Undisturbed, SaveOK
  <2>5. PICK o \in Channels \cup {Nothing}, c \in wanted.channels :
           OnlyOn(save.oid, o) /\ o # c /\ save.patch = MoveOf(save.oid, o, c)
    BY <1>1, <1>7 DEF Undisturbed, SaveOK
  <2>6. PICK d : d = save.oid
    OBVIOUS
  <2>7. OnlyOn(d, c)'
    BY <2>2, <2>3, <2>5, <2>6, MovedIsThere DEF DoorsOK, ServerOK
  <2>8. OnlyOn(save.oid, c)'
    BY <1>1, <1>7, <2>1, <2>6, <2>7 DEF OnlyOn
  <2>9. SaveOK'
    BY <1>1, <1>7, <2>1, <2>3, <2>4, <2>8 DEF SaveOK
  <2>10. ~Settled'
    BY <1>7, <2>1 DEF Settled
  <2> QED  BY <1>3, <2>9, <2>10 DEF Undisturbed
<1> QED  BY <1>5, <1>6, <1>7, ServedSave DEF DoorsOK, HandlersOK

LEMMA EraseUndisturbed ==
    ASSUME DoorsOK, DeleteClicked \/ DeleteServed, ~raced' PROVE Undisturbed'
<1>1. UNCHANGED <<view, save, setup, wanted>> /\ ~raced /\ Undisturbed
  <2>1. UNCHANGED <<view, save, setup, wanted>> /\ ~raced
    <3>1. CASE DeleteClicked
      <4>1. UNCHANGED <<view, save, setup, wanted>> /\ raced' = (raced \/ view # Copy \/ Waits(save) \/ Waits(setup))
        BY <3>1, Zenon DEF DeleteClicked
      <4> QED  BY <4>1
    <3>2. CASE DeleteServed
      BY <3>2 DEF DeleteServed, history
    <3> QED  BY <3>1, <3>2
  <2> QED  BY <2>1 DEF DoorsOK
<1>2. ~Waits(save) /\ ~Waits(setup)
  BY <1>1 DEF DeleteClicked, DeleteServed, Waits, Undisturbed, OneWaits
<1>3. SaveOK' /\ SetupOK' /\ OneWaits'
  BY <1>1, <1>2 DEF SaveOK, SetupOK, OneWaits, Waits
<1>4. CASE DeleteClicked
  <2>1. view = Copy /\ UNCHANGED server
    BY <1>1, <1>4 DEF DeleteClicked
  <2>2. view.slot = slot
    BY <2>1, CopyFacts DEF DoorsOK
  <2>3. /\ erase'.oid = doorForm.oid /\ doorForm.oid \in Doors
        /\ Clears(erase'.patch, view.slot, doorForm.oid)
        /\ erase'.at = "clear" \/ (erase'.at = "delete" /\ \A k \in Channels : view.slot[k] # doorForm.oid)
    BY <1>4, EraseClicked DEF DoorsOK
  <2>4. EraseOK' /\ ~Settled'
    BY <2>1, <2>2, <2>3 DEF EraseOK, Settled, Waits, server
  <2> QED  BY <1>3, <2>4 DEF Undisturbed
<1>5. CASE DeleteServed /\ erase.at = "clear"
  <2>1. erase' = [erase EXCEPT !.at = "delete"] /\ UpdateControllers(erase.patch)
    BY <1>5 DEF DeleteServed, Request
  <2>2. erase'.at = "delete" /\ erase'.oid = erase.oid /\ erase.oid \in Doors
    BY <1>5, <2>1, OnFacts DEF DoorsOK, HandlersOK, HandlersTyped, Waits
  <2>3. slot' = Patched(erase.patch) /\ Clears(erase.patch, slot, erase.oid)
    BY <1>1, <1>5, <2>1 DEF UpdateControllers, Undisturbed, EraseOK
  <2>4. \A k \in Channels : slot'[k] # erase.oid
    BY <2>2, <2>3, DoorAssumption DEF Patched, Clears
  <2>5. EraseOK' /\ ~Settled'
    BY <2>2, <2>4 DEF EraseOK, Settled, Waits
  <2> QED  BY <1>3, <2>5 DEF Undisturbed
<1>6. CASE DeleteServed /\ erase.at = "delete"
  <2>1. erase' = [erase EXCEPT !.at = "rules"] /\ DeleteDoor(erase.oid)
    BY <1>6 DEF DeleteServed, Request
  <2>2. erase'.at = "rules" /\ erase'.oid = erase.oid /\ erase.oid \in Doors
    BY <1>6, <2>1, OnFacts DEF DoorsOK, HandlersOK, HandlersTyped, Waits
  <2>3. slot' = slot /\ door' = Without(erase.oid)
    BY <2>1 DEF DeleteDoor, UpdateDoors
  <2>4. door'[erase.oid] # "live"
    BY <2>2, <2>3 DEF Without, InList, DoorsOK, ServerOK, ServerTyped
  <2>5. EraseOK' /\ ~Settled'
    BY <1>1, <1>6, <2>2, <2>3, <2>4 DEF EraseOK, Settled, Waits, Undisturbed
  <2> QED  BY <1>3, <2>5 DEF Undisturbed
<1> QED  BY <1>4, <1>5, <1>6 DEF DeleteServed

LEMMA SetupUndisturbed ==
    ASSUME DoorsOK, SetupClicked \/ SetupServed, ~raced' PROVE Undisturbed'
<1>1. UNCHANGED <<view, save, erase, doorForm>> /\ ~raced /\ Undisturbed
  <2>1. UNCHANGED <<view, save, erase, doorForm>>
    BY Zenon DEF SetupClicked, SetupServed, dialogs
  <2>2. ~raced
    BY SetupAsked, Zenon DEF SetupServed, history, DoorsOK
  <2> QED  BY <2>1, <2>2 DEF DoorsOK
<1>2. CASE SetupClicked /\ UNCHANGED <<setup, wanted>> /\ panel' = Away
  <2>1. UNCHANGED server
    BY <1>2 DEF SetupClicked
  <2>2. (Settled => DialogsAreLive)'
    BY <1>1, <1>2, <2>1
       DEF Undisturbed, Settled, DialogsAreLive, PanelIsLive, FormIsLive, GoneIsKnown, OnlyOn, server, Waits, Away
  <2>3. OneWaits' /\ SaveOK'
    BY <1>1, <1>2, <2>1 DEF Undisturbed, OneWaits, SaveOK, OnlyOn, server, Waits
  <2>4. EraseOK' /\ SetupOK'
    BY <1>1, <1>2, <2>1 DEF Undisturbed, EraseOK, SetupOK, Patched, server
  <2> QED  BY <2>2, <2>3, <2>4 DEF Undisturbed
<1>3. ASSUME ~Waits(save), ~Waits(erase), setup'.at \in {"assign", "relays", "rules"}, SetupOK' PROVE Undisturbed'
  <2>1. SaveOK' /\ EraseOK' /\ OneWaits' /\ ~Settled'
    BY <1>1, <1>3 DEF SaveOK, EraseOK, OneWaits, Waits, Settled
  <2> QED  BY <1>3, <2>1 DEF Undisturbed
<1>4. CASE SetupClicked /\ ~(UNCHANGED <<setup, wanted>> /\ panel' = Away)
  <2>1. /\ setup'.at = "assign" /\ view = Copy /\ ~Waits(save) /\ ~Waits(erase) /\ UNCHANGED server
        /\ setup'.patch = [k \in {c \in Channels : panel.slot[c] # view.slot[c]} |-> panel.slot[k]]
        /\ wanted' = [Unsaid EXCEPT !.slot = panel.slot]
    BY <1>4, SetupAsked DEF DoorsOK, SetupClicked
  <2>2. view.slot = slot
    BY <2>1, CopyFacts DEF DoorsOK
  <2>3. wanted'.slot = panel.slot
    <3>1. PICK u : u = Unsaid
      OBVIOUS
    <3>2. u = [fields |-> u.fields, channels |-> u.channels, slot |-> u.slot]
      BY <3>1 DEF Unsaid
    <3>3. wanted' = [u EXCEPT !.slot = panel.slot]
      BY <2>1, <3>1
    <3> QED  BY <3>2, <3>3
  <2>4. PICK p : p = setup'.patch
    OBVIOUS
  <2>5. \A k \in Channels : /\ k \in DOMAIN p <=> panel.slot[k] # slot[k]
                            /\ k \in DOMAIN p => p[k] = panel.slot[k]
    BY <2>1, <2>2, <2>4
  <2>6. Patched(p) = panel.slot
    BY <2>5 DEF Patched, DoorsOK, DialogTyped
  <2>7. Patched(setup.patch)' = wanted'.slot
    BY <2>1, <2>3, <2>4, <2>6 DEF Patched, server
  <2>8. SetupOK'
    BY <2>1, <2>7 DEF SetupOK
  <2> QED  BY <1>3, <2>1, <2>8
<1>5. CASE SetupServed
  <2>1. Waits(setup) /\ wanted' = wanted /\ setup.at \in {"assign", "relays"}
    BY <1>5 DEF SetupServed, Waits, history
  <2>2. ~Waits(save) /\ ~Waits(erase)
    BY <1>1, <2>1 DEF Undisturbed, OneWaits
  <2>3. CASE setup.at = "assign"
    <3>1. setup'.at = "relays" /\ UpdateControllers(setup.patch)
      <4>1. setup' = [setup EXCEPT !.at = "relays"] /\ Request(setup)
        BY <1>5, <2>3 DEF SetupServed
      <4>2. setup'.at = "relays"
        BY <4>1, OnFacts DEF DoorsOK, HandlersOK, HandlersTyped
      <4> QED  BY <4>1, <4>2, <2>3 DEF Request
    <3>2. slot' = wanted.slot
      BY <1>1, <2>3, <3>1 DEF UpdateControllers, Undisturbed, SetupOK
    <3>3. SetupOK'
      BY <2>1, <3>1, <3>2 DEF SetupOK
    <3> QED  BY <1>3, <2>2, <3>1, <3>3
  <2>4. CASE setup.at = "relays"
    <3>1. setup'.at = "rules" /\ Synchronize("relays")
      <4>1. setup' = [setup EXCEPT !.at = "rules"] /\ Request(setup)
        BY <1>5, <2>4 DEF SetupServed
      <4>2. setup'.at = "rules"
        BY <4>1, OnFacts DEF DoorsOK, HandlersOK, HandlersTyped
      <4> QED  BY <4>1, <4>2, <2>4 DEF Request
    <3>2. slot' = wanted.slot /\ "relays" \notin behind'
      BY <1>1, <2>4, <3>1 DEF Synchronize, Undisturbed, SetupOK
    <3>3. SetupOK'
      BY <2>1, <3>1, <3>2 DEF SetupOK
    <3> QED  BY <1>3, <2>2, <3>1, <3>3
  <2> QED  BY <2>1, <2>3, <2>4
<1> QED  BY <1>2, <1>4, <1>5

LEMMA DoneUndisturbed ==
    ASSUME DoorsOK, SaveDone \/ DeleteDone \/ SetupDone \/ SaveFails \/ DeleteFails \/ SetupFails, ~raced'
    PROVE  Undisturbed'
<1>1. \/ SaveDone \/ DeleteDone
      \/ Forget(FALSE)
  BY DEF SetupDone, SaveFails, DeleteFails, SetupFails
<1>2. SaveDone \/ DeleteDone
  BY <1>1 DEF Forget
<1>3. /\ Returns /\ load.at # "idle" /\ ~Busy' /\ view = Copy'
  BY <1>2 DEF SaveDone, DeleteDone, Forget
<1>4. doorForm' = [Shut EXCEPT !.return = FALSE] /\ panel' = Returned(view) /\ view' = view
  BY <1>2, <1>3 DEF SaveDone, DeleteDone, DoorDialogDone
<1>5. ~doorForm'.open /\ panel'.slot = Selects(view)
  BY <1>3, <1>4, ClosedFacts DEF DoorsOK, DialogTyped, Returned
<1>6. view.door = ShownDoors'
  BY <1>3 DEF Copy
<1>7. ServerTyped'
  BY <1>2, HandlersSendable, RequestsKeep DEF SaveDone, DeleteDone, DoorsOK, HandlersOK, ServerOK
<1>8. \A d \in Doors : /\ view.door[d] = "live" => door'[d] = "live"
                       /\ Gone(door'[d]) => Gone(view.door[d])
  <2>1. ListShowsDoors'
    BY <1>7, ShownFacts, PTL
  <2> QED  BY <1>6, <2>1 DEF ListShowsDoors, Gone
<1>9. \A k \in Channels : Selects(view)[k] # Nothing => Selects(view)[k] \in Doors /\ view.door[Selects(view)[k]] = "live"
  BY DEF Selects, DoorCopies, DoorsOK, LoadOK
<1>10. DialogsAreLive'
  BY <1>4, <1>5, <1>8, <1>9 DEF DialogsAreLive, PanelIsLive, FormIsLive, GoneIsKnown
<1> QED  BY <1>3, <1>10 DEF Busy, Undisturbed, OneWaits, Waits, SaveOK, EraseOK, SetupOK

LEMMA UndisturbedKept ==
    ASSUME DoorsOK, CopiesAge', [DoorNext]_doorVars, ~raced' PROVE Undisturbed'
<1>1. ASSUME UNCHANGED <<server, handlers, wanted, dialogs>>, raced' = raced, view' = view PROVE Undisturbed'
  <2>1. GoneIsKnown => GoneIsKnown'
    BY <1>1 DEF GoneIsKnown, server
  <2>2. Undisturbed
    BY <1>1 DEF DoorsOK
  <2> QED  BY <1>1, <2>1, <2>2, KeptUndisturbed
<1>2. CASE Poll \/ ReadDoors
  BY <1>1, <1>2 DEF Poll, ReadDoors, history
<1>3. CASE EditsElsewhere
  BY <1>3 DEF EditsElsewhere
<1>4. CASE UNCHANGED doorVars
  BY <1>1, <1>4 DEF doorVars, history
<1> QED  BY <1>2, <1>3, <1>4, LoadUndisturbed, OpenUndisturbed, FillUndisturbed, ClickUndisturbed,
            SaveServedUndisturbed, EraseUndisturbed, SetupUndisturbed, DoneUndisturbed DEF DoorNext, Answers

LEMMA DoorsStep == DoorsOK /\ [DoorNext]_doorVars => DoorsOK'
<1> SUFFICES ASSUME DoorsOK, [DoorNext]_doorVars PROVE DoorsOK'  OBVIOUS
<1>1. ServerOK' /\ Ages
  BY ServerKeeps DEF DoorsOK, HandlersOK
<1>2. LoadOK' /\ CopiesAge'
  BY <1>1, LoadKeeps DEF DoorsOK
<1>3. DialogTyped' /\ HandlersOK'
  BY DialogsKeep, HandlersKeep DEF DoorsOK
<1>4. ~raced' => Undisturbed'
  BY <1>2, UndisturbedKept
<1> QED  BY <1>1, <1>2, <1>3, <1>4 DEF DoorsOK

LEMMA DoorsInit == DoorInit => DoorsOK
<1> SUFFICES ASSUME DoorInit PROVE DoorsOK  OBVIOUS
<1>1. ServerTyped
  BY DoorAssumption DEF DoorInit, ServerTyped, DoorStates, Contents
<1>2. ServerOK
  BY <1>1, ValidChannelsDiffer DEF DoorInit, ServerOK, AllMade, ValidControllers, InList
<1>3. view = [door |-> ShownDoors, fields |-> fields, slot |-> slot] /\ load = [at |-> "idle", view |-> view]
  BY DEF DoorInit, Copy
<1>4. LoadOK
  <2>1. view \in DoorCopies /\ view.slot = slot
    BY <1>1, <1>3, ShownFacts DEF ListShowsDoors, DoorCopies, ServerTyped
  <2>2. load = [at |-> "idle", view |-> view] /\ ChannelsDiffer(slot)
    BY <1>2, <1>3 DEF ServerOK
  <2> QED  BY <2>1, <2>2 DEF LoadOK, ChannelsDiffer
<1>5. CopiesAge
  BY <1>1, <1>3, ShownFacts DEF ListShowsDoors, CopiesAge, Gone
<1>6. DialogTyped
  BY DEF DoorInit, DialogTyped, DoorForms, Closed, Away, Contents
<1>7. HandlersOK
  BY RestingFacts DEF DoorInit, HandlersOK, HandlersTyped, Waits
<1>8. raced
  BY DEF DoorInit
<1> QED  BY <1>2, <1>4, <1>5, <1>6, <1>7, <1>8 DEF DoorsOK

\* Doors, channels, dialogs and requests are always what the code can hold.
THEOREM DoorsAreTyped == DoorSpec => []DoorTypeOK
<1>1. DoorsOK => DoorTypeOK
  <2> SUFFICES ASSUME DoorsOK PROVE DoorTypeOK  OBVIOUS
  <2>1. /\ door \in [Doors -> {"none", "live", "deleted", "swept"}]
        /\ fields \in [Doors -> Settings \cup {Unnamed}]
        /\ slot \in [Channels -> Doors \cup {Nothing}] /\ behind \subseteq {"relays", "rules"}
    BY DEF DoorsOK, ServerOK, ServerTyped, DoorStates, Contents
  <2>2. /\ load.at \in {"idle", "sent", "read"}
        /\ doorForm.oid \in Doors \cup {New} /\ doorForm.channel \in Channels \cup {Nothing}
        /\ DOMAIN panel.slot = Channels
    BY DEF DoorsOK, LoadOK, DialogTyped, DoorForms
  <2> QED  BY <2>1, <2>2 DEF DoorTypeOK, DoorsOK, HandlersOK, HandlersTyped, IsSave
<1> QED  BY <1>1, DoorsInit, DoorsStep, PTL DEF DoorSpec

\* saveDoor(), deleteDoor(), saveController(): what is reported as done is what the dialog showed
\* between the click and the time when the handler read it, whatever is typed meanwhile, unless
\* another client or handler wrote, or a dialog was opened again, for any doors and channels.
THEOREM DoorsAreAsSubmitted == DoorSpec => DoorsAsSubmitted
<1>1. DoorsOK => [AsSubmitted]_doorVars
  <2> SUFFICES ASSUME DoorsOK PROVE AsSubmitted  OBVIOUS
  <2>1. ASSUME SaveDone, ~raced
        PROVE  /\ door[save.oid] = "live" /\ fields[save.oid] \in wanted.fields
               /\ \E c \in wanted.channels : \A k \in Channels : slot[k] = save.oid <=> k = c
               /\ "relays" \notin behind'
    BY <2>1 DEF DoorsOK, Undisturbed, SaveOK, OnlyOn, SaveDone, Request, Synchronize
  <2>2. ASSUME DeleteDone, ~raced
        PROVE  /\ door[erase.oid] # "live" /\ \A k \in Channels : slot[k] # erase.oid
               /\ "rules" \notin behind'
    BY <2>2 DEF DoorsOK, Undisturbed, EraseOK, DeleteDone, Request, Synchronize
  <2>3. ASSUME SetupDone, ~raced PROVE slot = wanted.slot /\ behind' = {}
    <3>1. /\ slot = wanted.slot /\ "relays" \notin behind /\ behind \subseteq {"relays", "rules"}
          /\ behind' = behind \ {"rules"}
      BY <2>3 DEF DoorsOK, Undisturbed, SetupOK, SetupDone, Request, Synchronize, ServerOK, ServerTyped
    <3> QED  BY <3>1
  <2> QED  BY <2>1, <2>2, <2>3 DEF AsSubmitted
<1> QED  BY <1>1, DoorsInit, DoorsStep, PTL DEF DoorSpec, DoorsAsSubmitted

\* controllerDoors(): the Relays page has exactly one row for every door that the copy has, though
\* load() reads the channels and the doors at different times.
THEOREM TheRelaysPageIsComplete == DoorSpec => []EveryDoorHasARow
<1>1. DoorsOK => EveryDoorHasARow
  <2> SUFFICES ASSUME DoorsOK, NEW d \in Doors, view.door[d] = "live"
               PROVE  Cardinality({r \in Rows(view) : r[2] = d}) = 1
    BY DEF EveryDoorHasARow
  <2> DEFINE rows == {r \in Rows(view) : r[2] = d}
  <2>1. CASE \E k \in Channels : view.slot[k] = d
    <3> PICK k \in Channels : view.slot[k] = d  BY <2>1
    <3>1. rows = {<<k, d>>}
      BY DoorAssumption DEF DoorsOK, LoadOK, DoorCopies, ChannelsDiffer, Rows
    <3> QED  BY <3>1, FS_Singleton
  <2>2. CASE \A k \in Channels : view.slot[k] # d
    <3>1. rows = {<<Nothing, d>>}
      BY <2>2 DEF Rows
    <3> QED  BY <3>1, FS_Singleton
  <2> QED  BY <2>1, <2>2
<1> QED  BY <1>1, DoorsInit, DoorsStep, PTL DEF DoorSpec

-----------------------------------------------------------------------------
(* CardEditor.  The invariant has three parts: what the server lists keeps *)
(* its name or its number, so that what a copy or a form knows of stays    *)
(* known; the handler in flight has the shape of its kind and stage; and   *)
(* as long as nothing came between, what it has sent and will send makes   *)
(* of the records what the dialog showed.                                  *)

\* The levels that have a name: a level never loses it.
Named == {l \in Groups : rules[l].title # NotSet}

\* A record that was once listed: it stays listed, is deleted, or was found again.
Registered == {c \in Cards : cards[c] # "none" /\ (cards[c] = "live" => ~Unlisted(held[c]))}

\* The server's records.
RecordsOK ==
    /\ NumbersDiffer(cards, held)
    /\ \A c \in Cards : cards[c] = "none" \/ (cards[c] = "live" /\ Unlisted(held[c])) => held[c] = BlankCard
    /\ \A c \in Cards : held[c].levels \subseteq Named

\* A copy, of whatever age.
ViewOK(v) ==
    /\ \A c \in Cards : /\ v.cards[c] = "live" => ~Unlisted(v.held[c])
                        /\ v.cards[c] # "live" => v.held[c] = BlankCard
                        /\ v.cards[c] # "none" => c \in Registered
                        /\ v.cards[c] = "deleted" => cards[c] = "deleted"
                        /\ v.held[c].levels \subseteq Named
    /\ \A l \in Groups : /\ v.groups[l] = "live" => l \in Named
                         /\ v.groups[l] # "none" => groups[l] # "none"

\* What a copy has, the next one has, unless it was found again.
Kept(v, c) == v.cards[c] # "none" \/ cards[c] = "gone"

ViewsOK ==
    /\ ViewOK(cardsView) /\ ViewOK(cardsLoad.view)
    /\ \A c \in Cards : cardsView.cards[c] # "none" => Kept(cardsLoad.view, c)

\* The forms show what a copy had.
FormIn(f) ==
    /\ f.levels \subseteq Named
    /\ f.oid \in Cards => f.oid \in Registered /\ Kept(cardsView, f.oid) /\ Kept(cardsLoad.view, f.oid)

SheetIn(s) ==
    /\ s.levels \subseteq Named /\ s.oids \subseteq Registered
    /\ s.oid \in Groups => groups[s.oid] # "none"

FormsOK ==
    /\ FormIn(cardForm) /\ SheetIn(sheet)
    /\ "person" \in dialog => sheet.name # NotSet
    /\ "team" \in dialog => sheet.from # Ungrouped /\ sheet.from # sheet.team
    /\ "level" \in dialog => sheet.rule.title # NotSet

PageTypes ==
    /\ cardsView \in Views /\ cardsLoad \in [at : {"idle", "sent", "read"}, view : Views]
    /\ dialog \in (SUBSET {"card", "level"}) \cup {{"person"}, {"bulk"}, {"team"}}
    /\ cardForm \in Forms /\ sheet \in Sheets
    /\ cardEvents \in 0..MaxCardEvents

\* The requests of each handler.
Stages(kind) ==
    CASE kind = "none" -> {"idle"}
      [] kind = "card" -> {"find", "create", "update", "rules", "reload"}
      [] kind = "erase" -> {"erase", "rules", "reload"}
      [] kind = "bulk" -> {"update", "rules", "reload"}
      [] kind \in {"person", "team"} -> {"update", "reload"}
      [] kind = "level" -> {"createlevel", "updatelevel", "rules", "levels"}
      [] OTHER -> {"update", "eraselevel", "rules", "reload"}

JobOf(stage, kind, oid, was, want, patch, rule, late) ==
    [at |-> stage, kind |-> kind, oid |-> oid, was |-> was, want |-> want, patch |-> patch, rule |-> rule, raced |-> late]

IsJob(h) ==
    /\ h = JobOf(h.at, h.kind, h.oid, h.was, h.want, h.patch, h.rule, h.raced)
    /\ h.kind \in {"none", "card", "erase", "bulk", "person", "team", "level", "drop"}
    /\ h.at \in Stages(h.kind)
    /\ h.oid \in Cards \cup Groups \cup {NewRecord}
    /\ h.patch \in [Cards -> Patches] /\ h.rule \in Rules /\ h.raced \in BOOLEAN

\* A request gives a name to what has none, and no level without a name.
PatchOK(ps) ==
    \A c \in Cards : ps[c] # NoPatch =>
        /\ c \in Registered \/ ps[c].name # Absent
        /\ ps[c].add \subseteq Named

\* saveCard, saveGroup and the other handlers.
CardJob(h) ==
    /\ h.was \in Fields \cup {Absent}
    /\ NotSet \notin {h.want.name, h.want.number, h.want.term}
    /\ h.at = "find" => h.was \in Fields /\ h.was.number # NotSet
    /\ h.at = "create" => h.was = Absent
    /\ h.at \in {"update", "rules", "reload"} => h.oid \in Cards /\ cards[h.oid] # "none"
    /\ \A c \in Cards : h.patch[c] # NoPatch => c = h.oid

LevelJob(h) ==
    /\ h.was \in Rules \cup {Absent} /\ h.want.rule.title # NotSet
    /\ h.at = "createlevel" => h.was = Absent
    /\ h.at # "createlevel" => h.oid \in Groups /\ groups[h.oid] # "none" /\ h.rule.title # NotSet

JobIn(h) ==
    /\ IsJob(h) /\ PatchOK(h.patch)
    /\ h.want \in IF h.kind \in {"card", "erase"} THEN Forms ELSE Sheets
    /\ h.want.levels \subseteq Named
    /\ IF h.kind = "card" THEN CardJob(h) ELSE IF h.kind = "level" THEN LevelJob(h) ELSE h.was = Absent
    /\ h.kind = "erase" => h.want.oid \in Cards /\ h.oid = h.want.oid
    /\ h.kind = "team" => h.want.from # Ungrouped /\ h.want.from # h.want.team
    /\ h.kind = "drop" => h.want.oid \in Groups /\ h.oid = h.want.oid

\* A credential is what its dialog showed.
AsWanted(f, want) ==
    /\ f.name = want.name /\ f.team = want.team /\ f.number = want.number /\ f.term = want.term
    /\ SameLevels(f.levels, want.levels)

\* Joined by a credential of that name, the others are in its management group.
Joins(want, others) ==
    OnePersonOneTeam(held) =>
        \A d \in others : cards[d] = "live" /\ held[d].name = want.name => held[d].team = want.team

\* No level came since the copy was read, and no older answer is to come.
GroupsKnown ==
    cardsView.groups = ShownGroups /\ (cardsLoad.at = "read" => cardsLoad.view.groups = ShownGroups)

\* What the other dialogs are to make of the credentials.
AssignedIn(fs, want) ==
    \A c \in want.oids \cap Live :
        /\ want.mode = "add" => want.levels \cap LiveGroups \subseteq fs[c].levels
        /\ want.mode = "remove" => want.levels \cap fs[c].levels \cap LiveGroups = {}
        /\ want.mode = "replace" => SameLevels(fs[c].levels, want.levels)

PersonIn(fs, want) == \A c \in want.oids \cap Live : fs[c].name = want.name /\ fs[c].team = want.team

LeftTeam(fs, want) == \A c \in Live : fs[c].team # want.from

Dropped(fs, want) == \A c \in Live : want.oid \notin fs[c].levels

\* What the credentials are to be when the handler has changed them.
Done(h, fs) ==
    /\ h.kind = "card" /\ cards[h.oid] = "live" => AsWanted(fs[h.oid], h.want)
    /\ h.kind = "person" => PersonIn(fs, h.want)
    /\ h.kind = "team" => LeftTeam(fs, h.want)
    /\ h.kind = "bulk" => AssignedIn(fs, h.want)
    /\ h.kind = "drop" => Dropped(fs, h.want)

\* After the last request that changes a record.
JobSettled(h) ==
    /\ Done(h, held)
    /\ h.kind = "card" => cards[h.oid] = "live"
    /\ h.kind = "erase" => cards[h.want.oid] # "live"
    /\ h.kind = "drop" => groups[h.want.oid] # "live"

\* And the controllers have the access rules.
ToldOf(h) == h.kind \in {"erase", "bulk", "drop"} \/ (h.kind = "card" /\ h.patch # Unpatched) => told

\* saveCard, before it knows the OID: the credential is there as the dialog had it.
Finding ==
    /\ \E c \in Cards : ShownCards[c] = "live" /\ held[c] = job.was
    /\ Joins(job.want, {d \in Cards : held[d].number # job.was.number})

\* The request in flight does what is wanted.
Updating ==
    /\ Done(job, PatchedCards(job.patch))
    /\ OnePersonOneTeam(held) => OnePersonOneTeam(PatchedCards(job.patch))

LevelIs(h) == groups[h.oid] = "live" /\ rules[h.oid] = h.want.rule

\* saveGroup
SavingLevel ==
    /\ sheet = job.want
    /\ job.at = "updatelevel" => job.rule = job.want.rule
    /\ job.at \in {"rules", "levels"} => LevelIs(job)
    /\ job.at = "levels" => (job.want.rule # job.was => told)

RecordTypes ==
    /\ cards \in [Cards -> {"none", "live", "deleted", "gone"}] /\ held \in [Cards -> Fields]
    /\ groups \in [Groups -> {"none", "live", "deleted"}] /\ rules \in [Groups -> Rules]
    /\ told \in BOOLEAN

\* As long as nothing came between.
GoalOK ==
    /\ job.at \in {"find", "create"} => GroupsKnown /\ cardForm.term = job.want.term
    /\ job.at = "find" => Finding
    /\ job.at = "create" => Joins(job.want, Cards)
    /\ job.at = "update" => Updating
    /\ job.at = "eraselevel" => Done(job, held)
    /\ job.at \in {"rules", "reload"} => JobSettled(job)
    /\ job.at = "reload" => ToldOf(job)
    /\ job.kind = "level" => SavingLevel

\* The invariant.
CardsOK ==
    /\ RecordTypes /\ PageTypes /\ RecordsOK /\ ViewsOK /\ FormsOK /\ JobIn(job)
    /\ ~job.raced => GoalOK

-----------------------------------------------------------------------------
(* The server's records. *)

\* What a request may do to them.
RecordsMove ==
    /\ RecordTypes' /\ RecordsOK'
    /\ \A c \in Cards : /\ c \in Registered => c \in Registered'
                        /\ cards[c] # "none" => cards'[c] # "none"
                        /\ cards[c] \in {"deleted", "gone"} => cards'[c] = cards[c]
    /\ \A l \in Groups : /\ l \in Named => l \in Named'
                         /\ groups[l] # "none" => groups'[l] # "none"

\* A patch gives a field or leaves it.
LEMMA PatchedFields ==
    ASSUME CardsAssumption, NEW f \in Fields, NEW p \in Patches
    PROVE  /\ FieldsWith(f, p) \in Fields
           /\ FieldsWith(f, p).name = Given(p.name, f.name) /\ FieldsWith(f, p).team = Given(p.team, f.team)
           /\ FieldsWith(f, p).number = Given(p.number, f.number) /\ FieldsWith(f, p).term = Given(p.term, f.term)
           /\ FieldsWith(f, p).levels = (f.levels \cup p.add) \ p.drop
           /\ p.name # Absent => FieldsWith(f, p).name \in Names
           /\ f.name # NotSet => FieldsWith(f, p).name # NotSet
           /\ f.number # NotSet => FieldsWith(f, p).number # NotSet
  BY DEF CardsAssumption, Fields, Patches, FieldsWith, Credential, Given

LEMMA EmptyPatch ==
    ASSUME NEW f \in Fields PROVE FieldsWith(f, NoPatch) = f
  BY DEF Fields, FieldsWith, Credential, NoPatch, Given

LEMMA NoPatchTyped == NoPatch \in Patches /\ Unpatched \in [Cards -> Patches]
  BY DEF NoPatch, Patches, Unpatched

LEMMA BlankTyped == CardsAssumption => BlankCard \in Fields /\ Unlisted(BlankCard) /\ BlankRule \in Rules
  BY DEF CardsAssumption, BlankCard, Credential, Fields, Unlisted, BlankRule, Rules

LEMMA PatchedTyped ==
    ASSUME CardsAssumption, RecordTypes, NEW ps \in [Cards -> Patches]
    PROVE  /\ PatchedCards(ps) \in [Cards -> Fields]
           /\ \A c \in Cards : PatchedCards(ps)[c] = IF cards[c] = "live" THEN FieldsWith(held[c], ps[c]) ELSE held[c]
  BY PatchedFields DEF RecordTypes, PatchedCards

LEMMA UnpatchedCards ==
    ASSUME RecordTypes PROVE PatchedCards(Unpatched) = held
  BY EmptyPatch DEF RecordTypes, PatchedCards, Unpatched

LEMMA UpdateMoves ==
    ASSUME CardsAssumption, RecordTypes, RecordsOK, NEW ps \in [Cards -> Patches], PatchOK(ps), UpdateCards(ps)
    PROVE  RecordsMove
<1>1. ps \in [Cards -> Patches]
  OBVIOUS
<1>2. /\ held' = PatchedCards(ps) /\ held' \in [Cards -> Fields]
      /\ \A c \in Cards : held'[c] = IF cards[c] = "live" THEN FieldsWith(held[c], ps[c]) ELSE held[c]
      /\ cards' = cards /\ groups' = groups /\ rules' = rules
  BY <1>1, PatchedTyped DEF UpdateCards
<1>3. RecordTypes'
  BY <1>2 DEF RecordTypes, UpdateCards
<1>4. NumbersDiffer(cards', held')
  BY <1>2 DEF UpdateCards, CanPatch
<1>5. ASSUME NEW c \in Cards PROVE held'[c].levels \subseteq Named
  <2>1. CASE cards[c] = "live"
    <3>1. held'[c] = FieldsWith(held[c], ps[c])
      BY <1>2, <2>1
    <3>2. held[c] \in Fields /\ ps[c] \in Patches /\ held[c].levels \subseteq Named
      BY <1>1 DEF RecordTypes, RecordsOK
    <3>3. ps[c].add \subseteq Named
      BY DEF PatchOK, NoPatch
    <3> QED  BY <3>1, <3>2, <3>3, PatchedFields
  <2>2. CASE cards[c] # "live"
    BY <1>2, <2>2 DEF RecordsOK
  <2> QED  BY <2>1, <2>2
<1>6. Named' = Named
  BY <1>2 DEF Named
<1>7. ASSUME NEW c \in Cards, cards[c] = "live", c \in Registered \/ ps[c].name # Absent
      PROVE  ~Unlisted(held'[c])
  <2>1. held'[c] = FieldsWith(held[c], ps[c]) /\ held[c] \in Fields /\ ps[c] \in Patches
    BY <1>1, <1>2, <1>7 DEF RecordTypes
  <2>2. NotSet \notin Names
    BY DEF CardsAssumption
  <2> QED  BY <1>7, <2>1, <2>2, PatchedFields DEF Registered, Unlisted
<1>8. ASSUME NEW c \in Cards, cards[c] = "none" \/ (cards[c] = "live" /\ Unlisted(held'[c]))
      PROVE  held'[c] = BlankCard
  <2>1. CASE cards[c] = "live"
    <3>1. c \notin Registered /\ ps[c] = NoPatch
      BY <1>7, <1>8, <2>1 DEF PatchOK
    <3>2. held[c] \in Fields /\ held'[c] = held[c]
      BY <1>2, <2>1, <3>1, EmptyPatch DEF RecordTypes
    <3> QED  BY <2>1, <3>1, <3>2 DEF Registered, RecordsOK
  <2>2. CASE cards[c] # "live"
    BY <1>2, <1>8, <2>2 DEF RecordsOK
  <2> QED  BY <2>1, <2>2
<1>9. RecordsOK'
  BY <1>2, <1>4, <1>5, <1>6, <1>8 DEF RecordsOK
<1>10. ASSUME NEW c \in Cards, c \in Registered PROVE c \in Registered'
  BY <1>2, <1>7, <1>10 DEF Registered
<1> QED  BY <1>2, <1>3, <1>6, <1>9, <1>10 DEF RecordsMove

LEMMA CreateCardMoves ==
    ASSUME CardsAssumption, RecordTypes, RecordsOK, NEW c \in Cards, CreateCard(c)
    PROVE  RecordsMove
<1>1. /\ cards[c] = "none" /\ held[c] = BlankCard /\ held' = held /\ Named' = Named
      /\ cards' = [cards EXCEPT ![c] = "live"] /\ groups' = groups /\ rules' = rules /\ told' = told
  BY DEF CreateCard, RecordsOK, Named
<1>2. RecordTypes'
  BY <1>1 DEF RecordTypes
<1>3. BlankCard.number = NotSet /\ Unlisted(BlankCard)
  BY DEF BlankCard, Credential, Unlisted
<1>4. NumbersDiffer(cards', held')
  BY <1>1, <1>3 DEF NumbersDiffer, RecordTypes, RecordsOK
<1>5. RecordsOK'
  BY <1>1, <1>4 DEF RecordsOK, RecordTypes
<1>6. \A d \in Cards : d \in Registered => d \in Registered'
  BY <1>1 DEF Registered, RecordTypes
<1> QED  BY <1>1, <1>2, <1>5, <1>6 DEF RecordsMove, RecordTypes

LEMMA DeleteCardMoves ==
    ASSUME CardsAssumption, RecordTypes, RecordsOK, NEW c \in Cards, DeleteCard(c)
    PROVE  RecordsMove
<1>1. /\ held' = held /\ Named' = Named /\ groups' = groups /\ rules' = rules
      /\ cards' = IF cards[c] = "live" THEN [cards EXCEPT ![c] = "deleted"] ELSE cards
  BY DEF DeleteCard, Named
<1>2. told' \in BOOLEAN
  BY DEF DeleteCard
<1>3. RecordTypes'
  BY <1>1, <1>2 DEF RecordTypes
<1>4. \A d \in Cards : cards'[d] = cards[d] \/ (cards[d] = "live" /\ cards'[d] = "deleted")
  BY <1>1 DEF RecordTypes
<1>5. NumbersDiffer(cards', held')
  BY <1>1, <1>4 DEF NumbersDiffer, RecordsOK
<1>6. RecordsOK'
  BY <1>1, <1>4, <1>5 DEF RecordsOK
<1>7. \A d \in Cards : d \in Registered => d \in Registered'
  BY <1>1, <1>4 DEF Registered
<1> QED  BY <1>1, <1>3, <1>4, <1>6, <1>7 DEF RecordsMove

LEMMA ReissueMoves ==
    ASSUME CardsAssumption, RecordTypes, RecordsOK, NEW c \in Cards, NEW d \in Cards, Reissue(c, d)
    PROVE  RecordsMove
<1>1. /\ cards[c] = "live" /\ cards[d] = "none" /\ c # d /\ told' = told
      /\ Named' = Named /\ groups' = groups /\ rules' = rules
      /\ cards' = [cards EXCEPT ![c] = "gone", ![d] = "live"]
      /\ held' = [held EXCEPT ![c] = BlankCard, ![d] = held[c]]
  BY DEF Reissue, Named
<1>2. /\ cards'[c] = "gone" /\ cards'[d] = "live" /\ held'[c] = BlankCard /\ held'[d] = held[c]
      /\ \A e \in Cards \ {c, d} : cards'[e] = cards[e] /\ held'[e] = held[e]
  BY <1>1 DEF RecordTypes
<1>3. RecordTypes'
  BY <1>1, BlankTyped DEF RecordTypes
<1>4. NumbersDiffer(cards', held')
  BY <1>1, <1>2 DEF NumbersDiffer, RecordsOK
<1>5. BlankCard.levels = {}
  BY DEF BlankCard, Credential
<1>6. \A e \in Cards : held'[e].levels \subseteq Named'
  BY <1>1, <1>2, <1>5 DEF RecordsOK
<1>7. ASSUME NEW e \in Cards, cards'[e] = "none" \/ (cards'[e] = "live" /\ Unlisted(held'[e]))
      PROVE  held'[e] = BlankCard
  BY <1>1, <1>2, <1>7 DEF RecordsOK
<1>8. RecordsOK'
  BY <1>4, <1>6, <1>7 DEF RecordsOK
<1>9. \A e \in Cards : e \in Registered => e \in Registered'
  BY <1>1, <1>2 DEF Registered
<1> QED  BY <1>1, <1>2, <1>3, <1>8, <1>9 DEF RecordsMove

LEMMA GroupsMove ==
    ASSUME CardsAssumption, RecordTypes, RecordsOK, NEW l \in Groups,
           \/ CreateGroup(l)
           \/ DeleteGroup(l)
           \/ \E r \in Rules : r.title # NotSet /\ UpdateGroup(l, r)
    PROVE  RecordsMove
<1>1. CASE CreateGroup(l)
  BY <1>1 DEF CreateGroup, RecordsMove, RecordTypes, RecordsOK, Named, Registered
<1>2. CASE DeleteGroup(l)
  BY <1>2 DEF DeleteGroup, RecordsMove, RecordTypes, RecordsOK, Named, Registered
<1>3. CASE \E r \in Rules : r.title # NotSet /\ UpdateGroup(l, r)
  <2>1. PICK r \in Rules : r.title # NotSet /\ UpdateGroup(l, r)
    BY <1>3
  <2>2. /\ cards' = cards /\ held' = held /\ groups' = groups
        /\ rules' = IF groups[l] = "live" THEN [rules EXCEPT ![l] = r] ELSE rules
    BY <2>1 DEF UpdateGroup
  <2>3. told' \in BOOLEAN
    BY <2>1 DEF UpdateGroup
  <2>4. RecordTypes'
    BY <2>1, <2>2, <2>3 DEF RecordTypes
  <2>5. \A k \in Groups : k \in Named => k \in Named'
    BY <2>1, <2>2 DEF Named, RecordTypes
  <2>6. RecordsOK' /\ Registered' = Registered
    BY <2>2, <2>5 DEF RecordsOK, Registered, Named
  <2> QED  BY <2>2, <2>4, <2>5, <2>6 DEF RecordsMove
<1> QED  BY <1>1, <1>2, <1>3

LEMMA QuietMoves ==
    ASSUME RecordTypes, RecordsOK, SynchronizeACL \/ UNCHANGED cardServer
    PROVE  RecordsMove
<1>1. /\ cards' = cards /\ held' = held /\ groups' = groups /\ rules' = rules /\ told' \in BOOLEAN
  BY DEF SynchronizeACL, cardServer, RecordTypes
<1> QED  BY <1>1 DEF RecordsMove, RecordTypes, RecordsOK, Named, Registered

-----------------------------------------------------------------------------
(* The copy. *)

LEMMA ShownCardFacts ==
    ASSUME RecordTypes
    PROVE  /\ ShownCards \in [Cards -> {"none", "live", "deleted"}]
           /\ \A c \in Cards : /\ ShownCards[c] = "live" <=> cards[c] = "live" /\ ~Unlisted(held[c])
                               /\ ShownCards[c] = "deleted" <=> cards[c] = "deleted"
           /\ ShownGroups \in [Groups -> {"none", "live", "deleted"}]
           /\ \A l \in Groups : /\ ShownGroups[l] = "live" <=> groups[l] = "live" /\ l \in Named
                                /\ ShownGroups[l] = "deleted" <=> groups[l] = "deleted"
  BY DEF RecordTypes, ShownCards, ShownGroups, Named

LEMMA ListingFacts ==
    ASSUME CardsAssumption, RecordTypes, RecordsOK
    PROVE  /\ Listing \in Views /\ ViewOK(Listing)
           /\ Listing.cards = ShownCards /\ Listing.groups = ShownGroups
           /\ \A c \in Cards : Listing.held[c] = IF ShownCards[c] = "live" THEN held[c] ELSE BlankCard
           /\ \A l \in Groups : Listing.rules[l] = IF ShownGroups[l] = "live" THEN rules[l] ELSE BlankRule
           /\ \A c \in Registered : Kept(Listing, c)
<1>1. BlankCard.levels = {}
  BY DEF BlankCard, Credential
<1>2. Listing \in Views
  BY BlankTyped, ShownCardFacts DEF Listing, Views, RecordTypes
<1>3. /\ Listing.cards = ShownCards /\ Listing.groups = ShownGroups
      /\ \A c \in Cards : Listing.held[c] = IF ShownCards[c] = "live" THEN held[c] ELSE BlankCard
      /\ \A l \in Groups : Listing.rules[l] = IF ShownGroups[l] = "live" THEN rules[l] ELSE BlankRule
  BY DEF Listing
<1>4. ViewOK(Listing)
  BY <1>1, <1>3, ShownCardFacts DEF ViewOK, RecordsOK, Registered
<1>5. \A c \in Registered : Kept(Listing, c)
  BY <1>3, ShownCardFacts DEF Kept, Registered, RecordTypes
<1> QED  BY <1>2, <1>3, <1>4, <1>5

LEMMA ViewKept ==
    ASSUME RecordTypes, RecordsMove, NEW v, ViewOK(v)
    PROVE  ViewOK(v)'
<1>1. ASSUME NEW c \in Cards
      PROVE  /\ v.cards[c] # "none" => c \in Registered'
             /\ v.cards[c] = "deleted" => cards'[c] = "deleted"
             /\ v.held[c].levels \subseteq Named'
  BY <1>1 DEF RecordsMove, ViewOK, Named
<1>2. ASSUME NEW l \in Groups
      PROVE  /\ v.groups[l] = "live" => l \in Named'
             /\ v.groups[l] # "none" => groups'[l] # "none"
  BY <1>2 DEF RecordsMove, ViewOK
<1> QED  BY <1>1, <1>2 DEF ViewOK

LEMMA KeptKept ==
    ASSUME RecordTypes, RecordsMove, NEW v, NEW c \in Cards, Kept(v, c)
    PROVE  Kept(v, c)'
  BY DEF RecordsMove, Kept, RecordTypes

LEMMA ViewsKept ==
    ASSUME RecordTypes, RecordsMove, ViewsOK, UNCHANGED <<cardsView, cardsLoad>>
    PROVE  ViewsOK'
<1>1. ViewOK(cardsView)' /\ ViewOK(cardsLoad.view)'
  BY ViewKept DEF ViewsOK
<1>2. ASSUME NEW c \in Cards, cardsView'.cards[c] # "none" PROVE Kept(cardsLoad.view, c)'
  BY <1>2, KeptKept DEF ViewsOK
<1> QED  BY <1>1, <1>2 DEF ViewsOK

-----------------------------------------------------------------------------
(* The page: a dialog is closed or stays, a form is emptied or stays. *)

PageStays ==
    /\ cardsView' = cardsView
    /\ cardsLoad' = cardsLoad \/ cardsLoad' = [at |-> "sent", view |-> cardsView]
    /\ \E d : dialog' = dialog \ {d}
    /\ cardForm' \in {cardForm, EmptyForm}
    /\ sheet' = sheet \/ (sheet' = EmptySheet /\ dialog' \subseteq {"card"})
    /\ cardEvents' = cardEvents \/ (cardEvents < MaxCardEvents /\ cardEvents' = cardEvents + 1)

LEMMA EmptyForms ==
    ASSUME CardsAssumption PROVE EmptyForm \in Forms /\ EmptySheet \in Sheets /\ FormIn(EmptyForm) /\ SheetIn(EmptySheet)
<1>1. NewRecord \notin Cards /\ NewRecord \notin Groups /\ Ungrouped \in Teams
  BY DEF CardsAssumption
<1>2. EmptyForm \in Forms /\ EmptyForm.oid = NewRecord /\ EmptyForm.levels = {}
  BY <1>1 DEF EmptyForm, Forms
<1>3. /\ EmptySheet \in Sheets /\ EmptySheet.oid = NewRecord
      /\ EmptySheet.levels = {} /\ EmptySheet.oids = {}
  BY <1>1, BlankTyped DEF EmptySheet, Sheets
<1> QED  BY <1>1, <1>2, <1>3 DEF FormIn, SheetIn

LEMMA EventsTyped ==
    ASSUME CardsAssumption, cardEvents \in 0..MaxCardEvents,
           cardEvents' = cardEvents \/ (cardEvents < MaxCardEvents /\ cardEvents' = cardEvents + 1)
    PROVE  cardEvents' \in 0..MaxCardEvents
  BY DEF CardsAssumption

LEMMA PageTyped ==
    ASSUME CardsAssumption, PageTypes, PageStays
    PROVE  PageTypes'
<1>1. cardEvents' \in 0..MaxCardEvents
  BY EventsTyped DEF PageTypes, PageStays
<1>2. cardForm' \in Forms /\ sheet' \in Sheets
  BY EmptyForms DEF PageTypes, PageStays
<1>3. dialog' \in (SUBSET {"card", "level"}) \cup {{"person"}, {"bulk"}, {"team"}}
  BY DEF PageTypes, PageStays
<1>4. cardsView' \in Views /\ cardsLoad' \in [at : {"idle", "sent", "read"}, view : Views]
  BY DEF PageTypes, PageStays
<1> QED  BY <1>1, <1>2, <1>3, <1>4 DEF PageTypes

LEMMA FormKept ==
    ASSUME RecordTypes, RecordsMove, NEW f, FormIn(f),
           \A c \in Cards : Kept(cardsView, c) => Kept(cardsView, c)',
           \A c \in Cards : Kept(cardsView, c) /\ Kept(cardsLoad.view, c) => Kept(cardsLoad.view, c)'
    PROVE  FormIn(f)'
<1>1. f.levels \subseteq Named'
  BY DEF RecordsMove, FormIn, Named
<1>2. ASSUME f.oid \in Cards PROVE f.oid \in Registered' /\ Kept(cardsView, f.oid)' /\ Kept(cardsLoad.view, f.oid)'
  BY <1>2 DEF RecordsMove, FormIn
<1> QED  BY <1>1, <1>2 DEF FormIn

LEMMA SheetKept ==
    ASSUME RecordTypes, RecordsMove, NEW s, SheetIn(s)
    PROVE  SheetIn(s)'
<1>1. s.levels \subseteq Named' /\ s.oids \subseteq Registered'
  BY DEF RecordsMove, SheetIn, Named, Registered
<1>2. s.oid \in Groups => groups'[s.oid] # "none"
  BY DEF RecordsMove, SheetIn
<1> QED  BY <1>1, <1>2 DEF SheetIn

LEMMA PageKeeps ==
    ASSUME CardsAssumption, RecordTypes, PageTypes, ViewsOK, FormsOK, RecordsMove, PageStays
    PROVE  PageTypes' /\ ViewsOK' /\ FormsOK'
<1>1. cardsView' = cardsView /\ (cardsLoad'.view = cardsLoad.view \/ cardsLoad'.view = cardsView)
  BY DEF PageStays
<1>2. ViewOK(cardsView)' /\ ViewOK(cardsLoad.view)'
  BY <1>1, ViewKept DEF ViewsOK
<1>3. ASSUME NEW c \in Cards, Kept(cardsView, c) PROVE Kept(cardsView, c)'
  BY <1>1, <1>3, KeptKept
<1>4. ASSUME NEW c \in Cards, Kept(cardsView, c), Kept(cardsLoad.view, c) PROVE Kept(cardsLoad.view, c)'
  BY <1>1, <1>4, KeptKept
<1>5. ASSUME NEW c \in Cards, cardsView'.cards[c] # "none" PROVE Kept(cardsLoad.view, c)'
  <2>1. Kept(cardsView, c) /\ Kept(cardsLoad.view, c)
    BY <1>1, <1>5 DEF ViewsOK, Kept
  <2> QED  BY <1>4, <2>1
<1>6. ViewsOK'
  BY <1>2, <1>5 DEF ViewsOK
<1>7. FormIn(cardForm)'
  <2>1. FormIn(cardForm)' \/ cardForm' = EmptyForm
    BY <1>3, <1>4, FormKept DEF PageStays, FormsOK
  <2>2. FormIn(EmptyForm)'
    BY <1>3, <1>4, EmptyForms, FormKept
  <2> QED  BY <2>1, <2>2
<1>8. SheetIn(sheet)'
  <2>1. SheetIn(EmptySheet)'
    BY EmptyForms, SheetKept
  <2> QED  BY <2>1, SheetKept DEF PageStays, FormsOK
<1>9. /\ "person" \in dialog' => sheet'.name # NotSet
      /\ "team" \in dialog' => sheet'.from # Ungrouped /\ sheet'.from # sheet'.team
      /\ "level" \in dialog' => sheet'.rule.title # NotSet
  <2>1. dialog' \subseteq dialog
    BY DEF PageStays
  <2>2. CASE sheet' = sheet
    BY <2>1, <2>2 DEF FormsOK
  <2>3. CASE dialog' \subseteq {"card"}
    BY <2>3
  <2> QED  BY <2>2, <2>3 DEF PageStays
<1>10. FormsOK'
  BY <1>7, <1>8, <1>9 DEF FormsOK
<1> QED  BY <1>6, <1>10, PageTyped

-----------------------------------------------------------------------------
(* The handler in flight. *)

LEMMA JobFields ==
    ASSUME NEW a, NEW k, NEW o, NEW w, NEW t, NEW p, NEW r, NEW x
    PROVE  /\ JobOf(a, k, o, w, t, p, r, x).at = a /\ JobOf(a, k, o, w, t, p, r, x).kind = k
           /\ JobOf(a, k, o, w, t, p, r, x).oid = o /\ JobOf(a, k, o, w, t, p, r, x).was = w
           /\ JobOf(a, k, o, w, t, p, r, x).want = t /\ JobOf(a, k, o, w, t, p, r, x).patch = p
           /\ JobOf(a, k, o, w, t, p, r, x).rule = r /\ JobOf(a, k, o, w, t, p, r, x).raced = x
  BY DEF JobOf

LEMMA JobExcept ==
    ASSUME NEW h, h = JobOf(h.at, h.kind, h.oid, h.was, h.want, h.patch, h.rule, h.raced), NEW z
    PROVE  /\ [h EXCEPT !.at = z] = JobOf(z, h.kind, h.oid, h.was, h.want, h.patch, h.rule, h.raced)
           /\ [h EXCEPT !.oid = z] = JobOf(h.at, h.kind, z, h.was, h.want, h.patch, h.rule, h.raced)
           /\ [h EXCEPT !.patch = z] = JobOf(h.at, h.kind, h.oid, h.was, h.want, z, h.rule, h.raced)
           /\ [h EXCEPT !.rule = z] = JobOf(h.at, h.kind, h.oid, h.was, h.want, h.patch, z, h.raced)
           /\ [h EXCEPT !.raced = z] = JobOf(h.at, h.kind, h.oid, h.was, h.want, h.patch, h.rule, z)
  BY DEF JobOf

\* Where a handler goes with a request, and when there is none.
NextStage(h, ps) == IF ps # Unpatched THEN "update" ELSE IF h.kind = "drop" THEN "eraselevel" ELSE "reload"

LEMMA SendsIs ==
    ASSUME NEW h, h = JobOf(h.at, h.kind, h.oid, h.was, h.want, h.patch, h.rule, h.raced), NEW ps
    PROVE  Sends(h, ps) = JobOf(NextStage(h, ps), h.kind, h.oid, h.was, h.want, ps, h.rule, h.raced)
<1>1. PICK a : a = NextStage(h, ps)
  OBVIOUS
<1>2. PICK g : g = [h EXCEPT !.patch = ps]
  OBVIOUS
<1>3. g = JobOf(h.at, h.kind, h.oid, h.was, h.want, ps, h.rule, h.raced)
  BY <1>2, JobExcept
<1>4. [g EXCEPT !.at = a] = JobOf(a, h.kind, h.oid, h.was, h.want, ps, h.rule, h.raced)
  <2>1. g = JobOf(g.at, g.kind, g.oid, g.was, g.want, g.patch, g.rule, g.raced) /\ g.kind = h.kind /\ g.oid = h.oid
        /\ g.was = h.was /\ g.want = h.want /\ g.patch = ps /\ g.rule = h.rule /\ g.raced = h.raced
    BY <1>3, JobFields
  <2>2. [g EXCEPT !.at = a] = JobOf(a, g.kind, g.oid, g.was, g.want, g.patch, g.rule, g.raced)
    BY <2>1, JobExcept
  <2> QED  BY <2>1, <2>2
<1>5. Sends(h, ps) = [g EXCEPT !.at = a]
  <2>1. Sends(h, ps) = [h EXCEPT !.patch = ps, !.at = a]
    BY <1>1, Zenon DEF Sends, NextStage
  <2> QED  BY <2>1, <1>2, Zenon
<1> QED  BY <1>1, <1>4, <1>5

LEMMA JobIs ==
    ASSUME NEW k, NEW a, NEW w, NEW t
    PROVE  \E x : /\ Job(k, a, w, t) = JobOf(a, k, t.oid, w, t, Unpatched, BlankRule, x)
                  /\ x = IF k = "card" THEN ~SameRecords \/ OlderLoad ELSE cardsView # Listing
  BY Zenon DEF Job, JobOf

\* The end of a step of a handler.
LEMMA GoesFacts ==
    ASSUME PageTypes, NEW h, Goes(h)
    PROVE  /\ job' = h
           /\ \E d : dialog' = dialog \ {d}
           /\ cardForm' \in {cardForm, EmptyForm}
           /\ sheet' = sheet \/ (sheet' = EmptySheet /\ dialog' \subseteq {"card"})
           /\ cardsLoad' = cardsLoad \/ cardsLoad' = [at |-> "sent", view |-> cardsView]
           /\ h.at # "reload" => UNCHANGED <<dialog, cardForm, sheet, cardsLoad>>
<1>d. dialog \in (SUBSET {"card", "level"}) \cup {{"person"}, {"bulk"}, {"team"}}
  BY DEF PageTypes
<1>n. "none" \notin dialog
  <2>1. dialog \subseteq {"card", "level"} \/ dialog = {"person"} \/ dialog = {"bulk"} \/ dialog = {"team"}
    BY <1>d
  <2> QED  BY <2>1
<1>a. dialog \ {"none"} = dialog
  BY <1>n
<1>1. CASE h.at = "reload"
  <2>1. \E d : dialog' = dialog \ {d}
    <3>1. h.kind = "team" => dialog' = dialog \ {"none"}
      BY <1>1, <1>a DEF Goes
    <3> QED  BY <1>1, <3>1 DEF Goes
  <2> QED  BY <1>1, <2>1 DEF Goes, StartCardsLoad
<1>2. CASE h.at # "reload"
  <2>1. job' = h /\ UNCHANGED <<dialog, cardForm, sheet, cardsLoad>>
    BY <1>2 DEF Goes
  <2>2. dialog' = dialog \ {"none"}
    BY <1>a, <2>1
  <2> QED  BY <1>2, <2>1, <2>2
<1> QED  BY <1>1, <1>2

LEMMA GoesStays ==
    ASSUME PageTypes, NEW h, Goes(h), UNCHANGED <<cardsView, cardEvents>>
    PROVE  PageStays
  BY GoesFacts DEF PageStays

-----------------------------------------------------------------------------
(* load() *)

LEMMA ReadKeeps ==
    ASSUME CardsAssumption, RecordTypes, PageTypes, RecordsOK, ViewsOK, FormsOK, ReadCards
    PROVE  PageTypes' /\ ViewsOK' /\ FormsOK'
<1>1. /\ UNCHANGED <<cards, held, groups, rules>>
      /\ UNCHANGED <<cardsView, dialog, cardForm, sheet, cardEvents>> /\ cardsLoad' = [at |-> "read", view |-> Listing]
  BY DEF ReadCards, cardServer
<1>2. PageTypes'
  BY <1>1, ListingFacts DEF PageTypes
<1>3. Registered' = Registered /\ Named' = Named
  BY <1>1 DEF Registered, Named
<1>4. ViewOK(cardsView)'
  BY <1>1, <1>3 DEF ViewsOK, ViewOK
<1>5. ViewOK(cardsLoad.view)'
  <2>1. ViewOK(Listing) /\ cardsLoad'.view = Listing
    BY <1>1, ListingFacts
  <2>2. PICK v : v = Listing
    OBVIOUS
  <2>3. ViewOK(v) /\ cardsLoad'.view = v
    BY <2>1, <2>2
  <2> HIDE DEF Listing
  <2> QED  BY <1>1, <1>3, <2>3 DEF ViewOK
<1>6. ASSUME NEW c \in Cards, c \in Registered PROVE Kept(cardsLoad.view, c)'
  BY <1>1, <1>6, ListingFacts DEF Kept
<1>7. ViewsOK'
  BY <1>1, <1>4, <1>5, <1>6 DEF ViewsOK, ViewOK
<1>8. FormIn(cardForm)'
  BY <1>1, <1>3, <1>6 DEF FormsOK, FormIn, Kept
<1>9. SheetIn(sheet)'
  BY <1>1, <1>3 DEF FormsOK, SheetIn
<1> QED  BY <1>1, <1>2, <1>7, <1>8, <1>9 DEF FormsOK

LEMMA ArriveKeeps ==
    ASSUME CardsAssumption, RecordTypes, PageTypes, RecordsOK, ViewsOK, FormsOK, CardsArrive
    PROVE  PageTypes' /\ ViewsOK' /\ FormsOK'
<1>1. /\ UNCHANGED <<cards, held, groups, rules>> /\ UNCHANGED <<dialog, cardForm, sheet, cardEvents>>
      /\ cardsView' = cardsLoad.view /\ cardsLoad'.view = cardsLoad.view /\ cardsLoad' = [at |-> "idle", view |-> cardsLoad.view]
  BY DEF CardsArrive, cardServer
<1>2. PageTypes'
  BY <1>1 DEF PageTypes
<1>3. Registered' = Registered /\ Named' = Named
  BY <1>1 DEF Registered, Named
<1>4. ViewOK(cardsView)' /\ ViewOK(cardsLoad.view)'
  BY <1>1, <1>3 DEF ViewsOK, ViewOK
<1>5. ViewsOK'
  BY <1>1, <1>4 DEF ViewsOK, Kept
<1>6. FormIn(cardForm)'
  BY <1>1, <1>3 DEF FormsOK, FormIn, Kept
<1>7. SheetIn(sheet)'
  BY <1>1, <1>3 DEF FormsOK, SheetIn
<1> QED  BY <1>1, <1>2, <1>5, <1>6, <1>7 DEF FormsOK

LEMMA LoadFailsKeeps ==
    ASSUME CardsAssumption, RecordTypes, PageTypes, RecordsOK, ViewsOK, FormsOK, CardsLoadFails
    PROVE  PageTypes' /\ ViewsOK' /\ FormsOK'
<1>1. /\ UNCHANGED <<cards, held, groups, rules>> /\ UNCHANGED <<cardsView, dialog, cardForm, sheet>>
      /\ cardEvents < MaxCardEvents /\ cardEvents' = cardEvents + 1
      /\ cardsLoad'.view = cardsView /\ cardsLoad' = [at |-> "idle", view |-> cardsView]
  BY DEF CardsLoadFails, cardServer
<1>2. PageTypes'
  BY <1>1, EventsTyped DEF PageTypes
<1>3. Registered' = Registered /\ Named' = Named
  BY <1>1 DEF Registered, Named
<1>4. ViewOK(cardsView)' /\ ViewOK(cardsLoad.view)'
  BY <1>1, <1>3 DEF ViewsOK, ViewOK
<1>5. ViewsOK'
  BY <1>1, <1>4 DEF ViewsOK, Kept
<1>6. FormIn(cardForm)'
  BY <1>1, <1>3 DEF FormsOK, FormIn, Kept
<1>7. SheetIn(sheet)'
  BY <1>1, <1>3 DEF FormsOK, SheetIn
<1> QED  BY <1>1, <1>2, <1>5, <1>6, <1>7 DEF FormsOK

-----------------------------------------------------------------------------
(* The dialogs *)

LEMMA CredentialTyped ==
    ASSUME NEW n \in Names \cup {NotSet}, NEW t \in Teams, NEW i \in Numbers \cup {NotSet}, NEW x \in Terms \cup {NotSet},
           NEW ls \in SUBSET Groups
    PROVE  /\ Credential(n, t, i, x, ls) \in Fields
           /\ Credential(n, t, i, x, ls).levels = ls /\ Credential(n, t, i, x, ls).name = n
           /\ Credential(n, t, i, x, ls).team = t /\ Credential(n, t, i, x, ls).number = i
           /\ Credential(n, t, i, x, ls).term = x
  BY DEF Credential, Fields

LEMMA ViewFacts ==
    ASSUME PageTypes
    PROVE  /\ cardsView.cards \in [Cards -> {"none", "live", "deleted"}] /\ cardsView.held \in [Cards -> Fields]
           /\ cardsView.groups \in [Groups -> {"none", "live", "deleted"}] /\ cardsView.rules \in [Groups -> Rules]
           /\ \A c \in Cards : /\ cardsView.held[c].name \in Names \cup {NotSet} /\ cardsView.held[c].team \in Teams
                               /\ cardsView.held[c].number \in Numbers \cup {NotSet}
                               /\ cardsView.held[c].term \in Terms \cup {NotSet} /\ cardsView.held[c].levels \subseteq Groups
           /\ People \subseteq Cards /\ Offered \subseteq Groups
<1>1. cardsView \in Views
  BY DEF PageTypes
<1>2. /\ cardsView.cards \in [Cards -> {"none", "live", "deleted"}] /\ cardsView.held \in [Cards -> Fields]
      /\ cardsView.groups \in [Groups -> {"none", "live", "deleted"}] /\ cardsView.rules \in [Groups -> Rules]
  BY <1>1 DEF Views
<1>3. \A c \in Cards : cardsView.held[c] \in Fields
  BY <1>2
<1> QED  BY <1>2, <1>3 DEF Fields, People, Offered

LEMMA TeamsForTyped ==
    ASSUME PageTypes, NEW n, NEW but, NEW team \in Teams, NEW t \in TeamsFor(n, but, team)
    PROVE  t \in Teams
  BY ViewFacts DEF TeamsFor, Namesakes

LEMMA EditsTyped ==
    ASSUME CardsAssumption, PageTypes, NEW but, NEW f,
           f.name \in Names \cup {NotSet}, f.team \in Teams, f.number \in Numbers \cup {NotSet},
           f.term \in Terms \cup {NotSet}, f.levels \subseteq Groups,
           NEW g \in Edits(but, f)
    PROVE  g \in Fields /\ g.levels \subseteq f.levels \cup Offered
<1> Offered \subseteq Groups
  BY ViewFacts
<1>1. CASE f.name = NotSet
  <2>1. g \in [name : Names, team : Teams, number : IF f.number = NotSet THEN Numbers ELSE {f.number},
               term : Terms, levels : {{l} : l \in Offered}]
    BY <1>1 DEF Edits
  <2>2. g.levels \subseteq Offered
    BY <2>1
  <2> QED  BY <2>1, <2>2 DEF Fields
<1>2. CASE f.name # NotSet
  <2>1. CASE \E n \in Names : \E t \in TeamsFor(n, but, f.team) : g = Credential(n, t, f.number, f.term, f.levels)
    BY <2>1, TeamsForTyped, CredentialTyped
  <2>2. CASE \E t \in Teams : g = Credential(f.name, t, f.number, f.term, f.levels)
    BY <2>2, CredentialTyped
  <2>3. CASE \E i \in Numbers : g = Credential(f.name, f.team, i, f.term, f.levels)
    BY <2>3, CredentialTyped
  <2>4. CASE \E x \in Terms : g = Credential(f.name, f.team, f.number, x, f.levels)
    BY <2>4, CredentialTyped
  <2>5. CASE \E l \in Offered : g = Credential(f.name, f.team, f.number, f.term, Toggled(f.levels, l))
    <3>1. PICK l \in Offered : g = Credential(f.name, f.team, f.number, f.term, Toggled(f.levels, l))
      BY <2>5
    <3>2. Toggled(f.levels, l) \subseteq f.levels \cup Offered
      BY DEF Toggled
    <3> QED  BY <3>1, <3>2, CredentialTyped
  <2> QED  BY <1>2, <2>1, <2>2, <2>3, <2>4, <2>5 DEF Edits
<1> QED  BY <1>1, <1>2

LEMMA OpenedFrame ==
    ASSUME CardsAssumption, RecordTypes, PageTypes, ViewsOK, CardEvent
    PROVE  /\ UNCHANGED <<cards, held, groups, rules, told, cardsView, cardsLoad>>
           /\ cardEvents' \in 0..MaxCardEvents /\ ViewsOK'
           /\ Registered' = Registered /\ Named' = Named
           /\ Offered \subseteq Named /\ People \subseteq Registered
           /\ \A c \in People : Kept(cardsView, c) /\ Kept(cardsLoad.view, c)
<1>1. /\ UNCHANGED <<cards, held, groups, rules, told, cardsView, cardsLoad>>
      /\ cardEvents < MaxCardEvents /\ cardEvents' = cardEvents + 1
  BY DEF CardEvent, cardServer
<1>2. cardEvents' \in 0..MaxCardEvents
  BY <1>1, EventsTyped DEF PageTypes
<1>3. Registered' = Registered /\ Named' = Named
  BY <1>1 DEF Registered, Named
<1>4. ViewsOK'
  BY <1>1, <1>3 DEF ViewsOK, ViewOK, Kept
<1>5. \A c \in People : c \in Registered /\ Kept(cardsView, c) /\ Kept(cardsLoad.view, c)
  BY DEF People, ViewsOK, ViewOK, Kept
<1>6. Offered \subseteq Named
  BY DEF Offered, ViewsOK, ViewOK
<1> QED  BY <1>1, <1>2, <1>3, <1>4, <1>5, <1>6

\* A form of a credential, as it is opened or changed.
LEMMA FormOpened ==
    ASSUME CardsAssumption, RecordTypes, PageTypes, ViewsOK, FormsOK, CardEvent, UNCHANGED sheet,
           dialog' = {"card"}, NEW o \in Cards \cup {NewRecord}, NEW g \in Fields,
           o \in Cards => o \in Registered /\ Kept(cardsView, o) /\ Kept(cardsLoad.view, o),
           g.levels \subseteq Named,
           cardForm' = CardFormOf(o, g)
    PROVE  PageTypes' /\ ViewsOK' /\ FormsOK'
<1>1. /\ UNCHANGED <<cards, held, groups, rules, told, cardsView, cardsLoad>>
      /\ cardEvents' \in 0..MaxCardEvents /\ ViewsOK' /\ Registered' = Registered /\ Named' = Named
  BY OpenedFrame
<1>2. cardForm' \in Forms /\ cardForm'.oid = o /\ cardForm'.levels = g.levels
  BY DEF CardFormOf, Forms, Fields
<1>3. PageTypes'
  BY <1>1, <1>2 DEF PageTypes
<1>4. FormIn(cardForm)'
  BY <1>1, <1>2 DEF FormIn, Kept
<1>5. SheetIn(sheet)'
  BY <1>1 DEF FormsOK, SheetIn
<1> QED  BY <1>1, <1>3, <1>4, <1>5 DEF FormsOK

LEMMA EditCardKeeps ==
    ASSUME CardsAssumption, RecordTypes, PageTypes, ViewsOK, FormsOK, EditCard
    PROVE  PageTypes' /\ ViewsOK' /\ FormsOK'
<1>1. /\ CardEvent /\ UNCHANGED sheet /\ dialog' = {"card"}
      /\ Offered \subseteq Named /\ People \subseteq Registered
      /\ \A c \in People : Kept(cardsView, c) /\ Kept(cardsLoad.view, c)
  BY OpenedFrame DEF EditCard
<1>2. CASE \E c \in People : \E g \in Edits({c}, Ticked(cardsView.held[c])) : cardForm' = CardFormOf(c, g)
  <2>1. PICK c \in People : \E g \in Edits({c}, Ticked(cardsView.held[c])) : cardForm' = CardFormOf(c, g)
    BY <1>2
  <2>2. PICK g \in Edits({c}, Ticked(cardsView.held[c])) : cardForm' = CardFormOf(c, g)
    BY <2>1
  <2>3. c \in Cards /\ Offered \subseteq Groups
    BY ViewFacts
  <2>4. PICK f : f = Ticked(cardsView.held[c])
    OBVIOUS
  <2>5. /\ f.name \in Names \cup {NotSet} /\ f.team \in Teams /\ f.number \in Numbers \cup {NotSet}
        /\ f.term \in Terms \cup {NotSet} /\ f.levels \subseteq Groups /\ f.levels \subseteq Offered
    BY <2>3, <2>4, ViewFacts, CredentialTyped DEF Ticked
  <2>6. g \in Fields /\ g.levels \subseteq f.levels \cup Offered
    BY <2>2, <2>4, <2>5, EditsTyped
  <2> QED  BY <1>1, <2>2, <2>3, <2>5, <2>6, FormOpened
<1>3. CASE \E g \in Edits({}, BlankCard) : cardForm' = CardFormOf(NewRecord, g)
  <2>1. PICK g \in Edits({}, BlankCard) : cardForm' = CardFormOf(NewRecord, g)
    BY <1>3
  <2>2. BlankCard \in Fields /\ BlankCard.levels = {}
    BY BlankTyped DEF BlankCard, Credential
  <2>3. g \in Fields /\ g.levels \subseteq Offered
    <3>1. /\ BlankCard.name \in Names \cup {NotSet} /\ BlankCard.team \in Teams /\ BlankCard.number \in Numbers \cup {NotSet}
          /\ BlankCard.term \in Terms \cup {NotSet} /\ BlankCard.levels \subseteq Groups
      BY <2>2 DEF Fields
    <3> QED  BY <2>1, <2>2, <3>1, EditsTyped
  <2>4. NewRecord \notin Cards
    BY DEF CardsAssumption
  <2> QED  BY <1>1, <2>1, <2>3, <2>4, FormOpened
<1> QED  BY <1>2, <1>3 DEF EditCard

LEMMA FillCardFormKeeps ==
    ASSUME CardsAssumption, RecordTypes, PageTypes, ViewsOK, FormsOK, FillCardForm
    PROVE  PageTypes' /\ ViewsOK' /\ FormsOK'
<1>1. /\ CardEvent /\ UNCHANGED sheet /\ dialog' = {"card"} /\ Offered \subseteq Named
  BY OpenedFrame DEF FillCardForm
<1>2. PICK g \in Edits({cardForm.oid}, cardForm) : cardForm' = CardFormOf(cardForm.oid, g)
  BY DEF FillCardForm
<1>3. /\ cardForm.oid \in Cards \cup {NewRecord}
      /\ cardForm.name \in Names \cup {NotSet} /\ cardForm.team \in Teams /\ cardForm.number \in Numbers \cup {NotSet}
      /\ cardForm.term \in Terms \cup {NotSet} /\ cardForm.levels \subseteq Groups
  BY DEF PageTypes, Forms
<1>4. g \in Fields /\ g.levels \subseteq cardForm.levels \cup Offered
  BY <1>2, <1>3, EditsTyped
<1>5. /\ cardForm.oid \in Cards => cardForm.oid \in Registered /\ Kept(cardsView, cardForm.oid)
                                       /\ Kept(cardsLoad.view, cardForm.oid)
      /\ cardForm.levels \subseteq Named
  BY DEF FormsOK, FormIn
<1>6. g.levels \subseteq Named
  BY <1>1, <1>4, <1>5
<1> QED  BY <1>1, <1>2, <1>3, <1>4, <1>5, <1>6, FormOpened

\* Another dialog, as it is opened.
LEMMA SheetOpened ==
    ASSUME CardsAssumption, RecordTypes, PageTypes, ViewsOK, FormsOK, CardEvent, UNCHANGED cardForm,
           sheet' \in Sheets, SheetIn(sheet'), NEW k \in {"person", "bulk", "team", "level"},
           dialog' = {k} \/ (k = "level" /\ dialog' = {"card", "level"}),
           k = "person" => sheet'.name # NotSet,
           k = "team" => sheet'.from # Ungrouped /\ sheet'.from # sheet'.team,
           k = "level" => sheet'.rule.title # NotSet
    PROVE  PageTypes' /\ ViewsOK' /\ FormsOK'
<1>1. /\ UNCHANGED <<cards, held, groups, rules, told, cardsView, cardsLoad>>
      /\ cardEvents' \in 0..MaxCardEvents /\ ViewsOK' /\ Registered' = Registered /\ Named' = Named
  BY OpenedFrame
<1>2. dialog' \in (SUBSET {"card", "level"}) \cup {{"person"}, {"bulk"}, {"team"}}
  OBVIOUS
<1>3. PageTypes'
  BY <1>1, <1>2 DEF PageTypes
<1>4. FormIn(cardForm)'
  BY <1>1 DEF FormsOK, FormIn, Kept
<1>5. SheetIn(sheet)'
  BY <1>1 DEF SheetIn
<1>6. /\ "person" \in dialog' => sheet'.name # NotSet
      /\ "team" \in dialog' => sheet'.from # Ungrouped /\ sheet'.from # sheet'.team
      /\ "level" \in dialog' => sheet'.rule.title # NotSet
  OBVIOUS
<1> QED  BY <1>1, <1>3, <1>4, <1>5, <1>6 DEF FormsOK

SheetOf(o, cs, n, t, old, ls, m, r, b) ==
    [oid |-> o, oids |-> cs, name |-> n, team |-> t, from |-> old, levels |-> ls, mode |-> m, rule |-> r, return |-> b]

EmptyIs == EmptySheet = SheetOf(NewRecord, {}, NotSet, Ungrouped, Ungrouped, {}, "add", BlankRule, FALSE)

LEMMA EmptySheetIs == EmptyIs
  BY DEF EmptyIs, EmptySheet, SheetOf

LEMMA PersonSheet ==
    ASSUME NEW cs, NEW n, NEW t
    PROVE  [EmptySheet EXCEPT !.oids = cs, !.name = n, !.team = t]
             = SheetOf(NewRecord, cs, n, t, Ungrouped, {}, "add", BlankRule, FALSE)
<1>1. PICK a : a = [EmptySheet EXCEPT !.oids = cs]
  OBVIOUS
<1>2. PICK b : b = [a EXCEPT !.name = n]
  OBVIOUS
<1>3. [EmptySheet EXCEPT !.oids = cs, !.name = n, !.team = t] = [b EXCEPT !.team = t]
  BY <1>1, <1>2, Zenon
<1>4. a = SheetOf(NewRecord, cs, NotSet, Ungrouped, Ungrouped, {}, "add", BlankRule, FALSE)
  BY <1>1, EmptySheetIs DEF EmptyIs, SheetOf
<1>5. b = SheetOf(NewRecord, cs, n, Ungrouped, Ungrouped, {}, "add", BlankRule, FALSE)
  BY <1>2, <1>4 DEF SheetOf
<1>6. PICK c : c = [b EXCEPT !.team = t]
  OBVIOUS
<1>7. c = SheetOf(NewRecord, cs, n, t, Ungrouped, {}, "add", BlankRule, FALSE)
  BY <1>5, <1>6 DEF SheetOf
<1> QED  BY <1>3, <1>6, <1>7, Zenon

LEMMA BulkSheet ==
    ASSUME NEW cs, NEW ls, NEW m
    PROVE  [EmptySheet EXCEPT !.oids = cs, !.levels = ls, !.mode = m]
             = SheetOf(NewRecord, cs, NotSet, Ungrouped, Ungrouped, ls, m, BlankRule, FALSE)
<1>1. PICK a : a = [EmptySheet EXCEPT !.oids = cs]
  OBVIOUS
<1>2. PICK b : b = [a EXCEPT !.levels = ls]
  OBVIOUS
<1>3. [EmptySheet EXCEPT !.oids = cs, !.levels = ls, !.mode = m] = [b EXCEPT !.mode = m]
  BY <1>1, <1>2, Zenon
<1>4. a = SheetOf(NewRecord, cs, NotSet, Ungrouped, Ungrouped, {}, "add", BlankRule, FALSE)
  BY <1>1, EmptySheetIs DEF EmptyIs, SheetOf
<1>5. b = SheetOf(NewRecord, cs, NotSet, Ungrouped, Ungrouped, ls, "add", BlankRule, FALSE)
  BY <1>2, <1>4 DEF SheetOf
<1>6. PICK c : c = [b EXCEPT !.mode = m]
  OBVIOUS
<1>7. c = SheetOf(NewRecord, cs, NotSet, Ungrouped, Ungrouped, ls, m, BlankRule, FALSE)
  BY <1>5, <1>6 DEF SheetOf
<1> QED  BY <1>3, <1>6, <1>7, Zenon

LEMMA TeamSheet ==
    ASSUME NEW old, NEW new
    PROVE  [EmptySheet EXCEPT !.from = old, !.team = new]
             = SheetOf(NewRecord, {}, NotSet, new, old, {}, "add", BlankRule, FALSE)
<1>1. PICK a : a = [EmptySheet EXCEPT !.from = old]
  OBVIOUS
<1>2. [EmptySheet EXCEPT !.from = old, !.team = new] = [a EXCEPT !.team = new]
  BY <1>1, Zenon
<1>3. a = SheetOf(NewRecord, {}, NotSet, Ungrouped, old, {}, "add", BlankRule, FALSE)
  BY <1>1, EmptySheetIs DEF EmptyIs, SheetOf
<1>4. PICK c : c = [a EXCEPT !.team = new]
  OBVIOUS
<1>5. c = SheetOf(NewRecord, {}, NotSet, new, old, {}, "add", BlankRule, FALSE)
  BY <1>3, <1>4 DEF SheetOf
<1> QED  BY <1>2, <1>4, <1>5, Zenon

LEMMA GroupSheet ==
    ASSUME NEW o, NEW r
    PROVE  [EmptySheet EXCEPT !.oid = o, !.rule = r]
             = SheetOf(o, {}, NotSet, Ungrouped, Ungrouped, {}, "add", r, FALSE)
<1>1. PICK a : a = [EmptySheet EXCEPT !.oid = o]
  OBVIOUS
<1>2. [EmptySheet EXCEPT !.oid = o, !.rule = r] = [a EXCEPT !.rule = r]
  BY <1>1, Zenon
<1>3. a = SheetOf(o, {}, NotSet, Ungrouped, Ungrouped, {}, "add", BlankRule, FALSE)
  BY <1>1, EmptySheetIs DEF EmptyIs, SheetOf
<1>4. PICK c : c = [a EXCEPT !.rule = r]
  OBVIOUS
<1>5. c = SheetOf(o, {}, NotSet, Ungrouped, Ungrouped, {}, "add", r, FALSE)
  BY <1>3, <1>4 DEF SheetOf
<1> QED  BY <1>2, <1>4, <1>5, Zenon

LEMMA NewGroupSheet ==
    ASSUME NEW ls, NEW r
    PROVE  [EmptySheet EXCEPT !.rule = r, !.levels = ls, !.return = TRUE]
             = SheetOf(NewRecord, {}, NotSet, Ungrouped, Ungrouped, ls, "add", r, TRUE)
<1>1. PICK a : a = [EmptySheet EXCEPT !.rule = r]
  OBVIOUS
<1>2. PICK b : b = [a EXCEPT !.levels = ls]
  OBVIOUS
<1>3. [EmptySheet EXCEPT !.rule = r, !.levels = ls, !.return = TRUE] = [b EXCEPT !.return = TRUE]
  BY <1>1, <1>2, Zenon
<1>4. a = SheetOf(NewRecord, {}, NotSet, Ungrouped, Ungrouped, {}, "add", r, FALSE)
  BY <1>1, EmptySheetIs DEF EmptyIs, SheetOf
<1>5. b = SheetOf(NewRecord, {}, NotSet, Ungrouped, Ungrouped, ls, "add", r, FALSE)
  BY <1>2, <1>4 DEF SheetOf
<1>6. PICK c : c = [b EXCEPT !.return = TRUE]
  OBVIOUS
<1>7. c = SheetOf(NewRecord, {}, NotSet, Ungrouped, Ungrouped, ls, "add", r, TRUE)
  BY <1>5, <1>6 DEF SheetOf
<1> QED  BY <1>3, <1>6, <1>7, Zenon

LEMMA SheetDialogsKeep ==
    ASSUME CardsAssumption, RecordTypes, PageTypes, ViewsOK, FormsOK,
           EditPerson \/ ManageAccess \/ ManageTeams \/ EditGroup
    PROVE  PageTypes' /\ ViewsOK' /\ FormsOK'
<1>1. /\ CardEvent /\ UNCHANGED cardForm
      /\ UNCHANGED <<cards, held, groups, rules, told, cardsView, cardsLoad>>
      /\ Registered' = Registered /\ Named' = Named
      /\ Offered \subseteq Named /\ People \subseteq Registered
  BY OpenedFrame DEF EditPerson, ManageAccess, ManageTeams, EditGroup
<1>2. /\ People \subseteq Cards /\ Offered \subseteq Groups /\ NewRecord \notin Groups
      /\ Ungrouped \in Teams /\ BlankRule \in Rules
  BY ViewFacts, BlankTyped DEF CardsAssumption
<1>3. CASE EditPerson
  <2>1. PICK p \in People, n \in Names, t \in Teams : \E cs \in SUBSET Namesakes(cardsView.held[p].name, {}) :
           cs # {} /\ sheet' = [EmptySheet EXCEPT !.oids = cs, !.name = n, !.team = t]
    BY <1>3 DEF EditPerson
  <2>2. PICK cs \in SUBSET Namesakes(cardsView.held[p].name, {}) :
           sheet' = [EmptySheet EXCEPT !.oids = cs, !.name = n, !.team = t]
    BY <2>1
  <2>3. cs \subseteq People
    BY DEF Namesakes
  <2>4. sheet' = SheetOf(NewRecord, cs, n, t, Ungrouped, {}, "add", BlankRule, FALSE)
    BY <2>2, PersonSheet
  <2>5. /\ sheet' \in Sheets /\ sheet'.oid = NewRecord /\ sheet'.oids = cs /\ sheet'.name = n /\ sheet'.levels = {}
    BY <1>2, <2>3, <2>4 DEF SheetOf, Sheets
  <2>6. SheetIn(sheet')
    BY <1>1, <1>2, <2>3, <2>5 DEF SheetIn
  <2>7. dialog' = {"person"} /\ NotSet \notin Names
    BY <1>3 DEF EditPerson, CardsAssumption
  <2> QED  BY <1>1, <2>5, <2>6, <2>7, SheetOpened
<1>4. CASE ManageAccess
  <2>1. PICK cs \in (SUBSET People) \ {{}}, ls \in SUBSET Offered, m \in {"add", "remove", "replace"} :
           sheet' = [EmptySheet EXCEPT !.oids = cs, !.levels = ls, !.mode = m]
    BY <1>4 DEF ManageAccess
  <2>2. cs \subseteq People
    BY <2>1
  <2>3. sheet' = SheetOf(NewRecord, cs, NotSet, Ungrouped, Ungrouped, ls, m, BlankRule, FALSE)
    BY <2>1, BulkSheet
  <2>4. /\ sheet' \in Sheets /\ sheet'.oid = NewRecord /\ sheet'.oids = cs /\ sheet'.levels = ls
    BY <1>2, <2>2, <2>3 DEF SheetOf, Sheets
  <2>5. SheetIn(sheet')
    BY <1>1, <1>2, <2>2, <2>4 DEF SheetIn
  <2>6. dialog' = {"bulk"}
    BY <1>4 DEF ManageAccess
  <2> QED  BY <1>1, <2>4, <2>5, <2>6, SheetOpened
<1>5. CASE ManageTeams
  <2>1. PICK old \in ManagementGroups, new \in Teams :
           new # old /\ sheet' = [EmptySheet EXCEPT !.from = old, !.team = new]
    BY <1>5 DEF ManageTeams
  <2>2. old \in Teams /\ old # Ungrouped
    BY ViewFacts DEF ManagementGroups
  <2>3. sheet' = SheetOf(NewRecord, {}, NotSet, new, old, {}, "add", BlankRule, FALSE)
    BY <2>1, TeamSheet
  <2>4. /\ sheet' \in Sheets /\ sheet'.oid = NewRecord /\ sheet'.oids = {} /\ sheet'.levels = {}
        /\ sheet'.from = old /\ sheet'.team = new
    BY <1>2, <2>2, <2>3 DEF SheetOf, Sheets
  <2>5. SheetIn(sheet')
    BY <1>2, <2>4 DEF SheetIn
  <2>6. dialog' = {"team"}
    BY <1>5 DEF ManageTeams
  <2>7. sheet'.from # Ungrouped /\ sheet'.from # sheet'.team
    BY <2>1, <2>2, <2>4
  <2> QED  BY <1>1, <2>4, <2>5, <2>6, <2>7, SheetOpened
<1>6. CASE EditGroup
  <2>1. PICK n \in Titles, b \in BOOLEAN :
           \/ dialog = {} /\ \E l \in (Offered \ {NoAccess}) \cup {NewRecord} :
                  sheet' = [EmptySheet EXCEPT !.oid = l, !.rule = [title |-> n, opens |-> b]]
           \/ /\ dialog = {"card"}
              /\ sheet' = [EmptySheet EXCEPT !.rule = [title |-> n, opens |-> b], !.levels = cardForm.levels,
                                             !.return = TRUE]
    BY <1>6 DEF EditGroup
  <2>2. PICK r : r = [title |-> n, opens |-> b]
    OBVIOUS
  <2>3. r \in Rules /\ r.title = n /\ NotSet \notin Titles
    BY <2>2 DEF Rules, CardsAssumption
  <2>4. CASE dialog = {} /\ \E l \in (Offered \ {NoAccess}) \cup {NewRecord} : sheet' = [EmptySheet EXCEPT !.oid = l, !.rule = r]
    <3>1. PICK l \in (Offered \ {NoAccess}) \cup {NewRecord} : sheet' = [EmptySheet EXCEPT !.oid = l, !.rule = r]
      BY <2>4
    <3>2. sheet' = SheetOf(l, {}, NotSet, Ungrouped, Ungrouped, {}, "add", r, FALSE)
      BY <3>1, GroupSheet
    <3>3. /\ sheet' \in Sheets /\ sheet'.oid = l /\ sheet'.oids = {} /\ sheet'.levels = {} /\ sheet'.rule = r
      <4>1. l \in Groups \cup {NewRecord}
        BY <1>2, <3>1
      <4> QED  BY <1>2, <2>3, <3>2, <4>1 DEF SheetOf, Sheets
    <3>4. l \in Groups => groups[l] # "none"
      BY <1>2, <3>1 DEF Offered, ViewsOK, ViewOK
    <3>5. SheetIn(sheet')
      BY <3>3, <3>4 DEF SheetIn
    <3>6. dialog' = {"level"}
      BY <1>6, <2>4 DEF EditGroup
    <3> QED  BY <1>1, <2>3, <3>3, <3>5, <3>6, SheetOpened
  <2>5. CASE /\ dialog = {"card"}
             /\ sheet' = [EmptySheet EXCEPT !.rule = r, !.levels = cardForm.levels, !.return = TRUE]
    <3>1. cardForm.levels \subseteq Groups /\ cardForm.levels \subseteq Named
      BY DEF PageTypes, Forms, FormsOK, FormIn
    <3>2. PICK ls : ls = cardForm.levels
      OBVIOUS
    <3>3. sheet' = SheetOf(NewRecord, {}, NotSet, Ungrouped, Ungrouped, ls, "add", r, TRUE)
      BY <2>5, <3>2, NewGroupSheet
    <3>4. /\ sheet' \in Sheets /\ sheet'.oid = NewRecord /\ sheet'.oids = {} /\ sheet'.levels = ls /\ sheet'.rule = r
      BY <1>2, <2>3, <3>1, <3>2, <3>3 DEF SheetOf, Sheets
    <3>5. SheetIn(sheet')
      BY <1>2, <3>1, <3>2, <3>4 DEF SheetIn
    <3>6. dialog' = {"card", "level"}
      BY <1>6, <2>5 DEF EditGroup
    <3> QED  BY <1>1, <2>3, <3>4, <3>5, <3>6, SheetOpened
  <2> QED  BY <2>1, <2>2, <2>4, <2>5
<1> QED  BY <1>3, <1>4, <1>5, <1>6

LEMMA CloseStays ==
    ASSUME PageTypes, CloseDialog
    PROVE  PageStays /\ UNCHANGED <<cards, held, groups, rules, told>> /\ job' = job
<1>1. PICK top \in dialog :
         /\ "level" \in dialog => top = "level"
         /\ dialog' = dialog \ {top}
         /\ IF top = "card" THEN cardForm' = Left(cardForm) /\ UNCHANGED sheet
                            ELSE sheet' = LeftOf(sheet) /\ UNCHANGED cardForm
  BY DEF CloseDialog
<1>2. UNCHANGED <<cards, held, groups, rules, told, cardsView, cardsLoad, job, cardEvents>>
  BY DEF CloseDialog, cardServer
<1>3. top # "card" => dialog' \subseteq {"card"}
  <2>1. dialog \in (SUBSET {"card", "level"}) \cup {{"person"}, {"bulk"}, {"team"}}
    BY DEF PageTypes
  <2>2. CASE dialog \in SUBSET {"card", "level"}
    BY <1>1, <2>2
  <2>3. CASE dialog \in {{"person"}, {"bulk"}, {"team"}}
    BY <1>1, <2>3
  <2> QED  BY <2>1, <2>2, <2>3
<1> QED  BY <1>1, <1>2, <1>3 DEF PageStays, Left, LeftOf

-----------------------------------------------------------------------------
(* The handler in flight: its shape. *)

LEMMA JobKept ==
    ASSUME RecordTypes, RecordsMove, NEW h, JobIn(h)
    PROVE  JobIn(h)'
<1>1. /\ \A c \in Cards : c \in Registered => c \in Registered'
      /\ Named \subseteq Named'
      /\ \A c \in Cards : cards[c] # "none" => cards'[c] # "none"
      /\ \A l \in Groups : groups[l] # "none" => groups'[l] # "none"
  BY DEF RecordsMove, Named
<1>2. IsJob(h)' /\ PatchOK(h.patch)'
  BY <1>1 DEF JobIn, IsJob, PatchOK, Stages
<1>3. h.kind = "card" => CardJob(h)'
  BY <1>1 DEF JobIn, CardJob
<1>4. h.kind = "level" => LevelJob(h)'
  BY <1>1 DEF JobIn, LevelJob
<1> QED  BY <1>1, <1>2, <1>3, <1>4 DEF JobIn

LEMMA NoJobIn ==
    ASSUME CardsAssumption PROVE JobIn(NoJob)
<1>1. NoJob = JobOf("idle", "none", NewRecord, Absent, EmptySheet, Unpatched, BlankRule, FALSE)
  BY DEF NoJob, JobOf
<1>2. /\ NoJob.at = "idle" /\ NoJob.kind = "none" /\ NoJob.oid = NewRecord /\ NoJob.was = Absent
      /\ NoJob.want = EmptySheet /\ NoJob.patch = Unpatched /\ NoJob.rule = BlankRule /\ NoJob.raced = FALSE
  BY DEF NoJob
<1>3. IsJob(NoJob)
  BY <1>1, <1>2, NoPatchTyped, BlankTyped DEF IsJob, Stages
<1>4. PatchOK(Unpatched)
  BY DEF PatchOK, Unpatched
<1>5. EmptySheet \in Sheets /\ EmptySheet.levels = {}
  BY EmptyForms DEF EmptySheet
<1> QED  BY <1>2, <1>3, <1>4, <1>5 DEF JobIn

LEMMA RacedIn ==
    ASSUME JobIn(job)
    PROVE  /\ JobIn(Raced) /\ Raced.at = job.at /\ (job.at # "idle" => Raced.raced) /\ (job.at = "idle" => Raced = job)
           /\ Raced.kind = job.kind
<1>1. CASE job.at = "idle"
  BY <1>1 DEF Raced
<1>2. CASE job.at # "idle"
  <2>1. job = JobOf(job.at, job.kind, job.oid, job.was, job.want, job.patch, job.rule, job.raced)
    BY DEF JobIn, IsJob
  <2>2. Raced = JobOf(job.at, job.kind, job.oid, job.was, job.want, job.patch, job.rule, TRUE)
    BY <1>2, <2>1, JobExcept DEF Raced
  <2>3. /\ Raced.at = job.at /\ Raced.kind = job.kind /\ Raced.oid = job.oid /\ Raced.was = job.was
        /\ Raced.want = job.want /\ Raced.patch = job.patch /\ Raced.rule = job.rule /\ Raced.raced = TRUE
    BY <2>2 DEF JobOf
  <2>4. Raced = JobOf(Raced.at, Raced.kind, Raced.oid, Raced.was, Raced.want, Raced.patch, Raced.rule, Raced.raced)
    BY <2>2, <2>3
  <2>5. IsJob(Raced)
    BY <2>3, <2>4 DEF JobIn, IsJob, Stages
  <2>6. JobIn(Raced)
    BY <2>3, <2>5 DEF JobIn, CardJob, LevelJob
  <2> QED  BY <1>2, <2>3, <2>6
<1> QED  BY <1>1, <1>2

\* A handler with other fields for the next step.
LEMMA JobOfIn ==
    ASSUME NEW h, NEW a, NEW k, NEW o, NEW w, NEW t, NEW p, NEW r, NEW x,
           h = JobOf(a, k, o, w, t, p, r, x)
    PROVE  /\ h = JobOf(h.at, h.kind, h.oid, h.was, h.want, h.patch, h.rule, h.raced)
           /\ h.at = a /\ h.kind = k /\ h.oid = o /\ h.was = w /\ h.want = t /\ h.patch = p /\ h.rule = r /\ h.raced = x
  BY DEF JobOf

\* The request for one credential.
WasOf(h) == IF h.was = Absent THEN Unknown ELSE h.was

CardPatch(h) ==
    [name |-> Differing(h.want.name, WasOf(h).name), team |-> Differing(h.want.team, WasOf(h).team),
     number |-> Differing(h.want.number, WasOf(h).number), term |-> Differing(cardForm.term, WasOf(h).term),
     add |-> (h.want.levels \cap Offered) \ WasOf(h).levels,
     drop |-> (WasOf(h).levels \cap Offered) \ h.want.levels]

CardPatches(h, c) == [d \in Cards |-> IF d \in {c} THEN CardPatch(h) ELSE NoPatch]

LEMMA CardChangesIs ==
    ASSUME NEW h, h = JobOf(h.at, h.kind, h.oid, h.was, h.want, h.patch, h.rule, h.raced), NEW c, NEW g,
           g = CardChanges(h, c)
    PROVE  g = JobOf(NextStage(h, CardPatches(h, c)), h.kind, c, h.was, h.want, CardPatches(h, c), h.rule, h.raced)
<1>1. PICK e : e = [h EXCEPT !.oid = c]
  OBVIOUS
<1>2. PICK ps : ps = CardPatches(h, c)
  OBVIOUS
<1>3. g = Sends(e, ps)
  BY <1>1, <1>2, Zenon DEF CardChanges, CardPatches, CardPatch, WasOf, Only
<1>4. e = JobOf(h.at, h.kind, c, h.was, h.want, h.patch, h.rule, h.raced)
  BY <1>1, JobExcept
<1>5. /\ e = JobOf(e.at, e.kind, e.oid, e.was, e.want, e.patch, e.rule, e.raced)
      /\ e.kind = h.kind /\ e.oid = c /\ e.was = h.was /\ e.want = h.want /\ e.rule = h.rule /\ e.raced = h.raced
  BY <1>4 DEF JobOf
<1>6. Sends(e, ps) = JobOf(NextStage(e, ps), e.kind, e.oid, e.was, e.want, ps, e.rule, e.raced)
  BY <1>5, SendsIs
<1>7. NextStage(e, ps) = NextStage(h, ps)
  BY <1>5 DEF NextStage
<1> QED  BY <1>2, <1>3, <1>5, <1>6, <1>7

LEMMA DifferingIs ==
    ASSUME NEW x, NEW y PROVE Differing(x, y) = Absent \/ (Differing(x, y) = x /\ x # y)
  BY DEF Differing

LEMMA CardPatchTyped ==
    ASSUME CardsAssumption, PageTypes, NEW h, h.want \in Forms, NotSet \notin {h.want.name, h.want.number, h.want.term},
           h.want.levels \subseteq Named, h.was \in Fields \cup {Absent}
    PROVE  /\ CardPatch(h) \in Patches /\ CardPatch(h).add \subseteq Named
           /\ h.was = Absent => CardPatch(h).name # Absent
<1>1. /\ h.want.name \in Names /\ h.want.team \in Teams /\ h.want.number \in Numbers /\ h.want.levels \subseteq Groups
      /\ cardForm.term \in Terms \cup {NotSet} /\ Offered \subseteq Groups
  BY ViewFacts DEF Forms, PageTypes
<1>2. PICK n : n = Differing(h.want.name, WasOf(h).name)
  OBVIOUS
<1>3. PICK t : t = Differing(h.want.team, WasOf(h).team)
  OBVIOUS
<1>4. PICK i : i = Differing(h.want.number, WasOf(h).number)
  OBVIOUS
<1>5. PICK x : x = Differing(cardForm.term, WasOf(h).term)
  OBVIOUS
<1>6. n \in Names \cup {Absent} /\ t \in Teams \cup {Absent} /\ i \in Numbers \cup {Absent} /\ x \in Terms \cup {NotSet, Absent}
  BY <1>1, <1>2, <1>3, <1>4, <1>5, DifferingIs
<1>7. PICK ls : ls = (h.want.levels \cap Offered) \ WasOf(h).levels
  OBVIOUS
<1>8. PICK ks : ks = (WasOf(h).levels \cap Offered) \ h.want.levels
  OBVIOUS
<1>9. ls \in SUBSET Groups /\ ks \in SUBSET Groups /\ ls \subseteq Named
  BY <1>1, <1>7, <1>8
<1>10. CardPatch(h) = [name |-> n, team |-> t, number |-> i, term |-> x, add |-> ls, drop |-> ks]
  BY <1>2, <1>3, <1>4, <1>5, <1>7, <1>8, Zenon DEF CardPatch
<1>11. CardPatch(h) \in Patches /\ CardPatch(h).add \subseteq Named /\ CardPatch(h).name = n
  BY <1>6, <1>9, <1>10 DEF Patches
<1>12. h.was = Absent => n # Absent
  BY <1>1, <1>2 DEF WasOf, Unknown, Credential, Differing, CardsAssumption
<1> QED  BY <1>11, <1>12

LEMMA CardPatchesFacts ==
    ASSUME CardsAssumption, PageTypes, NEW h, h.want \in Forms, NotSet \notin {h.want.name, h.want.number, h.want.term},
           h.want.levels \subseteq Named, h.was \in Fields \cup {Absent}, NEW c \in Cards,
           c \in Registered \/ h.was = Absent
    PROVE  /\ CardPatches(h, c) \in [Cards -> Patches] /\ PatchOK(CardPatches(h, c))
           /\ CardPatches(h, c)[c] = CardPatch(h)
           /\ \A d \in Cards : d # c => CardPatches(h, c)[d] = NoPatch
           /\ CardPatches(h, c) = Unpatched <=> CardPatch(h) = NoPatch
           /\ h.was = Absent => CardPatches(h, c) # Unpatched
<1>1. CardPatch(h) \in Patches /\ CardPatch(h).add \subseteq Named /\ (h.was = Absent => CardPatch(h).name # Absent)
  BY CardPatchTyped
<1>2. NoPatch \in Patches /\ NoPatch.name = Absent
  BY NoPatchTyped DEF NoPatch
<1> HIDE DEF CardPatch, NoPatch
<1>3. /\ CardPatches(h, c) \in [Cards -> Patches] /\ CardPatches(h, c)[c] = CardPatch(h)
      /\ \A d \in Cards : d # c => CardPatches(h, c)[d] = NoPatch
  BY <1>1, <1>2 DEF CardPatches
<1>4. PatchOK(CardPatches(h, c))
  BY <1>1, <1>3 DEF PatchOK
<1>5. CardPatches(h, c) = Unpatched <=> CardPatch(h) = NoPatch
  BY <1>3 DEF CardPatches, Unpatched
<1> QED  BY <1>1, <1>2, <1>3, <1>4, <1>5

\* What saveCard sends, or that it sends nothing.
LEMMA CardChangesIn ==
    ASSUME CardsAssumption, PageTypes, NEW h, IsJob(h), h.kind = "card", h.want \in Forms,
           NotSet \notin {h.want.name, h.want.number, h.want.term},
           h.want.levels \subseteq Named, h.was \in Fields \cup {Absent}, NEW c \in Cards,
           c \in Registered \/ h.was = Absent, NEW g, g = CardChanges(h, c)
    PROVE  /\ IsJob(g) /\ PatchOK(g.patch) /\ g.kind = "card" /\ g.oid = c /\ g.was = h.was /\ g.want = h.want
           /\ g.patch = CardPatches(h, c) /\ g.raced = h.raced
           /\ g.at = IF CardPatches(h, c) # Unpatched THEN "update" ELSE "reload"
           /\ \A d \in Cards : g.patch[d] # NoPatch => d = c
<1>1. g = JobOf(NextStage(h, CardPatches(h, c)), h.kind, c, h.was, h.want, CardPatches(h, c), h.rule, h.raced)
  BY CardChangesIs DEF IsJob
<1>2. /\ g = JobOf(g.at, g.kind, g.oid, g.was, g.want, g.patch, g.rule, g.raced)
      /\ g.at = NextStage(h, CardPatches(h, c)) /\ g.kind = h.kind /\ g.oid = c /\ g.was = h.was /\ g.want = h.want
      /\ g.patch = CardPatches(h, c) /\ g.rule = h.rule /\ g.raced = h.raced
  BY <1>1, JobOfIn
<1>3. /\ CardPatches(h, c) \in [Cards -> Patches] /\ PatchOK(CardPatches(h, c))
      /\ \A d \in Cards : d # c => CardPatches(h, c)[d] = NoPatch
  BY CardPatchesFacts
<1>4. g.at = IF CardPatches(h, c) # Unpatched THEN "update" ELSE "reload"
  BY <1>2 DEF NextStage
<1>5. IsJob(g)
  BY <1>2, <1>3, <1>4 DEF IsJob, Stages
<1> QED  BY <1>2, <1>3, <1>4, <1>5

-----------------------------------------------------------------------------
(* The handlers of several credentials. *)

PatchRec(n, t, i, x, a, d) == [name |-> n, team |-> t, number |-> i, term |-> x, add |-> a, drop |-> d]

LEMMA PatchRecFacts ==
    ASSUME NEW n \in Names \cup {Absent}, NEW t \in Teams \cup {Absent}, NEW a \in SUBSET Groups, NEW d \in SUBSET Groups,
           NEW p, p = PatchRec(n, t, Absent, Absent, a, d)
    PROVE  /\ p \in Patches /\ p.name = n /\ p.team = t /\ p.number = Absent /\ p.term = Absent /\ p.add = a /\ p.drop = d
  BY DEF PatchRec, Patches

LEMMA NamePatch ==
    ASSUME NEW n, NEW t PROVE [NoPatch EXCEPT !.name = n, !.team = t] = PatchRec(n, t, Absent, Absent, {}, {})
<1>1. PICK p : p = [NoPatch EXCEPT !.name = n]
  OBVIOUS
<1>2. p = PatchRec(n, Absent, Absent, Absent, {}, {})
  BY <1>1 DEF NoPatch, PatchRec
<1>3. PICK q : q = [p EXCEPT !.team = t]
  OBVIOUS
<1>4. q = PatchRec(n, t, Absent, Absent, {}, {})
  BY <1>2, <1>3 DEF PatchRec
<1>5. [NoPatch EXCEPT !.name = n, !.team = t] = q
  BY <1>1, <1>3, Zenon
<1> QED  BY <1>4, <1>5

LEMMA LevelPatch ==
    ASSUME NEW a, NEW d PROVE [NoPatch EXCEPT !.add = a, !.drop = d] = PatchRec(Absent, Absent, Absent, Absent, a, d)
<1>1. PICK p : p = [NoPatch EXCEPT !.add = a]
  OBVIOUS
<1>2. p = PatchRec(Absent, Absent, Absent, Absent, a, {})
  BY <1>1 DEF NoPatch, PatchRec
<1>3. PICK q : q = [p EXCEPT !.drop = d]
  OBVIOUS
<1>4. q = PatchRec(Absent, Absent, Absent, Absent, a, d)
  BY <1>2, <1>3 DEF PatchRec
<1>5. [NoPatch EXCEPT !.add = a, !.drop = d] = q
  BY <1>1, <1>3, Zenon
<1> QED  BY <1>4, <1>5

LEMMA TeamPatch ==
    ASSUME NEW t, NEW p, p = [NoPatch EXCEPT !.team = t] PROVE p = PatchRec(Absent, t, Absent, Absent, {}, {})
  BY DEF NoPatch, PatchRec

LEMMA DropPatch ==
    ASSUME NEW d, NEW p, p = [NoPatch EXCEPT !.drop = d] PROVE p = PatchRec(Absent, Absent, Absent, Absent, {}, d)
  BY DEF NoPatch, PatchRec

\* A copy that is up to date.
LEMMA Current ==
    ASSUME CardsAssumption, RecordTypes, RecordsOK, cardsView = Listing
    PROVE  /\ \A c \in Cards : /\ c \in People <=> cards[c] = "live" /\ ~Unlisted(held[c])
                               /\ c \in People => cardsView.held[c] = held[c]
                               /\ cards[c] = "live" /\ c \notin People => held[c] = BlankCard
           /\ \A l \in Groups : l \in Offered <=> groups[l] = "live" /\ l \in Named
           /\ People \subseteq Live
<1>1. \A c \in Cards : c \in People <=> cards[c] = "live" /\ ~Unlisted(held[c])
  BY ListingFacts, ShownCardFacts DEF People
<1>2. \A c \in Cards : c \in People => cardsView.held[c] = held[c]
  BY ListingFacts DEF People
<1>3. \A l \in Groups : l \in Offered <=> groups[l] = "live" /\ l \in Named
  BY ListingFacts, ShownCardFacts DEF Offered
<1> QED  BY <1>1, <1>2, <1>3 DEF RecordsOK, People, Live

LEMMA DoneSame ==
    ASSUME UNCHANGED <<cards, groups>>, NEW g, NEW fs, Done(g, fs)
    PROVE  Done(g, fs)'
  BY DEF Done, AsWanted, PersonIn, LeftTeam, AssignedIn, Dropped, Live, LiveGroups, SameLevels

LEMMA TeamSame ==
    ASSUME UNCHANGED <<cards, groups>>, NEW fs
    PROVE  OnePersonOneTeam(fs)' <=> OnePersonOneTeam(fs)
  BY DEF OnePersonOneTeam, Live

LEMMA SentIn ==
    ASSUME CardsAssumption, NEW k \in {"bulk", "person", "team", "drop"}, NEW t \in Sheets, t.levels \subseteq Named,
           NEW ps \in [Cards -> Patches], PatchOK(ps), NEW g, g = Sends(Job(k, "update", Absent, t), ps),
           k = "team" => t.from # Ungrouped /\ t.from # t.team,
           k = "drop" => t.oid \in Groups
    PROVE  /\ JobIn(g) /\ g.kind = k /\ g.want = t /\ g.patch = ps /\ g.at = NextStage(g, ps) /\ g.oid = t.oid
           /\ ~g.raced => cardsView = Listing
<1>1. PICK x : /\ Job(k, "update", Absent, t) = JobOf("update", k, t.oid, Absent, t, Unpatched, BlankRule, x)
               /\ x = IF k = "card" THEN ~SameRecords \/ OlderLoad ELSE cardsView # Listing
  BY JobIs
<1>2. PICK h : h = Job(k, "update", Absent, t)
  OBVIOUS
<1>3. /\ h = JobOf(h.at, h.kind, h.oid, h.was, h.want, h.patch, h.rule, h.raced)
      /\ h.kind = k /\ h.oid = t.oid /\ h.was = Absent /\ h.want = t /\ h.rule = BlankRule /\ h.raced = x
  BY <1>1, <1>2, JobOfIn
<1>4. g = JobOf(NextStage(h, ps), h.kind, h.oid, h.was, h.want, ps, h.rule, h.raced)
  BY <1>2, <1>3, SendsIs
<1>5. /\ g = JobOf(g.at, g.kind, g.oid, g.was, g.want, g.patch, g.rule, g.raced)
      /\ g.at = NextStage(h, ps) /\ g.kind = h.kind /\ g.oid = h.oid /\ g.was = h.was /\ g.want = h.want
      /\ g.patch = ps /\ g.rule = h.rule /\ g.raced = h.raced
  BY <1>4, JobOfIn
<1>6. g.at = NextStage(g, ps)
  BY <1>5 DEF NextStage
<1>7. x \in BOOLEAN /\ (~x => cardsView = Listing)
  BY <1>1
<1>8. t.oid \in Groups \cup {NewRecord}
  BY DEF Sheets
<1>9. IsJob(g)
  BY <1>3, <1>5, <1>6, <1>7, <1>8, BlankTyped DEF IsJob, Stages, NextStage
<1>10. JobIn(g)
  BY <1>3, <1>5, <1>9 DEF JobIn
<1> QED  BY <1>3, <1>5, <1>6, <1>7, <1>10

LEMMA SentGoal ==
    ASSUME RecordTypes, UNCHANGED <<cards, held, groups>>, NEW g, job' = g, g.kind \in {"bulk", "person", "team", "drop"},
           NEW ps, g.patch = ps, g.at = NextStage(g, ps), g.kind = "bulk" => ps # Unpatched,
           Done(g, PatchedCards(ps)), OnePersonOneTeam(held) => OnePersonOneTeam(PatchedCards(ps))
    PROVE  GoalOK'
<1>1. PatchedCards(ps)' = PatchedCards(ps)
  BY DEF PatchedCards
<1>2. CASE ps # Unpatched
  <2>1. g.at = "update"
    BY <1>2 DEF NextStage
  <2>2. PICK fs : fs = PatchedCards(ps)
    OBVIOUS
  <2>3. Done(g, fs)' /\ (OnePersonOneTeam(held)' => OnePersonOneTeam(fs)')
    BY <2>2, DoneSame, TeamSame
  <2>4. PatchedCards(job.patch)' = fs
    BY <1>1, <2>2
  <2>5. Updating'
    BY <2>3, <2>4 DEF Updating
  <2> QED  BY <2>1, <2>5 DEF GoalOK
<1>3. CASE ps = Unpatched
  <2>1. PatchedCards(ps) = held
    BY <1>3, UnpatchedCards
  <2>2. Done(g, held) /\ g.at = IF g.kind = "drop" THEN "eraselevel" ELSE "reload"
    BY <1>3, <2>1 DEF NextStage
  <2>3. PICK fs : fs = held
    OBVIOUS
  <2>4. Done(g, fs)'
    BY <2>2, <2>3, DoneSame
  <2>5. Done(job, held)'
    BY <2>3, <2>4
  <2>6. g.kind \in {"person", "team", "drop"}
    BY <1>3
  <2>7. g.at = "reload" => JobSettled(job)' /\ ToldOf(job)'
    BY <2>2, <2>5, <2>6 DEF JobSettled, ToldOf
  <2> QED  BY <2>2, <2>5, <2>6, <2>7 DEF GoalOK
<1> QED  BY <1>2, <1>3

\* A handler that starts, or has its answer and nothing was written.
LEMMA Started ==
    ASSUME CardsAssumption, RecordTypes, RecordsOK, PageTypes, NEW g, JobIn(g), Goes(g),
           UNCHANGED <<cardServer, cardsView, cardEvents>>
    PROVE  PageStays /\ RecordsMove /\ JobIn(job)' /\ job' = g /\ UNCHANGED <<cards, held, groups, rules, told>>
<1>1. RecordsMove /\ UNCHANGED <<cards, held, groups, rules, told>>
  BY QuietMoves DEF cardServer
<1>2. PageStays /\ job' = g
  BY GoesStays, GoesFacts
<1>3. JobIn(g)'
  BY <1>1, JobKept
<1> QED  BY <1>1, <1>2, <1>3

LEMMA SaveTeamKeeps ==
    ASSUME CardsAssumption, RecordTypes, RecordsOK, PageTypes, ViewsOK, FormsOK, SaveTeamClicked
    PROVE  PageStays /\ RecordsMove /\ JobIn(job)' /\ (~job'.raced => GoalOK')
<1> DEFINE cs == {c \in People : cardsView.held[c].team = sheet.from}
<1>1. PICK q : q = [NoPatch EXCEPT !.team = sheet.team]
  OBVIOUS
<1>2. PICK ps : ps = [c \in Cards |-> IF c \in cs THEN q ELSE NoPatch]
  OBVIOUS
<1>3. PICK g : g = Sends(Job("team", "update", Absent, sheet), ps)
  OBVIOUS
<1>4. Goes(g)
  BY <1>1, <1>2, <1>3, Zenon DEF SaveTeamClicked, Only
<1>5. /\ sheet \in Sheets /\ sheet.team \in Teams /\ sheet.levels \subseteq Named
      /\ sheet.from # Ungrouped /\ sheet.from # sheet.team
  BY DEF PageTypes, Sheets, FormsOK, SheetIn, SaveTeamClicked
<1>6. q \in Patches /\ q.name = Absent /\ q.team = sheet.team /\ q.add = {}
  <2>1. q = PatchRec(Absent, sheet.team, Absent, Absent, {}, {})
    BY <1>1, TeamPatch
  <2> QED  BY <1>5, <2>1 DEF PatchRec, Patches
<1>7. cs \subseteq Cards /\ cs \subseteq Registered
  BY DEF ViewsOK, ViewOK, People
<1>8. ps \in [Cards -> Patches] /\ PatchOK(ps)
  BY <1>2, <1>6, <1>7, NoPatchTyped DEF PatchOK
<1>9. /\ JobIn(g) /\ g.kind = "team" /\ g.want = sheet /\ g.patch = ps /\ g.at = NextStage(g, ps)
      /\ ~g.raced => cardsView = Listing
  BY <1>3, <1>5, <1>8, SentIn
<1>10. PageStays /\ RecordsMove /\ JobIn(job)' /\ job' = g /\ UNCHANGED <<cards, held, groups, rules, told>>
  BY <1>4, <1>9, Started DEF SaveTeamClicked
<1>11. ASSUME cardsView = Listing PROVE GoalOK'
  <2> DEFINE fs == PatchedCards(ps)
  <2>1. \A c \in Live : /\ c \in Cards
                        /\ c \in People <=> ~Unlisted(held[c])
                        /\ c \in People => cardsView.held[c] = held[c]
                        /\ c \notin People => held[c] = BlankCard
    BY <1>11, Current DEF Live
  <2>2. \A c \in Live : fs[c] = IF c \in cs THEN FieldsWith(held[c], q) ELSE held[c]
    BY <1>2, <1>8, <2>1, PatchedTyped, EmptyPatch DEF Live, RecordTypes
  <2>3. BlankCard.team = Ungrouped /\ Unlisted(BlankCard)
    BY DEF BlankCard, Credential, Unlisted
  <2>4. \A c \in Live : held[c] \in Fields
    BY DEF Live, RecordTypes
  <2>5. sheet.team # Absent
    BY <1>5 DEF CardsAssumption
  <2>6. ASSUME NEW c \in Live
        PROVE  /\ fs[c].name = held[c].name
               /\ fs[c].team = IF held[c].team = sheet.from THEN sheet.team ELSE held[c].team
    <3>1. CASE c \in cs
      <4>1. held[c].team = sheet.from
        BY <2>1, <3>1
      <4> QED  BY <1>6, <2>2, <2>4, <2>5, <3>1, <4>1, PatchedFields DEF Given
    <3>2. CASE c \notin cs
      <4>1. held[c].team # sheet.from
        BY <1>5, <2>1, <2>3, <3>2
      <4> QED  BY <2>2, <3>2, <4>1
    <3> QED  BY <3>1, <3>2
  <2> HIDE DEF fs
  <2>7. LeftTeam(fs, sheet)
    BY <1>5, <2>6 DEF LeftTeam
  <2>8. Done(g, fs)
    BY <1>9, <2>7 DEF Done
  <2>9. OnePersonOneTeam(held) => OnePersonOneTeam(fs)
    BY <2>6 DEF OnePersonOneTeam
  <2> QED  BY <1>9, <1>10, <2>8, <2>9, SentGoal DEF fs
<1> QED  BY <1>9, <1>10, <1>11

LEMMA IdleGoal ==
    ASSUME JobIn(job), job.at = "idle" PROVE job.kind = "none" /\ GoalOK
<1>1. job.kind = "none"
  BY DEF JobIn, IsJob, Stages
<1> QED  BY <1>1 DEF GoalOK

\* Of several credentials, and the copy up to date.
LEMMA PatchedFacts ==
    ASSUME CardsAssumption, RecordTypes, RecordsOK, ViewsOK, cardsView = Listing, NEW ps \in [Cards -> Patches]
    PROVE  /\ \A c \in Live : /\ c \in Cards /\ held[c] \in Fields /\ held[c].levels \subseteq Named
                              /\ PatchedCards(ps)[c] = FieldsWith(held[c], ps[c])
                              /\ c \in People <=> ~Unlisted(held[c])
                              /\ c \in People <=> Known(c)
                              /\ c \in People => cardsView.held[c] = held[c]
                              /\ c \in Registered => c \in People
           /\ LiveGroups \cap Named = Offered
           /\ \A c \in Cards : Known(c) => c \in Registered
<1>1. \A c \in Live : c \in Cards /\ held[c] \in Fields /\ held[c].levels \subseteq Named /\ cards[c] = "live"
  BY DEF Live, RecordTypes, RecordsOK
<1>2. \A c \in Live : PatchedCards(ps)[c] = FieldsWith(held[c], ps[c])
  BY <1>1, PatchedTyped
<1>3. \A c \in Live : /\ c \in People <=> ~Unlisted(held[c])
                      /\ c \in People => cardsView.held[c] = held[c]
                      /\ c \in Registered => c \in People
  BY <1>1, Current DEF Registered
<1>4. \A c \in Live : c \in People <=> Known(c)
  BY <1>1, ListingFacts, ShownCardFacts DEF Known, People
<1>5. LiveGroups \cap Named = Offered
  BY Current DEF LiveGroups, Named, Offered
<1>6. \A c \in Cards : Known(c) => c \in Registered
  BY DEF Known, ViewsOK, ViewOK
<1> QED  BY <1>1, <1>2, <1>3, <1>4, <1>5, <1>6

LEMMA SameTeams ==
    ASSUME NEW fs, \A c \in Live : fs[c].name = held[c].name /\ fs[c].team = held[c].team
    PROVE  OnePersonOneTeam(held) => OnePersonOneTeam(fs)
  BY DEF OnePersonOneTeam

LEMMA SaveBulkKeeps ==
    ASSUME CardsAssumption, RecordTypes, RecordsOK, PageTypes, ViewsOK, FormsOK, JobIn(job), SaveBulkClicked
    PROVE  PageStays /\ RecordsMove /\ JobIn(job)' /\ (~job'.raced => GoalOK')
<1> DEFINE cs == {c \in sheet.oids : Known(c)}
<1>1. PICK ps : ps = [c \in Cards |-> IF c \in cs THEN BulkPatch(c) ELSE NoPatch]
  OBVIOUS
<1>2. PICK g : g = Sends(Job("bulk", "update", Absent, sheet), ps)
  OBVIOUS
<1>3. /\ \/ ps = Unpatched /\ dialog' = {} /\ sheet' = EmptySheet /\ UNCHANGED <<job, cardForm, cardsLoad>>
         \/ ps # Unpatched /\ Goes(g)
      /\ UNCHANGED <<cardServer, cardsView, cardEvents>>
      /\ job.at = "idle" /\ dialog = {"bulk"}
  BY <1>1, <1>2, Zenon DEF SaveBulkClicked, Only
<1>4. sheet \in Sheets /\ sheet.levels \subseteq Named /\ sheet.levels \subseteq Groups
  BY DEF PageTypes, Sheets, FormsOK, SheetIn
<1>5. cs \subseteq Cards /\ cs \subseteq Registered
  BY DEF ViewsOK, ViewOK, Known
<1> DEFINE had(c) == cardsView.held[c].levels
           next(c) == After(had(c), sheet)
<1>6. \A c \in Cards : BulkPatch(c) = PatchRec(Absent, Absent, Absent, Absent, (next(c) \ had(c)) \cap Offered, (had(c) \ next(c)) \cap Offered)
  BY LevelPatch DEF BulkPatch
<1>7. Offered \subseteq Groups /\ Offered \subseteq Named
  BY ViewFacts DEF Offered, ViewsOK, ViewOK
<1> HIDE DEF next, had
<1>8. ASSUME NEW c \in Cards
      PROVE  /\ BulkPatch(c) \in Patches /\ BulkPatch(c).name = Absent /\ BulkPatch(c).team = Absent
             /\ BulkPatch(c).add = (next(c) \ had(c)) \cap Offered
             /\ BulkPatch(c).drop = (had(c) \ next(c)) \cap Offered
  <2>1. PICK a : a = (next(c) \ had(c)) \cap Offered
    OBVIOUS
  <2>2. PICK d : d = (had(c) \ next(c)) \cap Offered
    OBVIOUS
  <2>3. a \in SUBSET Groups /\ d \in SUBSET Groups
    BY <1>7, <2>1, <2>2
  <2>4. BulkPatch(c) = PatchRec(Absent, Absent, Absent, Absent, a, d)
    BY <1>6, <2>1, <2>2
  <2> QED  BY <2>1, <2>2, <2>3, <2>4 DEF PatchRec, Patches
<1>9. ps \in [Cards -> Patches] /\ PatchOK(ps)
  <2>1. ps \in [Cards -> Patches]
    BY <1>1, <1>8, NoPatchTyped
  <2>2. \A c \in Cards : c \in cs => c \in Registered /\ ps[c].add \subseteq Named
    BY <1>1, <1>5, <1>7, <1>8
  <2>3. \A c \in Cards : c \notin cs => ps[c] = NoPatch
    BY <1>1
  <2> QED  BY <2>1, <2>2, <2>3 DEF PatchOK
<1>10. /\ JobIn(g) /\ g.kind = "bulk" /\ g.want = sheet /\ g.patch = ps /\ g.at = NextStage(g, ps)
       /\ ~g.raced => cardsView = Listing
  BY <1>2, <1>4, <1>9, SentIn
<1>11. CASE ps = Unpatched /\ dialog' = {} /\ sheet' = EmptySheet /\ UNCHANGED <<job, cardForm, cardsLoad>>
  <2>1. PageStays
    BY <1>3, <1>11 DEF PageStays
  <2>2. RecordsMove
    BY <1>3, QuietMoves
  <2>3. JobIn(job)'
    BY <1>11, <2>2, JobKept
  <2>4. GoalOK'
    BY <1>3, <1>11, IdleGoal DEF GoalOK
  <2> QED  BY <2>1, <2>2, <2>3, <2>4
<1>12. CASE ps # Unpatched /\ Goes(g)
  <2>1. PageStays /\ RecordsMove /\ JobIn(job)' /\ job' = g /\ UNCHANGED <<cards, held, groups, rules, told>>
    BY <1>3, <1>10, <1>12, Started
  <2>2. ASSUME cardsView = Listing PROVE GoalOK'
    <3> DEFINE fs == PatchedCards(ps)
    <3>1. ASSUME NEW c \in Live
          PROVE  /\ fs[c].name = held[c].name /\ fs[c].team = held[c].team
                 /\ c \in sheet.oids => SameLevels(fs[c].levels, After(held[c].levels, sheet))
      <4>1. /\ c \in Cards /\ held[c] \in Fields /\ held[c].levels \subseteq Named
            /\ fs[c] = FieldsWith(held[c], ps[c]) /\ LiveGroups \cap Named = Offered
        BY <1>9, <2>2, PatchedFacts
      <4>2. CASE c \in cs
        <5>1. had(c) = held[c].levels /\ next(c) = After(held[c].levels, sheet)
          <6>1. cardsView.held[c] = held[c]
            BY <1>9, <2>2, <4>2, PatchedFacts
          <6> QED  BY <6>1 DEF had, next
        <5>2. next(c) \subseteq Named
          BY <1>4, <4>1, <5>1 DEF After
        <5>3. /\ fs[c].name = held[c].name /\ fs[c].team = held[c].team
              /\ fs[c].levels = (had(c) \cup ((next(c) \ had(c)) \cap Offered)) \ ((had(c) \ next(c)) \cap Offered)
          <6>1. PICK q : q = ps[c]
            OBVIOUS
          <6>2. /\ q \in Patches /\ q.name = Absent /\ q.team = Absent
                /\ q.add = (next(c) \ had(c)) \cap Offered /\ q.drop = (had(c) \ next(c)) \cap Offered
            BY <1>1, <1>8, <4>1, <4>2, <6>1
          <6>3. /\ FieldsWith(held[c], q).name = held[c].name /\ FieldsWith(held[c], q).team = held[c].team
                /\ FieldsWith(held[c], q).levels = (held[c].levels \cup q.add) \ q.drop
            BY <4>1, <6>2, PatchedFields DEF Given
          <6> QED  BY <4>1, <5>1, <6>1, <6>2, <6>3
        <5>4. fs[c].levels \cap LiveGroups = next(c) \cap LiveGroups
          BY <4>1, <5>1, <5>2, <5>3
        <5> QED  BY <5>1, <5>3, <5>4 DEF SameLevels
      <4>3. CASE c \notin cs
        <5>1. fs[c] = held[c]
          BY <1>1, <4>1, <4>3, EmptyPatch
        <5>2. c \notin sheet.oids
          BY <1>9, <2>2, <4>3, PatchedFacts DEF FormsOK, SheetIn
        <5> QED  BY <5>1, <5>2
      <4> QED  BY <4>2, <4>3
    <3> HIDE DEF fs
    <3>2. sheet.mode \in {"add", "remove", "replace"}
      BY <1>4 DEF Sheets
    <3>3. AssignedIn(fs, sheet)
      <4>1. ASSUME NEW c \in sheet.oids \cap Live
            PROVE  /\ sheet.mode = "add" => sheet.levels \cap LiveGroups \subseteq fs[c].levels
                   /\ sheet.mode = "remove" => sheet.levels \cap fs[c].levels \cap LiveGroups = {}
                   /\ sheet.mode = "replace" => SameLevels(fs[c].levels, sheet.levels)
        <5>1. SameLevels(fs[c].levels, After(held[c].levels, sheet))
          BY <3>1
        <5>2. /\ sheet.mode = "add" => After(held[c].levels, sheet) = held[c].levels \cup sheet.levels
              /\ sheet.mode = "remove" => After(held[c].levels, sheet) = held[c].levels \ sheet.levels
              /\ sheet.mode = "replace" => After(held[c].levels, sheet) = sheet.levels
          BY DEF After
        <5> QED  BY <5>1, <5>2 DEF SameLevels
      <4> QED  BY <4>1 DEF AssignedIn
    <3>4. Done(g, fs)
      BY <1>10, <3>3 DEF Done
    <3>5. OnePersonOneTeam(held) => OnePersonOneTeam(fs)
      BY <3>1, SameTeams
    <3> QED  BY <1>10, <1>12, <2>1, <3>4, <3>5, SentGoal DEF fs
  <2> QED  BY <1>10, <2>1, <2>2
<1> QED  BY <1>3, <1>11, <1>12

LEMMA SavePersonKeeps ==
    ASSUME CardsAssumption, RecordTypes, RecordsOK, PageTypes, ViewsOK, FormsOK, SavePersonClicked
    PROVE  PageStays /\ RecordsMove /\ JobIn(job)' /\ (~job'.raced => GoalOK')
<1> DEFINE cs == {c \in sheet.oids : Known(c)}
           Patch(t, c) == [NoPatch EXCEPT !.name = Differing(sheet.name, cardsView.held[c].name),
                                          !.team = Differing(t, cardsView.held[c].team)]
<1>1. PICK t \in TeamsFor(sheet.name, sheet.oids, sheet.team) :
          Goes(Sends(Job("person", "update", Absent, [sheet EXCEPT !.team = t]),
                     [c \in Cards |-> IF c \in cs THEN Patch(t, c) ELSE NoPatch]))
  BY Zenon DEF SavePersonClicked, Only
<1>2. PICK w : w = [sheet EXCEPT !.team = t]
  OBVIOUS
<1>3. PICK ps : ps = [c \in Cards |-> IF c \in cs THEN Patch(t, c) ELSE NoPatch]
  OBVIOUS
<1>4. PICK g : g = Sends(Job("person", "update", Absent, w), ps)
  OBVIOUS
<1>5. Goes(g)
  BY <1>1, <1>2, <1>3, <1>4
<1>6. t \in Teams /\ sheet \in Sheets /\ sheet.levels \subseteq Named /\ sheet.name \in Names
  BY TeamsForTyped DEF PageTypes, Sheets, FormsOK, SheetIn, SavePersonClicked
<1>7. w \in Sheets /\ w.team = t /\ w.name = sheet.name /\ w.oids = sheet.oids /\ w.levels = sheet.levels
  BY <1>2, <1>6 DEF Sheets
<1>8. cs \subseteq Cards /\ cs \subseteq Registered
  BY DEF ViewsOK, ViewOK, Known
<1> DEFINE n(c) == Differing(sheet.name, cardsView.held[c].name)
           u(c) == Differing(t, cardsView.held[c].team)
<1>9. \A c \in Cards : Patch(t, c) = PatchRec(n(c), u(c), Absent, Absent, {}, {})
  BY NamePatch
<1>10. \A c \in Cards : n(c) \in Names \cup {Absent} /\ u(c) \in Teams \cup {Absent}
  BY <1>6, DifferingIs
<1> HIDE DEF n, u, Patch
<1>11. ASSUME NEW c \in Cards
       PROVE  /\ Patch(t, c) \in Patches /\ Patch(t, c).name = n(c) /\ Patch(t, c).team = u(c)
              /\ Patch(t, c).add = {}
  BY <1>9, <1>10 DEF PatchRec, Patches
<1>12. ps \in [Cards -> Patches] /\ PatchOK(ps)
  <2>1. ps \in [Cards -> Patches]
    BY <1>3, <1>11, NoPatchTyped
  <2>2. \A c \in Cards : c \in cs => c \in Registered /\ ps[c].add \subseteq Named
    BY <1>3, <1>8, <1>11
  <2>3. \A c \in Cards : c \notin cs => ps[c] = NoPatch
    BY <1>3
  <2> QED  BY <2>1, <2>2, <2>3 DEF PatchOK
<1>13. /\ JobIn(g) /\ g.kind = "person" /\ g.want = w /\ g.patch = ps /\ g.at = NextStage(g, ps)
       /\ ~g.raced => cardsView = Listing
  BY <1>4, <1>6, <1>7, <1>12, SentIn
<1>14. PageStays /\ RecordsMove /\ JobIn(job)' /\ job' = g /\ UNCHANGED <<cards, held, groups, rules, told>>
  BY <1>5, <1>13, Started DEF SavePersonClicked
<1>15. ASSUME cardsView = Listing PROVE GoalOK'
  <2> DEFINE fs == PatchedCards(ps)
  <2>1. ASSUME NEW c \in Live
        PROVE  IF c \in sheet.oids THEN fs[c].name = sheet.name /\ fs[c].team = t
               ELSE fs[c].name = held[c].name /\ fs[c].team = held[c].team
    <3>1. /\ c \in Cards /\ held[c] \in Fields /\ fs[c] = FieldsWith(held[c], ps[c])
      BY <1>12, <1>15, PatchedFacts
    <3>2. CASE c \in cs
      <4>1. cardsView.held[c] = held[c]
        BY <1>12, <1>15, <3>2, PatchedFacts
      <4>2. PICK q : q = ps[c]
        OBVIOUS
      <4>3. q \in Patches /\ q.name = Differing(sheet.name, held[c].name) /\ q.team = Differing(t, held[c].team)
        BY <1>3, <1>11, <3>1, <3>2, <4>1, <4>2 DEF n, u
      <4>4. /\ FieldsWith(held[c], q).name = Given(q.name, held[c].name)
            /\ FieldsWith(held[c], q).team = Given(q.team, held[c].team)
        BY <3>1, <4>3, PatchedFields
      <4>5. sheet.name # Absent /\ t # Absent
        BY <1>6 DEF CardsAssumption
      <4> QED  BY <3>1, <3>2, <4>2, <4>3, <4>4, <4>5 DEF Given, Differing
    <3>3. CASE c \notin cs
      <4>1. fs[c] = held[c]
        BY <1>3, <3>1, <3>3, EmptyPatch
      <4>2. c \notin sheet.oids
        BY <1>12, <1>15, <3>3, PatchedFacts DEF FormsOK, SheetIn
      <4> QED  BY <4>1, <4>2
    <3> QED  BY <3>2, <3>3
  <2> HIDE DEF fs
  <2>2. PersonIn(fs, w)
    BY <1>7, <2>1 DEF PersonIn
  <2>3. Done(g, fs)
    BY <1>13, <2>2 DEF Done
  <2>4. ASSUME OnePersonOneTeam(held), NEW d \in Live, d \notin sheet.oids, held[d].name = sheet.name
        PROVE  held[d].team = t
    <3>1. d \in Cards /\ (d \in People => cardsView.held[d] = held[d])
      BY <1>12, <1>15, PatchedFacts
    <3>2. sheet.name # NotSet
      BY <1>6 DEF CardsAssumption
    <3>3. d \in People
      BY <1>12, <1>15, <2>4, <3>2, PatchedFacts DEF Unlisted
    <3>4. d \in Namesakes(sheet.name, sheet.oids)
      BY <2>4, <3>1, <3>2, <3>3 DEF Namesakes
    <3>5. PICK e \in Namesakes(sheet.name, sheet.oids) : t = cardsView.held[e].team
      BY <3>4 DEF TeamsFor
    <3>6. e \in Live /\ cardsView.held[e] = held[e] /\ held[e].name = sheet.name
      BY <1>15, <3>5, Current DEF Namesakes, People
    <3> QED  BY <2>4, <3>2, <3>5, <3>6 DEF OnePersonOneTeam
  <2>5. OnePersonOneTeam(held) => OnePersonOneTeam(fs)
    BY <2>1, <2>4 DEF OnePersonOneTeam
  <2> QED  BY <1>13, <1>14, <2>3, <2>5, SentGoal DEF fs
<1> QED  BY <1>13, <1>14, <1>15

LEMMA DropKeeps ==
    ASSUME CardsAssumption, RecordTypes, RecordsOK, PageTypes, ViewsOK, FormsOK, DeleteGroupClicked
    PROVE  PageStays /\ RecordsMove /\ JobIn(job)' /\ (~job'.raced => GoalOK')
<1> DEFINE cs == {c \in People : sheet.oid \in cardsView.held[c].levels}
<1>1. PICK q : q = [NoPatch EXCEPT !.drop = {sheet.oid}]
  OBVIOUS
<1>2. PICK ps : ps = [c \in Cards |-> IF c \in cs THEN q ELSE NoPatch]
  OBVIOUS
<1>3. PICK g : g = Sends(Job("drop", "update", Absent, sheet), ps)
  OBVIOUS
<1>4. Goes(g)
  BY <1>1, <1>2, <1>3, Zenon DEF DeleteGroupClicked, Only
<1>5. sheet \in Sheets /\ sheet.levels \subseteq Named /\ sheet.oid \in Groups
  BY DEF PageTypes, Sheets, FormsOK, SheetIn, DeleteGroupClicked
<1>6. q \in Patches /\ q.name = Absent /\ q.team = Absent /\ q.add = {} /\ q.drop = {sheet.oid}
  <2>1. q = PatchRec(Absent, Absent, Absent, Absent, {}, {sheet.oid})
    BY <1>1, DropPatch
  <2> QED  BY <1>5, <2>1 DEF PatchRec, Patches
<1>7. cs \subseteq Cards /\ cs \subseteq Registered
  BY DEF ViewsOK, ViewOK, People
<1>8. ps \in [Cards -> Patches] /\ PatchOK(ps)
  BY <1>2, <1>6, <1>7, NoPatchTyped DEF PatchOK
<1>9. /\ JobIn(g) /\ g.kind = "drop" /\ g.want = sheet /\ g.patch = ps /\ g.at = NextStage(g, ps)
      /\ ~g.raced => cardsView = Listing
  BY <1>3, <1>5, <1>8, SentIn
<1>10. PageStays /\ RecordsMove /\ JobIn(job)' /\ job' = g /\ UNCHANGED <<cards, held, groups, rules, told>>
  BY <1>4, <1>9, Started DEF DeleteGroupClicked
<1>11. ASSUME cardsView = Listing PROVE GoalOK'
  <2> DEFINE fs == PatchedCards(ps)
  <2>1. ASSUME NEW c \in Live
        PROVE  /\ fs[c].name = held[c].name /\ fs[c].team = held[c].team /\ sheet.oid \notin fs[c].levels
    <3>1. /\ c \in Cards /\ held[c] \in Fields /\ fs[c] = FieldsWith(held[c], ps[c])
          /\ c \in People => cardsView.held[c] = held[c]
      BY <1>8, <1>11, PatchedFacts
    <3>2. CASE c \in cs
      BY <1>2, <1>6, <3>1, <3>2, PatchedFields DEF Given
    <3>3. CASE c \notin cs
      <4>1. fs[c] = held[c]
        BY <1>2, <3>1, <3>3, EmptyPatch
      <4>2. c \notin People => held[c] = BlankCard
        BY <1>11, Current DEF Live
      <4>3. BlankCard.levels = {}
        BY DEF BlankCard, Credential
      <4> QED  BY <3>1, <3>3, <4>1, <4>2, <4>3
    <3> QED  BY <3>2, <3>3
  <2> HIDE DEF fs
  <2>2. Dropped(fs, sheet)
    BY <2>1 DEF Dropped
  <2>3. Done(g, fs)
    BY <1>9, <2>2 DEF Done
  <2>4. OnePersonOneTeam(held) => OnePersonOneTeam(fs)
    BY <2>1, SameTeams
  <2> QED  BY <1>9, <1>10, <2>3, <2>4, SentGoal DEF fs
<1> QED  BY <1>9, <1>10, <1>11

-----------------------------------------------------------------------------
(* Requests and answers. *)

LEMMA StageOf ==
    ASSUME JobIn(job)
    PROVE  /\ job.at \in {"find", "create"} => job.kind = "card"
           /\ job.at = "erase" => job.kind = "erase"
           /\ job.at \in {"createlevel", "updatelevel", "levels"} => job.kind = "level"
           /\ job.at = "eraselevel" => job.kind = "drop"
           /\ job.at = "update" => job.kind \in {"card", "bulk", "person", "team", "drop"}
           /\ job.at = "rules" => job.kind \in {"card", "erase", "bulk", "level", "drop"}
           /\ job.at = "reload" => job.kind \notin {"none", "level"}
           /\ job.at = "idle" <=> job.kind = "none"
           /\ job.at \in {"idle", "find", "create", "update", "erase", "createlevel", "updatelevel", "eraselevel",
                          "rules", "levels", "reload"}
  BY DEF JobIn, IsJob, Stages

\* A request of the handler in flight.
LEMMA RequestMoves ==
    ASSUME CardsAssumption, RecordTypes, RecordsOK, JobIn(job), JobRequest(job)
    PROVE  RecordsMove
<1>1. CASE (job.at \in {"find", "levels"} /\ UNCHANGED cardServer) \/ (job.at = "rules" /\ SynchronizeACL)
  BY <1>1, QuietMoves
<1>2. CASE job.at = "create" /\ \E c \in Cards : CreateCard(c)
  BY <1>2, CreateCardMoves
<1>3. CASE job.at = "update" /\ UpdateCards(job.patch)
  BY <1>3, UpdateMoves DEF JobIn, IsJob
<1>4. CASE job.at = "erase" /\ DeleteCard(job.oid)
  BY <1>4, StageOf, DeleteCardMoves DEF JobIn
<1>5. CASE job.at = "createlevel" /\ \E l \in Groups : CreateGroup(l)
  BY <1>5, GroupsMove
<1>6. CASE job.at = "updatelevel" /\ UpdateGroup(job.oid, job.rule)
  <2>1. job.oid \in Groups /\ job.rule \in Rules /\ job.rule.title # NotSet
    BY <1>6, StageOf DEF JobIn, IsJob, LevelJob
  <2> QED  BY <1>6, <2>1, GroupsMove
<1>7. CASE job.at = "eraselevel" /\ DeleteGroup(job.oid)
  BY <1>7, StageOf, GroupsMove DEF JobIn
<1> QED  BY <1>1, <1>2, <1>3, <1>4, <1>5, <1>6, <1>7 DEF JobRequest

LEMMA EndKeeps ==
    ASSUME CardsAssumption, job' = NoJob PROVE JobIn(job)' /\ GoalOK'
<1>1. JobIn(NoJob)'
  BY NoJobIn, PTL
<1>2. JobIn(job)' /\ job'.at = "idle" /\ job'.kind = "none"
  BY <1>1 DEF NoJob
<1> QED  BY <1>2 DEF GoalOK

LEMMA FailsKeeps ==
    ASSUME CardsAssumption, RecordTypes, RecordsOK, PageTypes, JobIn(job), JobFails \/ Reloaded
    PROVE  PageStays /\ RecordsMove /\ JobIn(job)' /\ GoalOK'
<1>n. dialog \ {"none"} = dialog
  <2>1. dialog \subseteq {"card", "level"} \/ dialog = {"person"} \/ dialog = {"bulk"} \/ dialog = {"team"}
    BY DEF PageTypes
  <2> QED  BY <2>1
<1>1. CASE JobFails
  <2>1. RecordsMove
    BY <1>1, RequestMoves, QuietMoves DEF JobFails, JobRefused, JobLost
  <2>2. cardEvents' = cardEvents \/ (cardEvents < MaxCardEvents /\ cardEvents' = cardEvents + 1)
    BY <1>1 DEF JobFails, JobRefused, JobLost
  <2>3. PageStays
    BY <1>1, <1>n, <2>2 DEF JobFails, PageStays
  <2> QED  BY <1>1, <2>1, <2>3, EndKeeps DEF JobFails
<1>2. CASE Reloaded
  <2>1. PageStays
    BY <1>2, <1>n DEF Reloaded, PageStays
  <2> QED  BY <1>2, <2>1, QuietMoves, EndKeeps DEF Reloaded
<1> QED  BY <1>1, <1>2

RuleOf(h) == [title |-> h.want.rule.title, opens |-> sheet.rule.opens]

LEMMA GroupChangesIs ==
    ASSUME NEW h, h = JobOf(h.at, h.kind, h.oid, h.was, h.want, h.patch, h.rule, h.raced), NEW l, NEW g,
           g = GroupChanges(h, l)
    PROVE  g = JobOf(IF RuleOf(h) = h.was THEN "levels" ELSE "updatelevel", h.kind, l, h.was, h.want, h.patch,
                     RuleOf(h), h.raced)
<1>1. PICK r : r = RuleOf(h)
  OBVIOUS
<1>2. PICK a : a = IF r = h.was THEN "levels" ELSE "updatelevel"
  OBVIOUS
<1>3. PICK e : e = [h EXCEPT !.oid = l]
  OBVIOUS
<1>4. PICK f : f = [e EXCEPT !.rule = r]
  OBVIOUS
<1>5. g = [f EXCEPT !.at = a]
  BY <1>1, <1>2, <1>3, <1>4, Zenon DEF GroupChanges, RuleOf
<1>6. e = JobOf(h.at, h.kind, l, h.was, h.want, h.patch, h.rule, h.raced)
  BY <1>3, JobExcept
<1>7. f = JobOf(h.at, h.kind, l, h.was, h.want, h.patch, r, h.raced)
  BY <1>4, <1>6 DEF JobOf
<1>8. g = JobOf(a, h.kind, l, h.was, h.want, h.patch, r, h.raced)
  BY <1>5, <1>7 DEF JobOf
<1> QED  BY <1>1, <1>2, <1>8

\* What saveGroup sends, or that it sends nothing.
LEMMA GroupChangesIn ==
    ASSUME CardsAssumption, sheet \in Sheets, NEW h, IsJob(h), PatchOK(h.patch), h.kind = "level",
           h.want \in Sheets, h.want.levels \subseteq Named, h.want.rule.title # NotSet, h.was \in Rules \cup {Absent},
           NEW l \in Groups, NEW g, g = GroupChanges(h, l)
    PROVE  /\ IsJob(g) /\ g.patch = h.patch /\ g.rule.title # NotSet
           /\ groups[l] # "none" => JobIn(g)
           /\ g.kind = "level" /\ g.oid = l /\ g.was = h.was /\ g.want = h.want /\ g.rule = RuleOf(h)
           /\ g.raced = h.raced /\ g.at = IF RuleOf(h) = h.was THEN "levels" ELSE "updatelevel"
<1>1. g = JobOf(IF RuleOf(h) = h.was THEN "levels" ELSE "updatelevel", h.kind, l, h.was, h.want, h.patch,
                RuleOf(h), h.raced)
  BY GroupChangesIs DEF IsJob
<1>2. /\ g = JobOf(g.at, g.kind, g.oid, g.was, g.want, g.patch, g.rule, g.raced)
      /\ g.at = (IF RuleOf(h) = h.was THEN "levels" ELSE "updatelevel")
      /\ g.kind = h.kind /\ g.oid = l /\ g.was = h.was /\ g.want = h.want
      /\ g.patch = h.patch /\ g.rule = RuleOf(h) /\ g.raced = h.raced
  BY <1>1, JobOfIn
<1>4. RuleOf(h) \in Rules /\ RuleOf(h).title = h.want.rule.title
  BY DEF RuleOf, Sheets, Rules
<1> HIDE DEF RuleOf
<1>5. IsJob(g)
  BY <1>2, <1>4 DEF IsJob, Stages
<1>6. groups[l] # "none" => LevelJob(g)
  BY <1>2, <1>4 DEF LevelJob
<1> QED  BY <1>2, <1>4, <1>5, <1>6 DEF JobIn

LEMMA SaveGroupKeeps ==
    ASSUME CardsAssumption, RecordTypes, RecordsOK, PageTypes, ViewsOK, FormsOK, SaveGroupClicked
    PROVE  PageStays /\ RecordsMove /\ JobIn(job)' /\ (~job'.raced => GoalOK')
<1> DEFINE had == IF sheet.oid # NewRecord /\ cardsView.groups[sheet.oid] # "none" THEN cardsView.rules[sheet.oid] ELSE Absent
<1>n. dialog \ {"none"} = dialog
  <2>1. dialog \subseteq {"card", "level"} \/ dialog = {"person"} \/ dialog = {"bulk"} \/ dialog = {"team"}
    BY DEF PageTypes
  <2> QED  BY <2>1
<1>1. /\ UNCHANGED <<cards, held, groups, rules, told, cardsView, cardsLoad, dialog, cardForm, sheet, cardEvents>>
      /\ UNCHANGED cardServer
      /\ "level" \in dialog
  BY DEF SaveGroupClicked, cardServer
<1>2. PageStays /\ RecordsMove
  <2>1. PageStays
    BY <1>1, <1>n DEF PageStays
  <2> QED  BY <1>1, <2>1, QuietMoves
<1>3. /\ sheet \in Sheets /\ sheet.rule \in Rules /\ sheet.levels \subseteq Named /\ sheet.rule.title # NotSet
      /\ sheet.oid \in Groups => groups[sheet.oid] # "none"
      /\ sheet.oid \in Groups \cup {NewRecord}
  BY <1>1 DEF PageTypes, Sheets, FormsOK, SheetIn
<1>4. PICK a, w : /\ a = IF sheet.oid = NewRecord THEN "createlevel" ELSE "updatelevel"
                  /\ w = IF sheet.oid = NewRecord THEN Absent ELSE had
  OBVIOUS
<1>5. /\ w \in Rules \cup {Absent} /\ a \in {"createlevel", "updatelevel"} /\ (a = "createlevel" => w = Absent)
      /\ a = "updatelevel" => sheet.oid \in Groups
  BY <1>3, <1>4, ViewFacts
<1>6. PICK h : h = Job("level", a, w, sheet)
  OBVIOUS
<1>7. job' = IF sheet.oid = NewRecord THEN h ELSE GroupChanges(h, sheet.oid)
  BY <1>4, <1>6, Zenon DEF SaveGroupClicked
<1>8. /\ IsJob(h) /\ PatchOK(h.patch) /\ h.at = a /\ h.kind = "level" /\ h.was = w /\ h.want = sheet /\ h.oid = sheet.oid
      /\ ~h.raced => cardsView = Listing
  <2>1. PICK x : /\ Job("level", a, w, sheet) = JobOf(a, "level", sheet.oid, w, sheet, Unpatched, BlankRule, x)
                 /\ x = IF "level" = "card" THEN ~SameRecords \/ OlderLoad ELSE cardsView # Listing
    BY JobIs
  <2>2. x \in BOOLEAN /\ (~x => cardsView = Listing)
    BY <2>1
  <2>3. /\ h = JobOf(h.at, h.kind, h.oid, h.was, h.want, h.patch, h.rule, h.raced)
        /\ h.at = a /\ h.kind = "level" /\ h.oid = sheet.oid /\ h.was = w /\ h.want = sheet
        /\ h.patch = Unpatched /\ h.rule = BlankRule /\ h.raced = x
    BY <1>6, <2>1, JobOfIn
  <2>4. IsJob(h)
    BY <1>3, <1>5, <2>2, <2>3, NoPatchTyped, BlankTyped DEF IsJob, Stages
  <2>5. PatchOK(Unpatched)
    BY DEF PatchOK, Unpatched
  <2> QED  BY <2>2, <2>3, <2>4, <2>5
<1>9. CASE sheet.oid = NewRecord
  <2>1. job' = h /\ h.at = "createlevel"
    BY <1>4, <1>7, <1>8, <1>9
  <2>2. JobIn(h)
    BY <1>3, <1>5, <1>8, <2>1 DEF JobIn, LevelJob
  <2>3. JobIn(h)'
    BY <1>2, <2>2, JobKept
  <2>4. GoalOK'
    BY <1>1, <1>8, <2>1 DEF GoalOK, SavingLevel
  <2> QED  BY <1>2, <2>1, <2>3, <2>4
<1>10. CASE sheet.oid # NewRecord
  <2>1. PICK g : g = GroupChanges(h, sheet.oid)
    OBVIOUS
  <2>2. job' = g /\ sheet.oid \in Groups /\ w = had
    BY <1>3, <1>4, <1>7, <1>10, <2>1
  <2>3. /\ JobIn(g) /\ g.kind = "level" /\ g.oid = sheet.oid /\ g.was = w /\ g.want = sheet /\ g.rule = RuleOf(h)
        /\ g.raced = h.raced /\ g.at = IF RuleOf(h) = h.was THEN "levels" ELSE "updatelevel"
    BY <1>3, <1>5, <1>8, <2>1, <2>2, GroupChangesIn
  <2>4. RuleOf(h) = sheet.rule
    BY <1>3, <1>8 DEF RuleOf, Rules
  <2>5. JobIn(g)'
    BY <1>2, <2>3, JobKept
  <2>6. ASSUME g.at = "levels", cardsView = Listing
        PROVE  groups[sheet.oid] = "live" /\ rules[sheet.oid] = sheet.rule /\ sheet.rule = w
    <3>1. sheet.rule = w /\ w \in Rules
      BY <1>3, <1>8, <2>3, <2>4, <2>6
    <3>2. w = Listing.rules[sheet.oid]
      BY <2>2, <2>6, <3>1 DEF CardsAssumption
    <3>3. BlankRule.title = NotSet
      BY DEF BlankRule
    <3>4. ShownGroups[sheet.oid] = "live" /\ w = rules[sheet.oid]
      BY <1>3, <2>2, <3>1, <3>2, <3>3, ListingFacts
    <3> QED  BY <2>2, <3>1, <3>4, ShownCardFacts
  <2>7. ASSUME ~job'.raced PROVE GoalOK'
    <3>1. cardsView = Listing /\ g.at \in {"levels", "updatelevel"}
      BY <1>8, <2>2, <2>3, <2>7
    <3>2. SavingLevel'
      BY <1>1, <2>2, <2>3, <2>4, <2>6, <3>1 DEF SavingLevel, LevelIs
    <3> QED  BY <2>2, <2>3, <3>1, <3>2 DEF GoalOK
  <2> QED  BY <1>2, <2>2, <2>5, <2>7
<1> QED  BY <1>9, <1>10

LEMMA GroupServedKeeps ==
    ASSUME CardsAssumption, RecordTypes, RecordsOK, PageTypes, JobIn(job), GroupServed
    PROVE  /\ PageStays /\ RecordsMove /\ JobIn(job)' /\ (~job.raced /\ GoalOK => GoalOK') /\ job'.raced = job.raced
           /\ job'.at # "reload"
<1>n. dialog \ {"none"} = dialog
  <2>1. dialog \subseteq {"card", "level"} \/ dialog = {"person"} \/ dialog = {"bulk"} \/ dialog = {"team"}
    BY DEF PageTypes
  <2> QED  BY <2>1
<1>1. UNCHANGED <<cardsView, cardsLoad, dialog, cardForm, sheet, cardEvents>> /\ sheet \in Sheets
  BY DEF GroupServed, PageTypes
<1>2. PageStays
  BY <1>1, <1>n DEF PageStays
<1>3. RecordsMove
  <2>1. JobRequest(job)
    BY DEF GroupServed, JobRequest
  <2> QED  BY <2>1, RequestMoves
<1>4. CASE job.at = "createlevel" /\ \E l \in Groups : CreateGroup(l) /\ job' = GroupChanges(job, l)
  <2>1. PICK l \in Groups : CreateGroup(l) /\ job' = GroupChanges(job, l)
    BY <1>4
  <2>2. groups' = [groups EXCEPT ![l] = "live"] /\ groups'[l] = "live" /\ rules' = rules
    BY <2>1 DEF CreateGroup, RecordTypes
  <2>3. PICK g : g = GroupChanges(job, l)
    OBVIOUS
  <2>4. job.kind = "level" /\ job.was = Absent
    BY <1>4, StageOf DEF JobIn, LevelJob
  <2>5. /\ IsJob(job) /\ PatchOK(job.patch) /\ job.want \in Sheets /\ job.want.levels \subseteq Named
        /\ job.want.rule.title # NotSet /\ job.was \in Rules \cup {Absent}
    BY <2>4 DEF JobIn, LevelJob
  <2>6. /\ IsJob(g) /\ g.patch = job.patch /\ g.kind = "level" /\ g.oid = l /\ g.was = Absent /\ g.want = job.want
        /\ g.rule = RuleOf(job) /\ g.rule.title # NotSet /\ g.raced = job.raced
        /\ g.at = IF RuleOf(job) = job.was THEN "levels" ELSE "updatelevel"
    BY <1>1, <2>3, <2>4, <2>5, GroupChangesIn
  <2>7. g.at = "updatelevel"
    <3>1. RuleOf(job) \in Rules
      BY <2>6 DEF IsJob
    <3> QED  BY <2>4, <2>6, <3>1 DEF CardsAssumption
  <2>8. PatchOK(g.patch)' /\ Named' = Named
    <3>1. Named' = Named
      BY <2>2 DEF Named
    <3>2. PICK ps : ps = job.patch
      OBVIOUS
    <3>3. PatchOK(ps)
      BY <2>5, <3>2
    <3>4. PatchOK(ps)'
      BY <1>3, <3>1, <3>3 DEF PatchOK, RecordsMove
    <3>5. g.patch = ps
      BY <2>6, <3>2
    <3> QED  BY <3>1, <3>4, <3>5
  <2>9. LevelJob(g)'
    BY <2>2, <2>5, <2>6, <2>7 DEF LevelJob
  <2>10. JobIn(g)'
    <3>1. IsJob(g)'
      BY <2>6 DEF IsJob, Stages
    <3> QED  BY <2>5, <2>6, <2>8, <2>9, <3>1 DEF JobIn
  <2>11. job' = g
    BY <2>1, <2>3
  <2>12. ASSUME ~job.raced, GoalOK PROVE GoalOK'
    <3>1. sheet = job.want
      BY <2>4, <2>12 DEF GoalOK, SavingLevel
    <3>2. RuleOf(job) = job.want.rule
      BY <1>1, <3>1 DEF RuleOf, Sheets, Rules
    <3>3. SavingLevel'
      BY <1>1, <2>6, <2>7, <2>11, <3>1, <3>2 DEF SavingLevel
    <3> QED  BY <2>6, <2>7, <2>11, <3>3 DEF GoalOK
  <2>13. job'.raced = job.raced /\ JobIn(job)' /\ job'.at # "reload"
    BY <2>6, <2>7, <2>10, <2>11
  <2> QED  BY <1>2, <1>3, <2>12, <2>13
<1>5. CASE job.at = "updatelevel" /\ UpdateGroup(job.oid, job.rule) /\ job' = [job EXCEPT !.at = "rules"]
  <2>1. job.kind = "level"
    BY <1>5, StageOf
  <2>2. PICK g : g = [job EXCEPT !.at = "rules"]
    OBVIOUS
  <2>3. /\ g = JobOf(g.at, g.kind, g.oid, g.was, g.want, g.patch, g.rule, g.raced)
        /\ g.at = "rules" /\ g.kind = "level" /\ g.oid = job.oid /\ g.was = job.was /\ g.want = job.want
        /\ g.patch = job.patch /\ g.rule = job.rule /\ g.raced = job.raced
    <3>1. g = JobOf("rules", job.kind, job.oid, job.was, job.want, job.patch, job.rule, job.raced)
      BY <2>2, JobExcept DEF JobIn, IsJob
    <3> QED  BY <2>1, <3>1 DEF JobOf
  <2>4. JobIn(g)
    <3>1. IsJob(g)
      BY <2>1, <2>3 DEF JobIn, IsJob, Stages
    <3>2. LevelJob(g)
      BY <1>5, <2>1, <2>3 DEF JobIn, LevelJob
    <3> QED  BY <2>1, <2>3, <3>1, <3>2 DEF JobIn
  <2>5. JobIn(g)' /\ job' = g
    BY <1>3, <1>5, <2>2, <2>4, JobKept
  <2>6. job.oid \in Groups /\ groups[job.oid] # "none"
    BY <1>5, <2>1 DEF JobIn, LevelJob
  <2>7. groups' = groups /\ groups[job.oid] = "live" /\ rules'[job.oid] = job.rule
    BY <1>5, <2>6 DEF UpdateGroup, CanUpdateGroup, RecordTypes
  <2>8. ASSUME ~job.raced, GoalOK PROVE GoalOK'
    <3>1. sheet = job.want /\ job.rule = job.want.rule
      BY <1>5, <2>1, <2>8 DEF GoalOK, SavingLevel
    <3>2. SavingLevel'
      BY <1>1, <2>3, <2>5, <2>7, <3>1 DEF SavingLevel, LevelIs
    <3>3. JobSettled(job)'
      BY <2>3, <2>5 DEF JobSettled, Done
    <3> QED  BY <2>3, <2>5, <3>2, <3>3 DEF GoalOK
  <2> QED  BY <1>2, <1>3, <2>3, <2>5, <2>8
<1> QED  BY <1>4, <1>5 DEF GroupServed

LEMMA RefreshedKeeps ==
    ASSUME CardsAssumption, RecordTypes, RecordsOK, PageTypes, ViewsOK, FormsOK, JobIn(job), GroupsRefreshed
    PROVE  RecordsMove /\ PageTypes' /\ ViewsOK' /\ FormsOK' /\ JobIn(job)' /\ GoalOK'
<1>1. /\ UNCHANGED <<cards, held, groups, rules, told, cardsLoad, cardEvents>> /\ UNCHANGED cardServer
      /\ dialog' = dialog \ {"level"} /\ job' = NoJob
      /\ sheet' = IF dialog' \subseteq {"card"} THEN EmptySheet ELSE sheet
      /\ cardForm' = IF sheet.return /\ "card" \in dialog
                     THEN [cardForm EXCEPT !.levels = {l \in sheet.levels \cup {job.oid} : ShownGroups[l] = "live"}]
                     ELSE IF "card" \in dialog THEN cardForm ELSE EmptyForm
  BY DEF GroupsRefreshed, cardServer
<1>2. RecordsMove /\ Registered' = Registered /\ Named' = Named
  BY <1>1, QuietMoves DEF Registered, Named
<1>3. JobIn(job)' /\ GoalOK'
  BY <1>1, EndKeeps
<1>4. PICK v : v = [cardsView EXCEPT !.groups = ShownGroups]
  OBVIOUS
<1>5. cardsView' = [v EXCEPT !.rules = Listing.rules]
  BY <1>4, Zenon DEF GroupsRefreshed
<1>6. PICK sg, rs : sg = ShownGroups /\ rs = Listing.rules
  OBVIOUS
<1>7. /\ sg \in [Groups -> {"none", "live", "deleted"}] /\ rs \in [Groups -> Rules]
      /\ \A l \in Groups : sg[l] = "live" => l \in Named
      /\ \A l \in Groups : sg[l] # "none" => groups[l] # "none"
  <2>1. rs \in [Groups -> Rules]
    BY <1>6, ListingFacts DEF Views
  <2>2. /\ sg \in [Groups -> {"none", "live", "deleted"}]
        /\ \A l \in Groups : sg[l] = "live" => l \in Named
        /\ \A l \in Groups : sg[l] # "none" => groups[l] # "none"
    BY <1>6, ShownCardFacts DEF RecordTypes
  <2> QED  BY <2>1, <2>2
<1>8. /\ cardsView' \in Views /\ cardsView'.cards = cardsView.cards /\ cardsView'.held = cardsView.held
      /\ cardsView'.groups = sg
  BY <1>4, <1>5, <1>6, <1>7 DEF PageTypes, Views
<1>9. ViewsOK'
  <2>1. ViewOK(cardsView)'
    BY <1>1, <1>2, <1>7, <1>8 DEF ViewsOK, ViewOK
  <2>2. ViewOK(cardsLoad.view)'
    BY <1>1, <1>2 DEF ViewsOK, ViewOK
  <2> QED  BY <1>1, <1>8, <2>1, <2>2 DEF ViewsOK, Kept
<1>10. cardForm' \in Forms /\ FormIn(cardForm)'
  <2>1. \A f : FormIn(f) => FormIn(f)'
    BY <1>1, <1>2, <1>8 DEF FormIn, Kept
  <2>2. CASE sheet.return /\ "card" \in dialog
    <3>1. PICK ls : ls = {l \in sheet.levels \cup {job.oid} : ShownGroups[l] = "live"}
      OBVIOUS
    <3>2. job.oid \in Groups /\ sheet.levels \subseteq Groups
      BY StageOf DEF JobIn, LevelJob, GroupsRefreshed, PageTypes, Sheets
    <3>3. ls \subseteq Groups /\ ls \subseteq Named
      BY <1>6, <1>7, <3>1, <3>2
    <3>4. cardForm' = [cardForm EXCEPT !.levels = ls]
      BY <1>1, <2>2, <3>1
    <3>5. cardForm' \in Forms /\ cardForm'.oid = cardForm.oid /\ cardForm'.levels = ls
      BY <3>3, <3>4 DEF PageTypes, Forms
    <3> QED  BY <1>1, <1>2, <1>8, <3>3, <3>5 DEF FormIn, Kept, FormsOK
  <2>3. CASE ~(sheet.return /\ "card" \in dialog)
    <3>1. cardForm' = cardForm \/ cardForm' = EmptyForm
      BY <1>1, <2>3
    <3>2. cardForm' \in Forms /\ FormIn(cardForm')
      <4>1. FormIn(cardForm) /\ cardForm \in Forms
        BY DEF FormsOK, PageTypes
      <4> QED  BY <3>1, <4>1, EmptyForms
    <3>3. PICK f : f = cardForm'
      OBVIOUS
    <3>4. FormIn(f)'
      BY <2>1, <3>2, <3>3
    <3> QED  BY <3>2, <3>3, <3>4
  <2> QED  BY <2>2, <2>3
<1>11. sheet' \in Sheets /\ SheetIn(sheet)'
  <2>1. sheet' \in Sheets /\ SheetIn(sheet')
    BY <1>1, EmptyForms DEF PageTypes, FormsOK
  <2> QED  BY <1>1, <1>2, <2>1 DEF SheetIn
<1>12. PageTypes'
  <2>1. dialog' \in (SUBSET {"card", "level"}) \cup {{"person"}, {"bulk"}, {"team"}}
    BY <1>1 DEF PageTypes
  <2> QED  BY <1>1, <1>8, <1>10, <1>11, <2>1 DEF PageTypes
<1>13. FormsOK'
  BY <1>1, <1>10, <1>11 DEF FormsOK
<1> QED  BY <1>2, <1>3, <1>9, <1>12, <1>13

\* The handler goes on with the same request.
LEMMA StageIn ==
    ASSUME JobIn(job), NEW z \in Stages(job.kind), NEW g, g = [job EXCEPT !.at = z],
           job.kind = "card" => job.at \in {"update", "rules"} /\ z \in {"rules", "reload"},
           job.kind = "level" => job.at \in {"updatelevel", "rules"} /\ z \in {"rules", "levels"}
    PROVE  /\ JobIn(g) /\ g.at = z /\ g.kind = job.kind /\ g.oid = job.oid /\ g.was = job.was /\ g.want = job.want
           /\ g.patch = job.patch /\ g.rule = job.rule /\ g.raced = job.raced
<1>1. g = JobOf(z, job.kind, job.oid, job.was, job.want, job.patch, job.rule, job.raced)
  BY JobExcept DEF JobIn, IsJob
<1>2. /\ g = JobOf(g.at, g.kind, g.oid, g.was, g.want, g.patch, g.rule, g.raced)
      /\ g.at = z /\ g.kind = job.kind /\ g.oid = job.oid /\ g.was = job.was /\ g.want = job.want
      /\ g.patch = job.patch /\ g.rule = job.rule /\ g.raced = job.raced
  BY <1>1, JobOfIn
<1>3. IsJob(g) /\ PatchOK(g.patch)
  BY <1>2 DEF JobIn, IsJob
<1>4. job.kind = "card" => CardJob(g)
  BY <1>2 DEF JobIn, CardJob
<1>5. job.kind = "level" => LevelJob(g)
  BY <1>2 DEF JobIn, LevelJob
<1> QED  BY <1>2, <1>3, <1>4, <1>5 DEF JobIn

LEMMA QuietPage ==
    ASSUME PageTypes, UNCHANGED <<cardsView, cardsLoad, dialog, cardForm, sheet, cardEvents>>
    PROVE  PageStays
<1>1. dialog \subseteq {"card", "level"} \/ dialog = {"person"} \/ dialog = {"bulk"} \/ dialog = {"team"}
  BY DEF PageTypes
<1>2. dialog \ {"none"} = dialog
  BY <1>1
<1> QED  BY <1>2 DEF PageStays

LEMMA EraseKeeps ==
    ASSUME CardsAssumption, RecordTypes, RecordsOK, PageTypes, FormsOK, DeleteCardClicked
    PROVE  PageStays /\ RecordsMove /\ JobIn(job)' /\ GoalOK'
<1>1. /\ UNCHANGED <<cardsView, cardsLoad, dialog, cardForm, sheet, cardEvents>> /\ UNCHANGED cardServer
      /\ job' = Job("erase", "erase", Absent, cardForm) /\ cardForm.oid \in Cards
  BY DEF DeleteCardClicked, Known
<1>2. PageStays /\ RecordsMove
  BY <1>1, QuietPage, QuietMoves
<1>3. PICK x : /\ Job("erase", "erase", Absent, cardForm) = JobOf("erase", "erase", cardForm.oid, Absent, cardForm, Unpatched, BlankRule, x)
               /\ x = IF "erase" = "card" THEN ~SameRecords \/ OlderLoad ELSE cardsView # Listing
  BY JobIs
<1>4. x \in BOOLEAN
  BY <1>3
<1>5. PICK g : g = JobOf("erase", "erase", cardForm.oid, Absent, cardForm, Unpatched, BlankRule, x)
  OBVIOUS
<1>6. /\ g = JobOf(g.at, g.kind, g.oid, g.was, g.want, g.patch, g.rule, g.raced)
      /\ g.at = "erase" /\ g.kind = "erase" /\ g.oid = cardForm.oid /\ g.was = Absent /\ g.want = cardForm
      /\ g.patch = Unpatched /\ g.rule = BlankRule /\ g.raced = x
  BY <1>5, JobOfIn
<1>7. IsJob(g)
  BY <1>1, <1>4, <1>6, NoPatchTyped, BlankTyped DEF IsJob, Stages
<1>8. PatchOK(g.patch) /\ cardForm \in Forms /\ cardForm.levels \subseteq Named
  BY <1>6 DEF PatchOK, Unpatched, PageTypes, FormsOK, FormIn
<1>9. JobIn(g)
  BY <1>1, <1>6, <1>7, <1>8 DEF JobIn
<1>10. JobIn(g)' /\ job' = g
  BY <1>1, <1>2, <1>3, <1>5, <1>9, JobKept
<1>11. GoalOK'
  BY <1>6, <1>10 DEF GoalOK
<1> QED  BY <1>2, <1>10, <1>11

LEMMA ErasedKeeps ==
    ASSUME CardsAssumption, RecordTypes, RecordsOK, PageTypes, JobIn(job), CardErased \/ GroupErased
    PROVE  /\ PageStays /\ RecordsMove /\ JobIn(job)' /\ (~job.raced /\ GoalOK => GoalOK') /\ job'.raced = job.raced
           /\ job'.at = "rules"
<1>1. /\ UNCHANGED <<cardsView, cardsLoad, dialog, cardForm, sheet, cardEvents>>
      /\ job' = [job EXCEPT !.at = "rules"] /\ JobRequest(job)
  BY DEF CardErased, GroupErased, JobRequest
<1>2. PageStays /\ RecordsMove
  BY <1>1, QuietPage, RequestMoves
<1>3. PICK g : g = [job EXCEPT !.at = "rules"]
  OBVIOUS
<1>4. \/ job.at = "erase" /\ job.kind = "erase" /\ DeleteCard(job.oid) /\ job.oid \in Cards /\ job.oid = job.want.oid
      \/ job.at = "eraselevel" /\ job.kind = "drop" /\ DeleteGroup(job.oid) /\ job.oid \in Groups /\ job.oid = job.want.oid
  BY StageOf DEF CardErased, GroupErased, JobIn
<1>5. /\ JobIn(g) /\ g.at = "rules" /\ g.kind = job.kind /\ g.want = job.want /\ g.raced = job.raced
  BY <1>3, <1>4, StageIn DEF Stages
<1>6. JobIn(g)' /\ job' = g
  BY <1>1, <1>2, <1>3, <1>5, JobKept
<1>7. CASE job.kind = "erase"
  <2>1. cards'[job.want.oid] # "live"
    BY <1>4, <1>7 DEF DeleteCard, RecordTypes
  <2>2. GoalOK'
    BY <1>5, <1>6, <1>7, <2>1 DEF GoalOK, JobSettled, Done
  <2> QED  BY <1>2, <1>5, <1>6, <2>2
<1>8. CASE job.kind = "drop"
  <2>1. groups'[job.want.oid] # "live" /\ UNCHANGED <<cards, held>>
    BY <1>4, <1>8 DEF DeleteGroup, RecordTypes
  <2>2. ASSUME GoalOK PROVE Dropped(held, job.want)
    BY <1>4, <1>8, <2>2 DEF GoalOK, Done
  <2>3. ASSUME GoalOK PROVE GoalOK'
    <3>1. Live' = Live
      BY <2>1 DEF Live
    <3>2. \A c \in Live' : job'.want.oid \notin held'[c].levels
      BY <1>5, <1>6, <2>1, <2>2, <2>3, <3>1 DEF Dropped
    <3>3. JobSettled(job)'
      BY <1>5, <1>6, <1>8, <2>1, <3>2 DEF JobSettled, Done, Dropped
    <3> QED  BY <1>5, <1>6, <1>8, <3>3 DEF GoalOK
  <2> QED  BY <1>2, <1>5, <1>6, <2>3
<1> QED  BY <1>4, <1>7, <1>8

LEMMA RulesKeeps ==
    ASSUME CardsAssumption, RecordTypes, RecordsOK, PageTypes, JobIn(job), RulesServed
    PROVE  PageStays /\ RecordsMove /\ JobIn(job)' /\ (~job.raced /\ GoalOK => GoalOK') /\ job'.raced = job.raced
<1> DEFINE z == IF job.kind = "level" THEN "levels" ELSE "reload"
<1>1. /\ job.at = "rules" /\ told' = TRUE /\ UNCHANGED <<cards, held, groups, rules, cardsView, cardEvents>>
      /\ SynchronizeACL
  BY DEF RulesServed, SynchronizeACL
<1>2. PICK g : g = [job EXCEPT !.at = z]
  OBVIOUS
<1>3. Goes(g)
  BY <1>2 DEF RulesServed
<1>4. job.kind \in {"card", "erase", "bulk", "level", "drop"}
  BY <1>1, StageOf
<1>5. /\ JobIn(g) /\ g.at = z /\ g.kind = job.kind /\ g.oid = job.oid /\ g.was = job.was /\ g.want = job.want
      /\ g.patch = job.patch /\ g.rule = job.rule /\ g.raced = job.raced
  BY <1>1, <1>2, <1>4, StageIn DEF Stages
<1>6. PageStays /\ RecordsMove /\ job' = g
  BY <1>1, <1>3, GoesStays, GoesFacts, QuietMoves
<1>7. JobIn(g)'
  BY <1>5, <1>6, JobKept
<1>8. ASSUME ~job.raced, GoalOK PROVE GoalOK'
  <2>1. Done(job, held) /\ JobSettled(job)
    BY <1>1, <1>8 DEF GoalOK, JobSettled
  <2>2. Done(g, held)'
    <3>1. Done(g, held)
      BY <1>5, <2>1 DEF Done
    <3>2. PICK fs : fs = held
      OBVIOUS
    <3>3. Done(g, fs)'
      BY <1>1, <3>1, <3>2, DoneSame
    <3> QED  BY <1>1, <3>2, <3>3
  <2>3. JobSettled(job)'
    BY <1>1, <1>5, <1>6, <2>1, <2>2 DEF JobSettled
  <2>4. ToldOf(job)'
    BY <1>1 DEF ToldOf
  <2>5. job.kind = "level" => SavingLevel'
    <3>1. ASSUME job.kind = "level" PROVE sheet' = sheet
      BY <1>3, <1>5, <3>1, GoesFacts
    <3> QED  BY <1>1, <1>5, <1>6, <1>8, <3>1 DEF GoalOK, SavingLevel, LevelIs
  <2> QED  BY <1>4, <1>5, <1>6, <2>3, <2>4, <2>5 DEF GoalOK
<1> QED  BY <1>5, <1>6, <1>7, <1>8

LEMMA PatchKeeps ==
    ASSUME CardsAssumption, RecordTypes, RecordsOK, PageTypes, JobIn(job), UpdateServed
    PROVE  /\ PageStays /\ RecordsMove /\ JobIn(job)' /\ (~job.raced /\ GoalOK => GoalOK') /\ job'.raced = job.raced
           /\ job'.at = "reload" => job'.kind \in {"person", "team"}
<1> DEFINE z == IF job.kind \in {"card", "bulk"} THEN "rules" ELSE IF job.kind = "drop" THEN "eraselevel" ELSE "reload"
<1>1. /\ job.at = "update" /\ UpdateCards(job.patch) /\ UNCHANGED <<cards, groups, cardsView, cardEvents>>
      /\ held' = PatchedCards(job.patch) /\ (job.kind = "card" => cards[job.oid] = "live")
  BY DEF UpdateServed, UpdateCards
<1>2. PICK g : g = [job EXCEPT !.at = z]
  OBVIOUS
<1>3. Goes(g)
  BY <1>2 DEF UpdateServed, AfterUpdate
<1>4. job.kind \in {"card", "bulk", "person", "team", "drop"}
  BY <1>1, StageOf
<1>5. /\ JobIn(g) /\ g.at = z /\ g.kind = job.kind /\ g.oid = job.oid /\ g.was = job.was /\ g.want = job.want
      /\ g.patch = job.patch /\ g.rule = job.rule /\ g.raced = job.raced
  <2>1. z \in Stages(job.kind) /\ (job.kind = "card" => z = "rules") /\ job.kind # "level"
    BY <1>4 DEF Stages
  <2> HIDE DEF z
  <2>2. PICK y : y = z
    OBVIOUS
  <2>3. /\ y \in Stages(job.kind) /\ g = [job EXCEPT !.at = y]
        /\ job.kind = "card" => job.at \in {"update", "rules"} /\ y \in {"rules", "reload"}
        /\ job.kind = "level" => job.at \in {"updatelevel", "rules"} /\ y \in {"rules", "levels"}
    <3>1. g = [job EXCEPT !.at = y]
      BY <1>2, <2>2
    <3> QED  BY <1>1, <2>1, <2>2, <3>1
  <2>4. /\ JobIn(g) /\ g.at = y /\ g.kind = job.kind /\ g.oid = job.oid /\ g.was = job.was /\ g.want = job.want
        /\ g.patch = job.patch /\ g.rule = job.rule /\ g.raced = job.raced
    BY <2>3, StageIn
  <2> QED  BY <2>2, <2>4
<1>6. PageStays /\ RecordsMove /\ job' = g
  <2>1. JobRequest(job)
    BY <1>1 DEF JobRequest
  <2> QED  BY <1>1, <1>3, <2>1, GoesStays, GoesFacts, RequestMoves
<1>7. JobIn(g)'
  BY <1>5, <1>6, JobKept
<1>8. ASSUME ~job.raced, GoalOK PROVE GoalOK'
  <2>1. Done(job, PatchedCards(job.patch))
    BY <1>1, <1>8 DEF GoalOK, Updating
  <2>2. Done(g, held)'
    <3>1. PICK fs : fs = PatchedCards(job.patch)
      OBVIOUS
    <3>2. Done(g, fs)
      BY <1>5, <2>1, <3>1 DEF Done
    <3>3. Done(g, fs)'
      BY <1>1, <3>2, DoneSame
    <3> QED  BY <1>1, <3>1, <3>3
  <2>3. job.kind # "drop" => JobSettled(job)'
    BY <1>1, <1>4, <1>5, <1>6, <2>2 DEF JobSettled
  <2>4. job.kind \in {"person", "team"} => ToldOf(job)'
    BY <1>5, <1>6 DEF ToldOf
  <2> QED  BY <1>4, <1>5, <1>6, <2>2, <2>3, <2>4 DEF GoalOK
<1>9. job'.at = "reload" => job'.kind \in {"person", "team"}
  BY <1>4, <1>5, <1>6
<1> QED  BY <1>5, <1>6, <1>7, <1>8, <1>9

-----------------------------------------------------------------------------
(* What a handler is to have done is not disturbed while it waits. *)

LEMMA QuietGoal ==
    ASSUME UNCHANGED <<cards, held, groups, rules, told, job>>, GoalOK,
           job.at \in {"find", "create"} => GroupsKnown' /\ cardForm'.term = cardForm.term,
           job.kind = "level" => sheet' = sheet
    PROVE  GoalOK'
<1>1. PICK h, fs, gs : h = job /\ fs = held /\ gs = PatchedCards(job.patch)
  OBVIOUS
<1>2. PatchedCards(job.patch)' = gs /\ held' = fs /\ job' = h
  BY <1>1 DEF PatchedCards
<1>3. Done(job, held) => Done(job, held)'
  <2>1. ASSUME Done(job, held) PROVE Done(job, held)'
    <3>1. Done(h, fs)
      BY <1>1, <2>1
    <3>2. Done(h, fs)'
      BY <3>1, DoneSame
    <3> QED  BY <1>2, <3>2
  <2> QED  BY <2>1
<1>4. Updating => Updating'
  <2>1. ASSUME Updating PROVE Updating'
    <3>1. Done(h, gs) /\ (OnePersonOneTeam(fs) => OnePersonOneTeam(gs))
      BY <1>1, <2>1 DEF Updating
    <3>2. Done(h, gs)' /\ (OnePersonOneTeam(fs)' => OnePersonOneTeam(gs)')
      BY <3>1, DoneSame, TeamSame
    <3> QED  BY <1>2, <3>2 DEF Updating
  <2> QED  BY <2>1
<1>5. OnePersonOneTeam(held)' <=> OnePersonOneTeam(held)
  BY DEF OnePersonOneTeam, Live
<1>6. \A w, cs : Joins(w, cs) => Joins(w, cs)'
  BY <1>5 DEF Joins
<1>7. Joins(job.want, Cards) => Joins(job.want, Cards)'
  BY <1>5 DEF Joins
<1>8. Finding => Finding'
  <2>1. ShownCards' = ShownCards
    BY DEF ShownCards
  <2>2. {d \in Cards : held'[d].number # job'.was.number} = {d \in Cards : held[d].number # job.was.number}
    OBVIOUS
  <2>3. ASSUME Joins(job.want, {d \in Cards : held[d].number # job.was.number})
        PROVE  Joins(job.want, {d \in Cards : held[d].number # job.was.number})'
    BY <1>5, <2>3 DEF Joins
  <2> QED  BY <2>1, <2>3 DEF Finding
<1>9. JobSettled(job) => JobSettled(job)'
  BY <1>3 DEF JobSettled
<1>10. ToldOf(job) => ToldOf(job)'
  BY DEF ToldOf
<1>11. job.kind = "level" /\ SavingLevel => SavingLevel'
  BY DEF SavingLevel, LevelIs
<1> QED  BY <1>3, <1>4, <1>7, <1>8, <1>9, <1>10, <1>11 DEF GoalOK

LEMMA LoadsKeep ==
    ASSUME CardsAssumption, RecordTypes, RecordsOK, PageTypes, ViewsOK, FormsOK, JobIn(job),
           PollCards \/ ReadCards \/ CardsArrive \/ CardsLoadFails \/ CloseDialog
    PROVE  /\ PageTypes' /\ ViewsOK' /\ FormsOK' /\ RecordsMove /\ JobIn(job)' /\ job' = job
           /\ GoalOK => GoalOK'
<1>1. UNCHANGED <<cards, held, groups, rules, told, job>> /\ UNCHANGED cardServer
  BY DEF PollCards, ReadCards, CardsArrive, CardsLoadFails, CloseDialog, cardServer
<1>2. RecordsMove
  BY <1>1, QuietMoves
<1>3. JobIn(job)'
  BY <1>1, <1>2, JobKept
<1>4. PageTypes' /\ ViewsOK' /\ FormsOK'
  <2>1. CASE PollCards
    <3>1. dialog \ {"none"} = dialog
      <4>1. dialog \subseteq {"card", "level"} \/ dialog = {"person"} \/ dialog = {"bulk"} \/ dialog = {"team"}
        BY DEF PageTypes
      <4> QED  BY <4>1
    <3>2. PageStays
      BY <2>1, <3>1 DEF PollCards, StartCardsLoad, PageStays
    <3> QED  BY <1>2, <3>2, PageKeeps
  <2>2. CASE CloseDialog
    BY <1>2, <2>2, CloseStays, PageKeeps
  <2> QED  BY <2>1, <2>2, ReadKeeps, ArriveKeeps, LoadFailsKeeps
<1>5. ShownGroups' = ShownGroups
  BY <1>1 DEF ShownGroups
<1>6. GroupsKnown => GroupsKnown'
  <2>1. CASE PollCards
    BY <1>5, <2>1 DEF PollCards, StartCardsLoad, GroupsKnown
  <2>2. CASE ReadCards
    BY <1>5, <2>2, ListingFacts DEF ReadCards, GroupsKnown
  <2>3. CASE CardsArrive
    BY <1>5, <2>3 DEF CardsArrive, GroupsKnown
  <2>4. CASE CardsLoadFails
    BY <1>5, <2>4 DEF CardsLoadFails, GroupsKnown
  <2>5. CASE CloseDialog
    BY <1>5, <2>5 DEF CloseDialog, GroupsKnown
  <2> QED  BY <2>1, <2>2, <2>3, <2>4, <2>5
<1>7. /\ job.at \in {"find", "create"} => cardForm'.term = cardForm.term
      /\ job.kind = "level" => sheet' = sheet
  BY DEF PollCards, ReadCards, CardsArrive, CardsLoadFails, CloseDialog, Left, LeftOf
<1>8. GoalOK => (job.at \in {"find", "create"} => GroupsKnown)
  BY DEF GoalOK
<1> QED  BY <1>1, <1>2, <1>3, <1>4, <1>6, <1>7, <1>8, QuietGoal

LEMMA RacedKeeps ==
    ASSUME CardsAssumption, RecordTypes, RecordsMove, JobIn(job), job' = Raced
    PROVE  JobIn(job)' /\ (~job'.raced => GoalOK')
<1>1. PICK g : g = Raced
  OBVIOUS
<1>2. JobIn(g) /\ (job.at # "idle" => g.raced) /\ (job.at = "idle" => g = job)
  BY <1>1, RacedIn
<1>3. JobIn(g)' /\ job' = g
  BY <1>1, <1>2, JobKept
<1>4. ASSUME ~job'.raced PROVE GoalOK'
  BY <1>2, <1>3, <1>4, StageOf DEF GoalOK
<1> QED  BY <1>3, <1>4

LEMMA ElsewhereMoves ==
    ASSUME CardsAssumption, RecordTypes, RecordsOK, CardsElsewhere
    PROVE  RecordsMove
<1>1. ASSUME NEW c \in Cards, ShownCards[c] = "live", NEW p \in Patches, p.add \subseteq Named, EditedElsewhere(c, p)
      PROVE  RecordsMove
  <2>1. PICK ps : ps = [d \in Cards |-> IF d \in {c} THEN p ELSE NoPatch]
    OBVIOUS
  <2>2. UpdateCards(ps)
    BY <1>1, <2>1 DEF EditedElsewhere, Only
  <2>3. c \in Registered
    BY <1>1, ShownCardFacts DEF Registered
  <2>4. ps \in [Cards -> Patches]
    BY <1>1, <2>1, NoPatchTyped
  <2>5. PatchOK(ps)
    BY <1>1, <2>1, <2>3 DEF PatchOK
  <2> QED  BY <2>2, <2>4, <2>5, UpdateMoves
<1>2. ASSUME NEW c \in Cards, ShownCards[c] = "live",
             \/ DeleteCard(c)
             \/ \E n \in Names : EditedElsewhere(c, [NoPatch EXCEPT !.name = n])
             \/ \E t \in Teams : EditedElsewhere(c, [NoPatch EXCEPT !.team = t])
             \/ \E i \in Numbers : EditedElsewhere(c, [NoPatch EXCEPT !.number = i])
             \/ \E l \in Groups : /\ ShownGroups[l] = "live"
                                  /\ \/ EditedElsewhere(c, [NoPatch EXCEPT !.add = {l}])
                                     \/ EditedElsewhere(c, [NoPatch EXCEPT !.drop = {l}])
      PROVE  RecordsMove
  <2>1. CASE DeleteCard(c)
    BY <2>1, DeleteCardMoves
  <2>2. CASE \E n \in Names : EditedElsewhere(c, [NoPatch EXCEPT !.name = n])
    <3>1. PICK n \in Names : EditedElsewhere(c, [NoPatch EXCEPT !.name = n])
      BY <2>2
    <3>2. PICK p : p = [NoPatch EXCEPT !.name = n]
      OBVIOUS
    <3>3. p \in Patches /\ p.add = {}
      BY <3>2 DEF NoPatch, Patches
    <3> QED  BY <1>1, <1>2, <3>1, <3>2, <3>3
  <2>3. CASE \E t \in Teams : EditedElsewhere(c, [NoPatch EXCEPT !.team = t])
    <3>1. PICK t \in Teams : EditedElsewhere(c, [NoPatch EXCEPT !.team = t])
      BY <2>3
    <3>2. PICK p : p = [NoPatch EXCEPT !.team = t]
      OBVIOUS
    <3>3. p \in Patches /\ p.add = {}
      BY <3>2 DEF NoPatch, Patches
    <3> QED  BY <1>1, <1>2, <3>1, <3>2, <3>3
  <2>4. CASE \E i \in Numbers : EditedElsewhere(c, [NoPatch EXCEPT !.number = i])
    <3>1. PICK i \in Numbers : EditedElsewhere(c, [NoPatch EXCEPT !.number = i])
      BY <2>4
    <3>2. PICK p : p = [NoPatch EXCEPT !.number = i]
      OBVIOUS
    <3>3. p \in Patches /\ p.add = {}
      BY <3>2 DEF NoPatch, Patches
    <3> QED  BY <1>1, <1>2, <3>1, <3>2, <3>3
  <2>5. ASSUME NEW l \in Groups, ShownGroups[l] = "live",
               \/ EditedElsewhere(c, [NoPatch EXCEPT !.add = {l}])
               \/ EditedElsewhere(c, [NoPatch EXCEPT !.drop = {l}])
        PROVE  RecordsMove
    <3>1. l \in Named
      BY <2>5, ShownCardFacts
    <3>2. PICK p, q : p = [NoPatch EXCEPT !.add = {l}] /\ q = [NoPatch EXCEPT !.drop = {l}]
      OBVIOUS
    <3>3. p \in Patches /\ p.add = {l} /\ q \in Patches /\ q.add = {}
      BY <3>2 DEF NoPatch, Patches
    <3> QED  BY <1>1, <1>2, <2>5, <3>1, <3>2, <3>3
  <2> QED  BY <1>2, <2>1, <2>2, <2>3, <2>4, <2>5
<1>3. CASE \E l \in Groups : DeleteGroup(l)
  BY <1>3, GroupsMove
<1> QED  BY <1>2, <1>3 DEF CardsElsewhere

LEMMA ElsewhereKeeps ==
    ASSUME CardsAssumption, RecordTypes, RecordsOK, PageTypes, JobIn(job), CardsElsewhere
    PROVE  PageStays /\ RecordsMove /\ JobIn(job)' /\ (~job'.raced => GoalOK')
<1>1. RecordsMove
  BY ElsewhereMoves
<1>2. dialog \ {"none"} = dialog
  <2>1. dialog \subseteq {"card", "level"} \/ dialog = {"person"} \/ dialog = {"bulk"} \/ dialog = {"team"}
    BY DEF PageTypes
  <2> QED  BY <2>1
<1>3. PageStays
  BY <1>2 DEF CardsElsewhere, PageStays
<1> QED  BY <1>1, <1>3, RacedKeeps DEF CardsElsewhere

\* What was never edited is found again under another OID; what has a name stays where it is.
LEMMA ReissueStays ==
    ASSUME CardsAssumption, RecordTypes, NEW c \in Cards, NEW d \in Cards, Reissue(c, d)
    PROVE  /\ cards[c] = "live" /\ cards[d] = "none" /\ c # d /\ held[c].name = NotSet
           /\ cards'[c] = "gone" /\ cards'[d] = "live" /\ held'[c] = BlankCard /\ held'[d] = held[c]
           /\ \A e \in Cards \ {c, d} : cards'[e] = cards[e] /\ held'[e] = held[e]
           /\ UNCHANGED <<groups, rules, told>>
<1>1. /\ cards[c] = "live" /\ cards[d] = "none" /\ UNCHANGED <<groups, rules, told>>
      /\ cards' = [cards EXCEPT ![c] = "gone", ![d] = "live"]
      /\ held' = [held EXCEPT ![c] = BlankCard, ![d] = held[c]]
  BY DEF Reissue
<1>2. c # d
  BY <1>1
<1>3. held[c].name = NotSet
  <2>1. OnlyFound(held[c])
    BY DEF Reissue
  <2> QED  BY <2>1 DEF OnlyFound, Credential
<1> QED  BY <1>1, <1>2, <1>3 DEF RecordTypes

LEMMA ReissueGoal ==
    ASSUME CardsAssumption, RecordTypes, RecordsOK, JobIn(job), job.kind = "card", GoalOK,
           NEW c \in Cards, NEW d \in Cards, Reissue(c, d), UNCHANGED <<cardsView, cardsLoad, cardForm, sheet, job>>
    PROVE  GoalOK'
<1>1. /\ cards[c] = "live" /\ cards[d] = "none" /\ c # d /\ held[c].name = NotSet
      /\ cards'[c] = "gone" /\ cards'[d] = "live" /\ held'[c] = BlankCard /\ held'[d] = held[c]
      /\ \A e \in Cards \ {c, d} : cards'[e] = cards[e] /\ held'[e] = held[e]
      /\ UNCHANGED <<groups, rules, told>>
  BY ReissueStays
<1>2. CardJob(job) /\ job.want \in Forms
  BY DEF JobIn
<1>3. job.want.name # NotSet
  BY <1>2 DEF CardJob
<1>4. \A e \in Cards : cards'[e] = "live" /\ held'[e].name # NotSet => cards[e] = "live" /\ held'[e] = held[e] /\ e \notin {c, d}
  BY <1>1
<1>5. \A e \in Cards : cards[e] = "live" /\ held[e].name # NotSet => cards'[e] = "live" /\ held'[e] = held[e] /\ e \notin {c, d}
  BY <1>1
<1>6. OnePersonOneTeam(held)' => OnePersonOneTeam(held)
  <2>1. ASSUME OnePersonOneTeam(held)', NEW e \in Live, NEW f \in Live, held[e].name = held[f].name, held[e].name # NotSet
        PROVE  held[e].team = held[f].team
    <3>1. e \in Cards /\ f \in Cards /\ cards[e] = "live" /\ cards[f] = "live"
      BY DEF Live
    <3>2. cards'[e] = "live" /\ held'[e] = held[e] /\ cards'[f] = "live" /\ held'[f] = held[f]
      BY <1>5, <2>1, <3>1
    <3> QED  BY <2>1, <3>1, <3>2 DEF OnePersonOneTeam, Live
  <2> QED  BY <2>1 DEF OnePersonOneTeam
<1>7. ShownGroups' = ShownGroups
  BY <1>1 DEF ShownGroups
<1>8. GroupsKnown => GroupsKnown'
  BY <1>7 DEF GroupsKnown
<1>9. job.at = "find" => Finding'
  <2>1. ASSUME job.at = "find" PROVE Finding'
    <3>1. Finding
      BY <2>1 DEF GoalOK
    <3>2. PICK e \in Cards : ShownCards[e] = "live" /\ held[e] = job.was
      BY <3>1 DEF Finding
    <3>3. cards[e] = "live" /\ ~Unlisted(held[e])
      BY <3>2, ShownCardFacts
    <3>4. RecordTypes'
      BY ReissueMoves DEF RecordsMove
    <3>5. PICK f \in Cards : cards'[f] = "live" /\ held'[f] = held[e]
      <4>1. CASE e = c
        BY <1>1, <4>1
      <4>2. CASE e # c
        <5>1. e # d
          BY <1>1, <3>3
        <5> QED  BY <1>1, <3>3, <4>2, <5>1
      <4> QED  BY <4>1, <4>2
    <3>6. ShownCards'[f] = "live" /\ held'[f] = job'.was
      <4>1. ~Unlisted(held'[f])
        BY <3>3, <3>5
      <4> QED  BY <3>2, <3>5, <4>1 DEF ShownCards
    <3>7. Joins(job.want, {x \in Cards : held[x].number # job.was.number})'
      <4>1. Joins(job.want, {x \in Cards : held[x].number # job.was.number})
        BY <3>1 DEF Finding
      <4>2. ASSUME OnePersonOneTeam(held)', NEW x \in Cards, held'[x].number # job.was.number,
                   cards'[x] = "live", held'[x].name = job.want.name
            PROVE  held'[x].team = job.want.team
        <5>1. cards[x] = "live" /\ held'[x] = held[x]
          BY <1>3, <1>4, <4>2
        <5> QED  BY <1>6, <4>1, <4>2, <5>1 DEF Joins
      <4> QED  BY <4>2 DEF Joins
    <3> QED  BY <3>6, <3>7 DEF Finding
  <2> QED  BY <2>1
<1>10. job.at = "create" => Joins(job.want, Cards)'
  <2>1. ASSUME job.at = "create", OnePersonOneTeam(held)', NEW x \in Cards, cards'[x] = "live", held'[x].name = job.want.name
        PROVE  held'[x].team = job.want.team
    <3>1. Joins(job.want, Cards)
      BY <2>1 DEF GoalOK
    <3>2. cards[x] = "live" /\ held'[x] = held[x]
      BY <1>3, <1>4, <2>1
    <3> QED  BY <1>6, <2>1, <3>1, <3>2 DEF Joins
  <2> QED  BY <2>1 DEF Joins
<1>11. job.at = "update" => Updating'
  <2>0. PICK fs, gs : fs = PatchedCards(job.patch) /\ gs = PatchedCards(job.patch)'
    OBVIOUS
  <2>1. ASSUME job.at = "update" PROVE Updating'
    <3>1. job.oid \in Cards /\ cards[job.oid] # "none" /\ job.patch \in [Cards -> Patches]
          /\ \A e \in Cards : job.patch[e] # NoPatch => e = job.oid
      BY <1>2, <2>1 DEF CardJob, JobIn, IsJob
    <3>2. job.oid # d
      BY <1>1, <3>1
    <3>3. /\ \A e \in Cards : fs[e] = IF cards[e] = "live" THEN FieldsWith(held[e], job.patch[e]) ELSE held[e]
          /\ \A e \in Cards : gs[e] = IF cards'[e] = "live" THEN FieldsWith(held'[e], job.patch[e]) ELSE held'[e]
      BY <2>0 DEF PatchedCards
    <3>4. \A e \in Cards \ {c, d} : gs[e] = fs[e]
      BY <1>1, <3>3
    <3>5. gs[d] = held[c]
      <4>1. job.patch[d] = NoPatch
        BY <3>1, <3>2
      <4>2. held[c] \in Fields
        BY DEF RecordTypes
      <4> QED  BY <1>1, <3>3, <4>1, <4>2, EmptyPatch
    <3>6. Done(job, fs) /\ (OnePersonOneTeam(held) => OnePersonOneTeam(fs))
      BY <2>0, <2>1 DEF GoalOK, Updating
    <3>7. cards'[job.oid] = "live" => cards[job.oid] = "live" /\ AsWanted(gs[job.oid], job.want)
      <4>1. ASSUME cards'[job.oid] = "live" PROVE cards[job.oid] = "live" /\ gs[job.oid] = fs[job.oid]
        BY <1>1, <3>1, <3>2, <3>4, <4>1
      <4> QED  BY <3>6, <4>1 DEF Done
    <3>8. LiveGroups' = LiveGroups
      BY <1>1 DEF LiveGroups
    <3>9. Done(job, gs)'
      <4>1. PICK h : h = job
        OBVIOUS
      <4>2. h.kind = "card" /\ (cards'[h.oid] = "live" => AsWanted(gs[h.oid], h.want))
        BY <3>7, <4>1
      <4>3. \A f, w : AsWanted(f, w) => AsWanted(f, w)'
        BY <3>8 DEF AsWanted, SameLevels
      <4>4. Done(h, gs)'
        BY <4>2, <4>3 DEF Done
      <4> QED  BY <4>1, <4>4
    <3>10. OnePersonOneTeam(held)' => OnePersonOneTeam(gs)'
      <4>1. ASSUME OnePersonOneTeam(fs), NEW e \in Cards, NEW f \in Cards, cards'[e] = "live", cards'[f] = "live",
                   gs[e].name = gs[f].name, gs[e].name # NotSet
            PROVE  gs[e].team = gs[f].team
        <5>1. e \notin {c, d} /\ f \notin {c, d}
          BY <1>1, <3>5, <4>1
        <5>2. cards[e] = "live" /\ cards[f] = "live" /\ gs[e] = fs[e] /\ gs[f] = fs[f]
          BY <1>1, <3>4, <4>1, <5>1
        <5> QED  BY <4>1, <5>2 DEF OnePersonOneTeam, Live
      <4>2. OnePersonOneTeam(fs) => OnePersonOneTeam(gs)'
        BY <4>1 DEF OnePersonOneTeam, Live
      <4> QED  BY <1>6, <3>6, <4>2
    <3> QED  BY <2>0, <3>9, <3>10 DEF Updating
  <2> QED  BY <2>1
<1>12. job.at \in {"rules", "reload"} => JobSettled(job)'
  <2>1. ASSUME job.at \in {"rules", "reload"} PROVE JobSettled(job)'
    <3>1. Done(job, held) /\ cards[job.oid] = "live"
      BY <2>1 DEF GoalOK, JobSettled
    <3>2. job.oid \in Cards
      BY <1>2, <2>1 DEF CardJob
    <3>3. AsWanted(held[job.oid], job.want)
      BY <3>1 DEF Done
    <3>4. cards'[job.oid] = "live" /\ held'[job.oid] = held[job.oid]
      BY <1>3, <1>5, <3>1, <3>2, <3>3 DEF AsWanted
    <3>5. LiveGroups' = LiveGroups
      BY <1>1 DEF LiveGroups
    <3>6. PICK h, f : h = job /\ f = held[job.oid]
      OBVIOUS
    <3>7. AsWanted(f, h.want)'
      BY <3>3, <3>5, <3>6 DEF AsWanted, SameLevels
    <3>8. h.kind = "card" /\ held'[h.oid] = f /\ cards'[h.oid] = "live"
      BY <3>4, <3>6
    <3>9. JobSettled(h)'
      BY <3>7, <3>8 DEF JobSettled, Done
    <3> QED  BY <3>6, <3>9
  <2> QED  BY <2>1
<1>13. job.at = "reload" => ToldOf(job)'
  BY <1>1 DEF GoalOK, ToldOf
<1>14. job.at # "eraselevel"
  BY StageOf
<1> QED  BY <1>8, <1>9, <1>10, <1>11, <1>12, <1>13, <1>14 DEF GoalOK

LEMMA RediscoveredKeeps ==
    ASSUME CardsAssumption, RecordTypes, RecordsOK, PageTypes, JobIn(job), Rediscovered, ~job.raced => GoalOK
    PROVE  PageStays /\ RecordsMove /\ JobIn(job)' /\ (~job'.raced => GoalOK')
<1>1. PICK c, d \in Cards : Reissue(c, d)
  BY DEF Rediscovered
<1>2. /\ UNCHANGED <<cardsView, cardsLoad, dialog, cardForm, sheet>>
      /\ cardEvents < MaxCardEvents /\ cardEvents' = cardEvents + 1
      /\ job' = IF job.kind = "card" THEN job ELSE Raced
  BY DEF Rediscovered
<1>3. dialog \ {"none"} = dialog
  <2>1. dialog \subseteq {"card", "level"} \/ dialog = {"person"} \/ dialog = {"bulk"} \/ dialog = {"team"}
    BY DEF PageTypes
  <2> QED  BY <2>1
<1>4. PageStays
  BY <1>2, <1>3 DEF PageStays
<1>5. RecordsMove
  BY <1>1, ReissueMoves
<1>6. CASE job.kind = "card"
  <2>1. JobIn(job)'
    <3>1. PICK h : h = job
      OBVIOUS
    <3>2. JobIn(h)'
      BY <1>5, <3>1, JobKept
    <3> QED  BY <1>2, <1>6, <3>1, <3>2
  <2> QED  BY <1>1, <1>2, <1>4, <1>5, <1>6, <2>1, ReissueGoal
<1>7. CASE job.kind # "card"
  BY <1>2, <1>4, <1>5, <1>7, RacedKeeps
<1> QED  BY <1>6, <1>7

-----------------------------------------------------------------------------
(* saveCard *)

\* What it sends makes of the credential what the dialog showed.
LEMMA WantedPatch ==
    ASSUME CardsAssumption, PageTypes, NEW h, h.want \in Forms, NotSet \notin {h.want.name, h.want.number, h.want.term},
           h.want.levels \subseteq Named, h.was \in Fields \cup {Absent},
           NEW f \in Fields, f.levels \subseteq Named, h.was = f \/ (h.was = Absent /\ f = BlankCard),
           cardForm.term = h.want.term, Offered = LiveGroups \cap Named
    PROVE  AsWanted(FieldsWith(f, CardPatch(h)), h.want)
<1>1. CardPatch(h) \in Patches
  BY CardPatchTyped
<1>2. PICK p : p = CardPatch(h)
  OBVIOUS
<1>3. PICK w : w = WasOf(h)
  OBVIOUS
<1>4. /\ p.name = Differing(h.want.name, w.name) /\ p.team = Differing(h.want.team, w.team)
      /\ p.number = Differing(h.want.number, w.number) /\ p.term = Differing(h.want.term, w.term)
      /\ p.add = (h.want.levels \cap Offered) \ w.levels /\ p.drop = (w.levels \cap Offered) \ h.want.levels
  BY <1>2, <1>3 DEF CardPatch
<1>5. /\ FieldsWith(f, p).name = Given(p.name, f.name) /\ FieldsWith(f, p).team = Given(p.team, f.team)
      /\ FieldsWith(f, p).number = Given(p.number, f.number) /\ FieldsWith(f, p).term = Given(p.term, f.term)
      /\ FieldsWith(f, p).levels = (f.levels \cup p.add) \ p.drop
  BY <1>1, <1>2, PatchedFields
<1>6. /\ h.want.name \in Names /\ h.want.team \in Teams /\ h.want.number \in Numbers /\ h.want.term \in Terms
      /\ h.want.levels \subseteq Groups
  BY DEF Forms
<1>7. Absent \notin Names \cup Teams \cup Numbers \cup Terms
  BY DEF CardsAssumption
<1>8. CASE h.was = f
  <2>1. w = f
    BY <1>3, <1>8 DEF WasOf, CardsAssumption
  <2>2. /\ FieldsWith(f, p).name = h.want.name /\ FieldsWith(f, p).team = h.want.team
        /\ FieldsWith(f, p).number = h.want.number /\ FieldsWith(f, p).term = h.want.term
    BY <1>4, <1>5, <1>6, <1>7, <2>1 DEF Given, Differing
  <2>3. FieldsWith(f, p).levels \cap LiveGroups = h.want.levels \cap LiveGroups
    BY <1>4, <1>5, <2>1
  <2> QED  BY <1>2, <2>2, <2>3 DEF AsWanted, SameLevels
<1>9. CASE h.was = Absent /\ f = BlankCard
  <2>1. w = Unknown
    BY <1>3, <1>9 DEF WasOf
  <2>2. /\ w.name = Absent /\ w.team = Absent /\ w.number = Absent /\ w.term = Absent /\ w.levels = {} /\ f.levels = {}
    BY <1>9, <2>1 DEF Unknown, Credential, BlankCard
  <2>3. /\ FieldsWith(f, p).name = h.want.name /\ FieldsWith(f, p).team = h.want.team
        /\ FieldsWith(f, p).number = h.want.number /\ FieldsWith(f, p).term = h.want.term
    BY <1>4, <1>5, <1>6, <1>7, <2>2 DEF Given, Differing
  <2>4. FieldsWith(f, p).levels \cap LiveGroups = h.want.levels \cap LiveGroups
    BY <1>4, <1>5, <2>2
  <2> QED  BY <1>2, <2>3, <2>4 DEF AsWanted, SameLevels
<1> QED  BY <1>8, <1>9

\* One credential is changed.
LEMMA OneTeam ==
    ASSUME NEW gs, NEW c \in Cards, NEW w, OnePersonOneTeam(held)', w.name # NotSet,
           cards'[c] = "live" => gs[c].name = w.name /\ gs[c].team = w.team,
           \A d \in Cards : cards'[d] = "live" /\ d # c =>
               /\ gs[d] = held'[d]
               /\ cards'[c] = "live" /\ held'[d].name = w.name => held'[d].team = w.team
    PROVE  OnePersonOneTeam(gs)'
<1>1. ASSUME NEW a \in Live', NEW b \in Live', gs[a].name = gs[b].name, gs[a].name # NotSet
      PROVE  gs[a].team = gs[b].team
  <2>1. a \in Cards /\ cards'[a] = "live" /\ b \in Cards /\ cards'[b] = "live"
    BY DEF Live
  <2>2. CASE a = c \/ b = c
    BY <1>1, <2>1, <2>2
  <2>3. CASE a # c /\ b # c
    BY <1>1, <2>1, <2>3 DEF OnePersonOneTeam
  <2> QED  BY <2>2, <2>3
<1> QED  BY <1>1 DEF OnePersonOneTeam

SavedAs(h, c) ==
    /\ IF cards[c] = "live" THEN h.was = held[c] /\ Joins(h.want, Cards \ {c}) ELSE CardPatch(h) # NoPatch
    /\ cardForm.term = h.want.term /\ Offered = LiveGroups \cap Named

LEMMA ChangesGo ==
    ASSUME CardsAssumption, RecordTypes, RecordsOK, PageTypes, NEW h, IsJob(h), h.kind = "card", h.want \in Forms,
           NotSet \notin {h.want.name, h.want.number, h.want.term}, h.want.levels \subseteq Named,
           h.was \in Fields \cup {Absent}, NEW c \in Cards, c \in Registered,
           Goes(CardChanges(h, c)), UNCHANGED <<cardServer, cardsView, cardEvents>>
    PROVE  PageStays /\ RecordsMove /\ JobIn(job)' /\ job'.raced = h.raced /\ (SavedAs(h, c) => GoalOK')
<1>1. PICK g : g = CardChanges(h, c)
  OBVIOUS
<1>2. /\ IsJob(g) /\ PatchOK(g.patch) /\ g.kind = "card" /\ g.oid = c /\ g.was = h.was /\ g.want = h.want
      /\ g.patch = CardPatches(h, c) /\ g.raced = h.raced
      /\ g.at = IF CardPatches(h, c) # Unpatched THEN "update" ELSE "reload"
      /\ \A d \in Cards : g.patch[d] # NoPatch => d = c
  BY <1>1, CardChangesIn
<1>3. cards[c] # "none"
  BY DEF Registered
<1>4. CardJob(g)
  BY <1>2, <1>3 DEF CardJob
<1>5. JobIn(g)
  BY <1>2, <1>4 DEF JobIn
<1>6. PageStays /\ RecordsMove /\ JobIn(job)' /\ job' = g /\ UNCHANGED <<cards, held, groups, rules, told>>
  BY <1>1, <1>5, Started
<1>7. ASSUME SavedAs(h, c) PROVE GoalOK'
  <2>1. PICK ps : ps = CardPatches(h, c)
    OBVIOUS
  <2>2. /\ ps \in [Cards -> Patches] /\ ps[c] = CardPatch(h) /\ (\A d \in Cards : d # c => ps[d] = NoPatch)
        /\ ps = Unpatched <=> CardPatch(h) = NoPatch
    BY <2>1, CardPatchesFacts
  <2>3. PICK gs : gs = PatchedCards(ps)
    OBVIOUS
  <2>4. \A d \in Cards : gs[d] = IF cards[d] = "live" THEN FieldsWith(held[d], ps[d]) ELSE held[d]
    BY <2>2, <2>3, PatchedTyped
  <2>5. ASSUME cards[c] = "live" PROVE AsWanted(gs[c], h.want)
    <3>1. held[c] \in Fields /\ held[c].levels \subseteq Named /\ h.was = held[c]
      BY <1>7, <2>5 DEF RecordTypes, RecordsOK, SavedAs
    <3>2. AsWanted(FieldsWith(held[c], CardPatch(h)), h.want)
      BY <1>7, <3>1, WantedPatch DEF SavedAs
    <3> QED  BY <2>2, <2>4, <2>5, <3>2
  <2>6. LiveGroups' = LiveGroups /\ Live' = Live /\ (OnePersonOneTeam(held)' <=> OnePersonOneTeam(held))
    BY <1>6 DEF LiveGroups, Live, OnePersonOneTeam
  <2>7. cards'[c] = "live" => AsWanted(gs[c], h.want)'
    BY <1>6, <2>5, <2>6 DEF AsWanted, SameLevels
  <2>8. CASE ps # Unpatched
    <3>1. g.at = "update" /\ g.patch = ps
      BY <1>2, <2>1, <2>8
    <3>2. gs = PatchedCards(g.patch)'
      BY <1>6, <2>3, <3>1 DEF PatchedCards
    <3>3. \A d \in Cards : cards'[d] = "live" /\ d # c => gs[d] = held'[d]
      BY <1>6, <2>2, <2>4, EmptyPatch DEF RecordTypes
    <3>4. ASSUME OnePersonOneTeam(held)' PROVE OnePersonOneTeam(gs)'
      <4>1. PICK w : w = h.want
        OBVIOUS
      <4>2. cards'[c] = "live" => gs[c].name = w.name /\ gs[c].team = w.team
        BY <2>7, <4>1 DEF AsWanted
      <4>3. ASSUME NEW d \in Cards, cards'[d] = "live", d # c, cards'[c] = "live", held'[d].name = w.name
            PROVE  held'[d].team = w.team
        BY <1>6, <1>7, <2>6, <3>4, <4>1, <4>3 DEF SavedAs, Joins
      <4>4. w.name # NotSet
        BY <4>1
      <4> QED  BY <3>3, <3>4, <4>2, <4>3, <4>4, OneTeam
    <3>5. Updating'
      <4>1. job' = g /\ g.kind = "card" /\ g.oid = c /\ g.patch = ps /\ g.want = h.want
        BY <1>2, <1>6, <3>1
      <4>2. Done(g, gs)'
        BY <2>7, <4>1 DEF Done, AsWanted
      <4>3. gs = PatchedCards(job.patch)'
        BY <3>2, <4>1
      <4> QED  BY <3>4, <4>1, <4>2, <4>3 DEF Updating
    <3> QED  BY <1>2, <1>6, <3>1, <3>5 DEF GoalOK
  <2>9. CASE ps = Unpatched
    <3>1. g.at = "reload" /\ g.patch = Unpatched /\ CardPatch(h) = NoPatch
      BY <1>2, <2>1, <2>2, <2>9
    <3>2. cards[c] = "live"
      BY <1>7, <3>1 DEF SavedAs
    <3>3. gs[c] = held[c]
      BY <2>2, <2>4, <3>1, <3>2, EmptyPatch DEF RecordTypes
    <3>4. PICK f : f = held[c]
      OBVIOUS
    <3>5. AsWanted(f, h.want)' /\ held'[c] = f /\ cards'[c] = "live"
      BY <1>6, <2>7, <3>2, <3>3, <3>4
    <3>6. JobSettled(g)'
      BY <1>2, <3>5 DEF JobSettled, Done
    <3>7. ToldOf(g)'
      BY <1>2, <3>1 DEF ToldOf
    <3>8. JobSettled(job)' /\ ToldOf(job)'
      BY <1>6, <3>6, <3>7
    <3> QED  BY <1>2, <1>6, <3>1, <3>8 DEF GoalOK
  <2> QED  BY <2>8, <2>9
<1> QED  BY <1>2, <1>6, <1>7

\* A copy that is up to date but for the OIDs of the credentials that were found again.
LEMMA SameFacts ==
    ASSUME CardsAssumption, RecordTypes, RecordsOK, PageTypes, ViewsOK, SameRecords
    PROVE  /\ \A d \in Cards : cards[d] = "live" /\ held[d].name # NotSet => d \in People /\ cardsView.held[d] = held[d]
           /\ \A d \in People : cardsView.held[d].name # NotSet => cards[d] = "live" /\ held[d] = cardsView.held[d]
           /\ \A d \in People : \E e \in Cards : ShownCards[e] = "live" /\ held[e] = cardsView.held[d]
           /\ cardsView.groups = ShownGroups /\ Offered = LiveGroups \cap Named
<1>1. \A f : OnlyFound(f) => f.name = NotSet
  BY DEF OnlyFound, Credential
<1>2. /\ Edited(cardsView) = Edited(Listing) /\ Discovered(cardsView) = Discovered(Listing)
      /\ cardsView.groups = ShownGroups
  BY DEF SameRecords
<1>3. /\ Listing.cards = ShownCards
      /\ \A d \in Cards : ShownCards[d] = "live" => Listing.held[d] = held[d] /\ cards[d] = "live" /\ ~Unlisted(held[d])
      /\ \A d \in Cards : cards[d] = "live" /\ ~Unlisted(held[d]) => ShownCards[d] = "live"
  BY ListingFacts, ShownCardFacts
<1>4. PICK v : v = Listing
  OBVIOUS
<1>5. ASSUME NEW d \in Cards, cards[d] = "live", held[d].name # NotSet PROVE d \in People /\ cardsView.held[d] = held[d]
  <2>1. v.cards[d] = "live" /\ v.held[d] = held[d] /\ ~OnlyFound(v.held[d])
    BY <1>1, <1>3, <1>4, <1>5 DEF Unlisted
  <2>2. <<d, held[d]>> \in Edited(v)
    BY <2>1 DEF Edited
  <2>3. <<d, held[d]>> \in Edited(cardsView)
    BY <1>2, <1>4, <2>2
  <2>4. PICK c \in Cards : cardsView.cards[c] = "live" /\ <<d, held[d]>> = <<c, cardsView.held[c]>>
    BY <2>3 DEF Edited
  <2> QED  BY <2>4 DEF People
<1>6. ASSUME NEW d \in People, cardsView.held[d].name # NotSet PROVE cards[d] = "live" /\ held[d] = cardsView.held[d]
  <2>1. d \in Cards /\ cardsView.cards[d] = "live" /\ ~OnlyFound(cardsView.held[d])
    BY <1>1, <1>6 DEF People
  <2>2. <<d, cardsView.held[d]>> \in Edited(cardsView)
    BY <2>1 DEF Edited
  <2>3. <<d, cardsView.held[d]>> \in Edited(v)
    BY <1>2, <1>4, <2>2
  <2>4. PICK c \in Cards : v.cards[c] = "live" /\ <<d, cardsView.held[d]>> = <<c, v.held[c]>>
    BY <2>3 DEF Edited
  <2> QED  BY <1>3, <1>4, <2>4
<1>7. ASSUME NEW d \in People PROVE \E e \in Cards : ShownCards[e] = "live" /\ held[e] = cardsView.held[d]
  <2>1. d \in Cards /\ cardsView.cards[d] = "live"
    BY DEF People
  <2>2. CASE OnlyFound(cardsView.held[d])
    <3>1. cardsView.held[d] \in Discovered(cardsView)
      BY <2>1, <2>2 DEF Discovered
    <3>2. cardsView.held[d] \in Discovered(v)
      BY <1>2, <1>4, <3>1
    <3>3. PICK c \in Cards : v.cards[c] = "live" /\ cardsView.held[d] = v.held[c]
      BY <3>2 DEF Discovered
    <3> QED  BY <1>3, <1>4, <3>3
  <2>3. CASE ~OnlyFound(cardsView.held[d])
    <3>1. <<d, cardsView.held[d]>> \in Edited(cardsView)
      BY <2>1, <2>3 DEF Edited
    <3>2. <<d, cardsView.held[d]>> \in Edited(v)
      BY <1>2, <1>4, <3>1
    <3>3. PICK c \in Cards : v.cards[c] = "live" /\ <<d, cardsView.held[d]>> = <<c, v.held[c]>>
      BY <3>2 DEF Edited
    <3> QED  BY <1>3, <1>4, <3>3
  <2> QED  BY <2>2, <2>3
<1>8. Offered = LiveGroups \cap Named
  BY <1>2, ShownCardFacts DEF Offered, LiveGroups, Named
<1> QED  BY <1>2, <1>5, <1>6, <1>7, <1>8

\* The management group of a person there is, is that of all its credentials.
LEMMA TeamJoined ==
    ASSUME CardsAssumption, RecordTypes, RecordsOK, PageTypes, ViewsOK, SameRecords, OnePersonOneTeam(held),
           cardForm.name # NotSet, NEW t \in TeamsFor(cardForm.name, {cardForm.oid}, cardForm.team),
           NEW d \in Cards, cards[d] = "live", held[d].name = cardForm.name, d # cardForm.oid
    PROVE  held[d].team = t
<1>1. d \in People /\ cardsView.held[d] = held[d]
  BY SameFacts
<1>2. d \in Namesakes(cardForm.name, {cardForm.oid})
  BY <1>1 DEF Namesakes
<1>3. PICK e \in Namesakes(cardForm.name, {cardForm.oid}) : t = cardsView.held[e].team
  BY <1>2 DEF TeamsFor
<1>4. e \in People /\ cardsView.held[e].name = cardForm.name
  BY <1>3 DEF Namesakes
<1>5. cards[e] = "live" /\ held[e] = cardsView.held[e] /\ e \in Cards
  BY <1>4, SameFacts DEF People
<1> QED  BY <1>3, <1>4, <1>5 DEF OnePersonOneTeam, Live

LEMMA SaveCardKeeps ==
    ASSUME CardsAssumption, RecordTypes, RecordsOK, PageTypes, ViewsOK, FormsOK, JobIn(job), SaveCardClicked
    PROVE  PageTypes' /\ ViewsOK' /\ FormsOK' /\ RecordsMove /\ JobIn(job)' /\ (~job'.raced => GoalOK')
<1>1. PICK t \in TeamsFor(cardForm.name, {cardForm.oid}, cardForm.team) :
           LET want == [cardForm EXCEPT !.team = t]
               was == IF Known(cardForm.oid) THEN cardsView.held[cardForm.oid] ELSE Absent
           IN  IF /\ Proper(cardForm.levels)
                  /\ \A c \in People \ {cardForm.oid} : cardsView.held[c].number # cardForm.number
               THEN Goes(IF cardForm.oid = NewRecord THEN Job("card", "create", Absent, want)
                         ELSE IF was # Absent /\ was.number # NotSet THEN Job("card", "find", was, want)
                         ELSE CardChanges(Job("card", "update", was, want), cardForm.oid))
               ELSE cardForm' = want /\ UNCHANGED <<job, dialog, sheet, cardsLoad>>
  BY DEF SaveCardClicked
<1>2. PICK w : w = [cardForm EXCEPT !.team = t]
  OBVIOUS
<1>3. PICK b : b = IF Known(cardForm.oid) THEN cardsView.held[cardForm.oid] ELSE Absent
  OBVIOUS
<1>4. \/ /\ cardForm.oid = NewRecord
         /\ Goes(Job("card", "create", Absent, w))
      \/ /\ cardForm.oid # NewRecord /\ b # Absent /\ b.number # NotSet
         /\ Goes(Job("card", "find", b, w))
      \/ /\ cardForm.oid # NewRecord /\ ~(b # Absent /\ b.number # NotSet)
         /\ Goes(CardChanges(Job("card", "update", b, w), cardForm.oid))
      \/ cardForm' = w /\ UNCHANGED <<job, dialog, sheet, cardsLoad>>
  BY <1>1, <1>2, <1>3, Zenon
<1>5. /\ UNCHANGED <<cardServer, cardsView, cardEvents>> /\ job.at = "idle"
      /\ UNCHANGED <<cards, held, groups, rules, told>>
      /\ NotSet \notin {cardForm.name, cardForm.number, cardForm.term}
  BY DEF SaveCardClicked, cardServer
<1>6. /\ cardForm \in Forms /\ cardForm.oid \in Cards \cup {NewRecord} /\ cardForm.levels \subseteq Named
      /\ cardForm.oid \in Cards => cardForm.oid \in Registered /\ Kept(cardsView, cardForm.oid)
      /\ t \in Teams /\ cardForm.name \in Names
  <2>1. /\ cardForm \in Forms /\ cardForm.oid \in Cards \cup {NewRecord} /\ cardForm.team \in Teams
        /\ cardForm.name \in Names \cup {NotSet}
    BY DEF PageTypes, Forms
  <2>2. t \in Teams
    BY <1>1, <2>1, TeamsForTyped
  <2> QED  BY <1>5, <2>1, <2>2 DEF FormsOK, FormIn
<1>7. /\ w \in Forms /\ w.oid = cardForm.oid /\ w.name = cardForm.name /\ w.team = t /\ w.number = cardForm.number
      /\ w.term = cardForm.term /\ w.levels = cardForm.levels
  BY <1>2, <1>6 DEF Forms
<1>8. /\ b \in Fields \cup {Absent} /\ Absent \notin Fields
      /\ b # Absent <=> Known(cardForm.oid)
      /\ b # Absent => b = cardsView.held[cardForm.oid]
  BY <1>3, ViewFacts DEF CardsAssumption, Known
<1>9. NewRecord \notin Cards
  BY DEF CardsAssumption
<1>10. ASSUME NEW a \in {"create", "find", "update"}, NEW u \in Fields \cup {Absent}, NEW h, h = Job("card", a, u, w)
       PROVE  /\ IsJob(h) /\ PatchOK(h.patch) /\ h.at = a /\ h.kind = "card" /\ h.was = u /\ h.want = w /\ h.oid = w.oid
              /\ h.patch = Unpatched
              /\ ~h.raced => SameRecords /\ ~OlderLoad
  <2>1. PICK x : /\ Job("card", a, u, w) = JobOf(a, "card", w.oid, u, w, Unpatched, BlankRule, x)
                 /\ x = IF "card" = "card" THEN ~SameRecords \/ OlderLoad ELSE cardsView # Listing
    BY JobIs
  <2>2. x \in BOOLEAN /\ (~x => SameRecords /\ ~OlderLoad)
    BY <2>1
  <2>3. /\ h = JobOf(h.at, h.kind, h.oid, h.was, h.want, h.patch, h.rule, h.raced)
        /\ h.at = a /\ h.kind = "card" /\ h.oid = w.oid /\ h.was = u /\ h.want = w
        /\ h.patch = Unpatched /\ h.rule = BlankRule /\ h.raced = x
    BY <1>10, <2>1, JobOfIn
  <2>4. IsJob(h)
    BY <1>6, <1>7, <2>2, <2>3, NoPatchTyped, BlankTyped DEF IsJob, Stages
  <2>5. PatchOK(Unpatched)
    BY DEF PatchOK, Unpatched
  <2> QED  BY <2>2, <2>3, <2>4, <2>5
<1>11. ASSUME NEW h, JobIn(h), Goes(h), h.at # "reload"
       PROVE  /\ PageTypes' /\ ViewsOK' /\ FormsOK' /\ RecordsMove /\ JobIn(job)' /\ job' = h
              /\ UNCHANGED <<dialog, cardForm, sheet, cardsLoad>>
  BY <1>5, <1>11, Started, PageKeeps, GoesFacts
<1>12. ASSUME SameRecords, ~OlderLoad, UNCHANGED cardsLoad PROVE GroupsKnown'
  <2>1. ShownGroups' = ShownGroups
    BY <1>5 DEF ShownGroups
  <2> QED  BY <1>5, <1>12, <2>1, SameFacts DEF GroupsKnown, OlderLoad
<1>13. ASSUME SameRecords, OnePersonOneTeam(held), NEW d \in Cards, cards[d] = "live", held[d].name = w.name, d # cardForm.oid
       PROVE  held[d].team = w.team
  <2>1. t \in TeamsFor(cardForm.name, {cardForm.oid}, cardForm.team)
    BY <1>1
  <2>2. cardForm.name # NotSet /\ held[d].name = cardForm.name
    BY <1>5, <1>7, <1>13
  <2> QED  BY <1>7, <1>13, <2>1, <2>2, TeamJoined
<1>14. Live' = Live /\ LiveGroups' = LiveGroups /\ (OnePersonOneTeam(held)' <=> OnePersonOneTeam(held))
  BY <1>5 DEF Live, LiveGroups, OnePersonOneTeam
<1>15. CASE cardForm.oid = NewRecord /\ Goes(Job("card", "create", Absent, w))
  <2>1. PICK h : h = Job("card", "create", Absent, w)
    OBVIOUS
  <2>2. /\ IsJob(h) /\ PatchOK(h.patch) /\ h.at = "create" /\ h.kind = "card" /\ h.was = Absent /\ h.want = w
        /\ h.patch = Unpatched
        /\ ~h.raced => SameRecords /\ ~OlderLoad
    BY <1>10, <2>1
  <2>3. JobIn(h)
    BY <1>5, <1>6, <1>7, <2>2 DEF JobIn, CardJob, Unpatched
  <2>4. /\ PageTypes' /\ ViewsOK' /\ FormsOK' /\ RecordsMove /\ JobIn(job)' /\ job' = h
        /\ UNCHANGED <<dialog, cardForm, sheet, cardsLoad>>
    BY <1>11, <1>15, <2>1, <2>2, <2>3
  <2>5. ASSUME SameRecords, ~OlderLoad PROVE GoalOK'
    <3>1. Joins(job.want, Cards)'
      BY <1>5, <1>9, <1>13, <1>14, <1>15, <2>2, <2>4, <2>5 DEF Joins
    <3> QED  BY <1>7, <1>12, <2>2, <2>4, <2>5, <3>1 DEF GoalOK
  <2> QED  BY <2>2, <2>4, <2>5
<1>16. CASE cardForm.oid # NewRecord /\ b # Absent /\ b.number # NotSet /\ Goes(Job("card", "find", b, w))
  <2>1. PICK h : h = Job("card", "find", b, w)
    OBVIOUS
  <2>2. /\ IsJob(h) /\ PatchOK(h.patch) /\ h.at = "find" /\ h.kind = "card" /\ h.was = b /\ h.want = w
        /\ h.patch = Unpatched
        /\ ~h.raced => SameRecords /\ ~OlderLoad
    BY <1>8, <1>10, <2>1
  <2>3. JobIn(h)
    BY <1>5, <1>6, <1>7, <1>8, <1>16, <2>2 DEF JobIn, CardJob, Unpatched
  <2>4. /\ PageTypes' /\ ViewsOK' /\ FormsOK' /\ RecordsMove /\ JobIn(job)' /\ job' = h
        /\ UNCHANGED <<dialog, cardForm, sheet, cardsLoad>>
    BY <1>11, <1>16, <2>1, <2>2, <2>3
  <2>5. ASSUME SameRecords, ~OlderLoad PROVE GoalOK'
    <3>1. cardForm.oid \in People /\ b = cardsView.held[cardForm.oid]
      <4>1. cardForm.oid \in Cards /\ b = cardsView.held[cardForm.oid]
        BY <1>6, <1>8, <1>16
      <4>2. BlankCard.number = NotSet
        BY DEF BlankCard, Credential
      <4> QED  BY <1>16, <4>1, <4>2 DEF ViewsOK, ViewOK, People
    <3>2. PICK e \in Cards : ShownCards[e] = "live" /\ held[e] = b
      BY <2>5, <3>1, SameFacts
    <3>3. ShownCards' = ShownCards
      BY <1>5 DEF ShownCards
    <3>4. ASSUME OnePersonOneTeam(held), NEW d \in Cards, held[d].number # b.number, cards[d] = "live", held[d].name = w.name
          PROVE  held[d].team = w.team
      <4>1. cardsView.held[d] = held[d]
        BY <1>5, <1>7, <2>5, <3>4, SameFacts
      <4>2. d # cardForm.oid
        BY <3>1, <3>4, <4>1
      <4> QED  BY <1>13, <2>5, <3>4, <4>2
    <3>5. Joins(job.want, {d \in Cards : held[d].number # job.was.number})'
      BY <1>5, <1>14, <2>2, <2>4, <3>4 DEF Joins
    <3>6. Finding'
      BY <1>5, <2>2, <2>4, <3>2, <3>3, <3>5 DEF Finding
    <3> QED  BY <1>7, <1>12, <2>2, <2>4, <2>5, <3>6 DEF GoalOK
  <2> QED  BY <2>2, <2>4, <2>5
<1>17. CASE /\ cardForm.oid # NewRecord /\ ~(b # Absent /\ b.number # NotSet)
            /\ Goes(CardChanges(Job("card", "update", b, w), cardForm.oid))
  <2>1. PICK h : h = Job("card", "update", b, w)
    OBVIOUS
  <2>2. /\ IsJob(h) /\ h.at = "update" /\ h.kind = "card" /\ h.was = b /\ h.want = w
        /\ ~h.raced => SameRecords /\ ~OlderLoad
    BY <1>8, <1>10, <2>1
  <2>3. PICK c : c = cardForm.oid
    OBVIOUS
  <2>4. c \in Cards /\ c \in Registered /\ Kept(cardsView, c)
    BY <1>6, <1>17, <2>3
  <2>5. Goes(CardChanges(h, c))
    BY <1>17, <2>1, <2>3
  <2>6. PageStays /\ RecordsMove /\ JobIn(job)' /\ job'.raced = h.raced /\ (SavedAs(h, c) => GoalOK')
    <3>1. /\ h.want \in Forms /\ NotSet \notin {h.want.name, h.want.number, h.want.term}
          /\ h.want.levels \subseteq Named /\ h.was \in Fields \cup {Absent}
      BY <1>5, <1>6, <1>7, <1>8, <2>2
    <3> QED  BY <1>5, <2>2, <2>4, <2>5, <3>1, ChangesGo
  <2>7. PageTypes' /\ ViewsOK' /\ FormsOK'
    BY <2>6, PageKeeps
  <2>8. ASSUME SameRecords PROVE SavedAs(h, c)
    <3>1. CardPatch(h) # NoPatch
      <4>1. WasOf(h).number \in {Absent, NotSet}
        BY <1>17, <2>2 DEF WasOf, Unknown, Credential
      <4>2. h.want.number \in Numbers
        BY <1>5, <1>7, <2>2 DEF Forms
      <4>3. CardPatch(h).number # Absent
        BY <4>1, <4>2 DEF CardPatch, Differing, CardsAssumption
      <4> QED  BY <4>3 DEF NoPatch
    <3>2. ASSUME cards[c] = "live" PROVE h.was = held[c] /\ Joins(h.want, Cards \ {c})
      <4>1. cardsView.cards[c] # "none"
        BY <2>4, <3>2 DEF Kept
      <4>2. b = cardsView.held[c] /\ b # Absent
        BY <1>8, <2>3, <2>4, <4>1 DEF Known
      <4>3. cardsView.cards[c] = "live"
        BY <2>4, <3>2, <4>1, ViewFacts DEF ViewsOK, ViewOK
      <4>4. c \in People /\ b.name # NotSet
        BY <1>17, <2>4, <4>2, <4>3 DEF People, ViewsOK, ViewOK, Unlisted
      <4>5. held[c] = b
        BY <2>8, <4>2, <4>4, SameFacts
      <4>6. Joins(h.want, Cards \ {c})
        BY <1>13, <2>2, <2>3, <2>8 DEF Joins
      <4> QED  BY <2>2, <4>5, <4>6
    <3> QED  BY <1>7, <2>2, <2>8, <3>1, <3>2, SameFacts DEF SavedAs
  <2> QED  BY <2>2, <2>6, <2>7, <2>8
<1>18. CASE cardForm' = w /\ UNCHANGED <<job, dialog, sheet, cardsLoad>>
  <2>1. RecordsMove
    BY <1>5, QuietMoves
  <2>2. JobIn(job)'
    <3>1. PICK h : h = job
      OBVIOUS
    <3>2. JobIn(h)'
      BY <2>1, <3>1, JobKept
    <3> QED  BY <1>18, <3>1, <3>2
  <2>3. GoalOK'
    BY <1>5, <1>18, IdleGoal DEF GoalOK
  <2>4. Registered' = Registered /\ Named' = Named
    BY <1>5 DEF Registered, Named
  <2>5. ViewsOK'
    BY <1>5, <1>18, <2>1, ViewsKept
  <2>6. PageTypes'
    BY <1>5, <1>7, <1>18 DEF PageTypes
  <2>7. FormIn(cardForm)' /\ SheetIn(sheet)'
    BY <1>5, <1>7, <1>18, <2>4 DEF FormsOK, FormIn, SheetIn, Kept
  <2>8. FormsOK'
    BY <1>18, <2>7 DEF FormsOK
  <2> QED  BY <2>1, <2>2, <2>3, <2>5, <2>6, <2>8
<1> QED  BY <1>4, <1>15, <1>16, <1>17, <1>18

LEMMA FoundKeeps ==
    ASSUME CardsAssumption, RecordTypes, RecordsOK, PageTypes, ViewsOK, JobIn(job), CardFound
    PROVE  PageStays /\ RecordsMove /\ JobIn(job)' /\ (~job.raced /\ GoalOK => GoalOK') /\ job'.raced = job.raced
<1>1. PICK c \in Found(job) : Goes(CardChanges(job, c))
  BY DEF CardFound
<1>2. job.at = "find" /\ UNCHANGED <<cardServer, cardsView, cardEvents>>
  BY DEF CardFound
<1>3. c \in Cards /\ ShownCards[c] = "live" /\ held[c].number = job.was.number
  BY <1>1 DEF Found
<1>4. cards[c] = "live" /\ c \in Registered
  BY <1>3, ShownCardFacts DEF Registered
<1>5. /\ IsJob(job) /\ job.kind = "card" /\ job.want \in Forms /\ job.want.levels \subseteq Named
      /\ NotSet \notin {job.want.name, job.want.number, job.want.term} /\ job.was \in Fields \cup {Absent}
      /\ job.was.number # NotSet
  BY <1>2, StageOf DEF JobIn, CardJob
<1>6. PageStays /\ RecordsMove /\ JobIn(job)' /\ job'.raced = job.raced /\ (SavedAs(job, c) => GoalOK')
  <2>1. PICK h : h = job
    OBVIOUS
  <2>2. /\ IsJob(h) /\ h.kind = "card" /\ h.want \in Forms /\ h.want.levels \subseteq Named
        /\ NotSet \notin {h.want.name, h.want.number, h.want.term} /\ h.was \in Fields \cup {Absent}
        /\ Goes(CardChanges(h, c))
    BY <1>1, <1>5, <2>1
  <2>3. PageStays /\ RecordsMove /\ JobIn(job)' /\ job'.raced = h.raced /\ (SavedAs(h, c) => GoalOK')
    BY <1>2, <1>3, <1>4, <2>2, ChangesGo
  <2> QED  BY <2>1, <2>3
<1>7. ASSUME GoalOK PROVE SavedAs(job, c)
  <2>1. GroupsKnown /\ cardForm.term = job.want.term /\ Finding
    BY <1>2, <1>7 DEF GoalOK
  <2>2. PICK e \in Cards : ShownCards[e] = "live" /\ held[e] = job.was
    BY <2>1 DEF Finding
  <2>3. e = c
    <3>1. cards[e] = "live"
      BY <2>2, ShownCardFacts
    <3> QED  BY <1>3, <1>4, <1>5, <2>2, <3>1 DEF RecordsOK, NumbersDiffer
  <2>4. ASSUME OnePersonOneTeam(held), NEW d \in Cards \ {c}, cards[d] = "live", held[d].name = job.want.name
        PROVE  held[d].team = job.want.team
    <3>1. held[d].number # job.was.number
      BY <1>3, <1>4, <1>5, <2>4 DEF RecordsOK, NumbersDiffer
    <3> QED  BY <2>1, <2>4, <3>1 DEF Finding, Joins
  <2>5. Joins(job.want, Cards \ {c})
    BY <2>4 DEF Joins
  <2>6. Offered = LiveGroups \cap Named
    BY <2>1, ShownCardFacts DEF GroupsKnown, Offered, LiveGroups, Named
  <2> QED  BY <1>4, <2>1, <2>2, <2>3, <2>5, <2>6 DEF SavedAs
<1> QED  BY <1>6, <1>7

LEMMA CreatedKeeps ==
    ASSUME CardsAssumption, RecordTypes, RecordsOK, PageTypes, ViewsOK, JobIn(job), CardCreated
    PROVE  /\ PageStays /\ RecordsMove /\ JobIn(job)' /\ (~job.raced /\ GoalOK => GoalOK') /\ job'.raced = job.raced
           /\ job'.at = "update"
<1>1. PICK c \in Cards : CreateCard(c) /\ Goes(CardChanges(job, c))
  BY DEF CardCreated
<1>2. job.at = "create" /\ UNCHANGED <<cardsView, cardEvents>>
  BY DEF CardCreated
<1>3. /\ cards[c] = "none" /\ cards' = [cards EXCEPT ![c] = "live"] /\ UNCHANGED <<held, groups, rules, told>>
      /\ cards'[c] = "live" /\ \A d \in Cards : d # c => cards'[d] = cards[d]
      /\ held[c] = BlankCard
  BY <1>1 DEF CreateCard, RecordTypes, RecordsOK
<1>4. RecordsMove
  BY <1>1, CreateCardMoves
<1>5. /\ IsJob(job) /\ job.kind = "card" /\ job.want \in Forms /\ job.want.levels \subseteq Named
      /\ NotSet \notin {job.want.name, job.want.number, job.want.term} /\ job.was = Absent
  BY <1>2, StageOf DEF JobIn, CardJob
<1>6. PICK h : h = job
  OBVIOUS
<1>7. /\ IsJob(h) /\ h.kind = "card" /\ h.want \in Forms /\ h.want.levels \subseteq Named
      /\ NotSet \notin {h.want.name, h.want.number, h.want.term} /\ h.was = Absent /\ h.was \in Fields \cup {Absent}
  BY <1>5, <1>6
<1>8. PICK g : g = CardChanges(h, c)
  OBVIOUS
<1>9. /\ IsJob(g) /\ PatchOK(g.patch) /\ g.kind = "card" /\ g.oid = c /\ g.was = h.was /\ g.want = h.want
      /\ g.patch = CardPatches(h, c) /\ g.raced = h.raced
      /\ g.at = IF CardPatches(h, c) # Unpatched THEN "update" ELSE "reload"
      /\ \A d \in Cards : g.patch[d] # NoPatch => d = c
  BY <1>7, <1>8, CardChangesIn
<1>10. PICK ps : ps = CardPatches(h, c)
  OBVIOUS
<1>11. /\ ps \in [Cards -> Patches] /\ PatchOK(ps) /\ ps[c] = CardPatch(h) /\ (\A d \in Cards : d # c => ps[d] = NoPatch)
       /\ ps # Unpatched
  BY <1>7, <1>10, CardPatchesFacts
<1>12. g.at = "update" /\ g.patch = ps
  BY <1>9, <1>10, <1>11
<1>13. job' = g /\ UNCHANGED <<dialog, cardForm, sheet, cardsLoad>> /\ PageStays
  BY <1>1, <1>2, <1>6, <1>8, <1>12, GoesFacts, GoesStays
<1>14. JobIn(g)'
  <2>1. Named' = Named
    BY <1>3 DEF Named
  <2>2. PatchOK(ps)'
    BY <1>4, <1>11, <2>1 DEF PatchOK, RecordsMove
  <2>3. IsJob(g)'
    BY <1>9 DEF IsJob, Stages
  <2>4. CardJob(g)'
    BY <1>3, <1>7, <1>9, <1>12 DEF CardJob
  <2> QED  BY <1>7, <1>9, <1>12, <2>1, <2>2, <2>3, <2>4 DEF JobIn
<1>15. ASSUME GoalOK PROVE GoalOK'
  <2>1. GroupsKnown /\ cardForm.term = h.want.term /\ Joins(h.want, Cards)
    BY <1>2, <1>6, <1>15 DEF GoalOK
  <2>2. Offered = LiveGroups \cap Named
    BY <2>1, ShownCardFacts DEF GroupsKnown, Offered, LiveGroups, Named
  <2>3. PICK f : f = FieldsWith(BlankCard, CardPatch(h))
    OBVIOUS
  <2>4. AsWanted(f, h.want)
    <3>1. BlankCard \in Fields /\ BlankCard.levels = {}
      BY BlankTyped DEF BlankCard, Credential
    <3> QED  BY <1>7, <2>1, <2>2, <2>3, <3>1, WantedPatch
  <2>5. PICK gs : gs = PatchedCards(ps)'
    OBVIOUS
  <2>6. \A d \in Cards : gs[d] = IF cards'[d] = "live" THEN FieldsWith(held[d], ps[d]) ELSE held[d]
    BY <1>3, <2>5 DEF PatchedCards
  <2>7. gs[c] = f /\ (\A d \in Cards : d # c => gs[d] = held'[d])
    BY <1>3, <1>11, <2>3, <2>6, EmptyPatch DEF RecordTypes
  <2>8. AsWanted(f, h.want)'
    BY <1>3, <2>4 DEF AsWanted, SameLevels, LiveGroups
  <2>9. Done(g, gs)'
    BY <1>7, <1>9, <2>7, <2>8 DEF Done, AsWanted
  <2>10. ASSUME OnePersonOneTeam(held)' PROVE OnePersonOneTeam(gs)'
    <3>1. OnePersonOneTeam(held)
      <4>1. \A d \in Live : d \in Live'
        BY <1>3 DEF Live
      <4> QED  BY <1>3, <2>10, <4>1 DEF OnePersonOneTeam
    <3>2. PICK w : w = h.want
      OBVIOUS
    <3>3. gs[c].name = w.name /\ gs[c].team = w.team /\ w.name # NotSet
      BY <1>7, <2>4, <2>7, <3>2 DEF AsWanted
    <3>4. ASSUME NEW d \in Cards, cards'[d] = "live", d # c, held'[d].name = w.name PROVE held'[d].team = w.team
      BY <1>3, <2>1, <3>1, <3>2, <3>4 DEF Joins
    <3> QED  BY <2>7, <2>10, <3>3, <3>4, OneTeam
  <2>11. Updating'
    <3>1. gs = PatchedCards(job.patch)'
      BY <1>12, <1>13, <2>5
    <3> QED  BY <1>13, <2>9, <2>10, <3>1 DEF Updating
  <2> QED  BY <1>9, <1>12, <1>13, <2>11, <1>7 DEF GoalOK
<1> QED  BY <1>4, <1>6, <1>9, <1>12, <1>13, <1>14, <1>15

-----------------------------------------------------------------------------
(* The invariant. *)

LEMMA CardsStart ==
    ASSUME CardsAssumption, CardsInit PROVE CardsOK
<1>1. /\ held \in Loaded /\ cards = Made(held) /\ rules = LoadedRules /\ told = TRUE
      /\ groups = [l \in Groups |-> IF rules[l] = BlankRule THEN "none" ELSE "live"]
      /\ cardsView = Listing /\ cardsLoad = [at |-> "idle", view |-> cardsView]
      /\ dialog = {} /\ cardForm = EmptyForm /\ sheet = EmptySheet /\ job = NoJob /\ cardEvents = 0
  BY DEF CardsInit
<1>2. /\ held \in [Cards -> Fields] /\ NumbersDiffer(Made(held), held) /\ rules \in [Groups -> Rules]
      /\ \A c \in Cards : /\ held[c] = BlankCard \/ ~Unlisted(held[c])
                          /\ \A l \in held[c].levels : rules[l].title # NotSet
      /\ MaxCardEvents \in Nat
  BY <1>1 DEF CardsAssumption
<1>3. RecordTypes
  <2>1. cards \in [Cards -> {"none", "live", "deleted", "gone"}]
    BY <1>1 DEF Made
  <2> QED  BY <1>1, <1>2, <2>1 DEF RecordTypes
<1>4. RecordsOK
  <2>1. NumbersDiffer(cards, held)
    BY <1>1, <1>2
  <2>2. \A c \in Cards : cards[c] = "none" \/ (cards[c] = "live" /\ Unlisted(held[c])) => held[c] = BlankCard
    BY <1>1, <1>2 DEF Made
  <2>3. \A c \in Cards : held[c].levels \subseteq Named
    BY <1>2 DEF Fields, Named
  <2> QED  BY <2>1, <2>2, <2>3 DEF RecordsOK
<1>5. Listing \in Views /\ ViewOK(Listing)
  BY <1>3, <1>4, ListingFacts
<1>6. PageTypes
  <2>1. cardEvents \in 0..MaxCardEvents /\ dialog \in SUBSET {"card", "level"}
    BY <1>1, <1>2
  <2> QED  BY <1>1, <1>5, <2>1, EmptyForms DEF PageTypes
<1>7. ViewsOK
  <2>1. cardsLoad.view = cardsView
    BY <1>1
  <2>2. ViewOK(cardsView) /\ ViewOK(cardsLoad.view)
    BY <1>1, <1>5, <2>1
  <2> QED  BY <2>1, <2>2 DEF ViewsOK, Kept
<1>8. FormsOK
  BY <1>1, EmptyForms DEF FormsOK
<1>9. JobIn(job) /\ job.at = "idle"
  BY <1>1, NoJobIn DEF NoJob
<1> QED  BY <1>3, <1>4, <1>6, <1>7, <1>8, <1>9, IdleGoal DEF CardsOK

LEMMA OpenersKeep ==
    ASSUME CardsAssumption, RecordTypes, RecordsOK, PageTypes, ViewsOK, FormsOK, JobIn(job),
           EditCard \/ FillCardForm \/ EditPerson \/ ManageAccess \/ ManageTeams \/ EditGroup
    PROVE  PageTypes' /\ ViewsOK' /\ FormsOK' /\ RecordsMove /\ JobIn(job)' /\ (~job'.raced => GoalOK') /\ job' = Raced
<1>1. CardEvent /\ job' = Raced
  BY DEF EditCard, FillCardForm, EditPerson, ManageAccess, ManageTeams, EditGroup
<1>2. RecordsMove
  BY <1>1, QuietMoves DEF CardEvent
<1>3. PageTypes' /\ ViewsOK' /\ FormsOK'
  BY EditCardKeeps, FillCardFormKeeps, SheetDialogsKeep
<1> QED  BY <1>1, <1>2, <1>3, RacedKeeps

LEMMA ClicksKeep ==
    ASSUME CardsAssumption, RecordTypes, RecordsOK, PageTypes, ViewsOK, FormsOK, JobIn(job), CardClicks
    PROVE  /\ PageTypes' /\ ViewsOK' /\ FormsOK' /\ RecordsMove /\ JobIn(job)' /\ (~job'.raced => GoalOK')
           /\ UNCHANGED <<cards, held, groups, rules>>
<1>1. UNCHANGED <<cards, held, groups, rules>>
  BY DEF CardClicks, SaveCardClicked, DeleteCardClicked, SaveBulkClicked, SavePersonClicked, SaveTeamClicked,
         SaveGroupClicked, DeleteGroupClicked, cardServer
<1>2. CASE SaveCardClicked
  BY <1>1, <1>2, SaveCardKeeps
<1>3. CASE DeleteCardClicked
  BY <1>1, <1>3, EraseKeeps, PageKeeps
<1>4. CASE SaveBulkClicked
  BY <1>1, <1>4, SaveBulkKeeps, PageKeeps
<1>5. CASE SavePersonClicked
  BY <1>1, <1>5, SavePersonKeeps, PageKeeps
<1>6. CASE SaveTeamClicked
  BY <1>1, <1>6, SaveTeamKeeps, PageKeeps
<1>7. CASE SaveGroupClicked
  BY <1>1, <1>7, SaveGroupKeeps, PageKeeps
<1>8. CASE DeleteGroupClicked
  BY <1>1, <1>8, DropKeeps, PageKeeps
<1> QED  BY <1>2, <1>3, <1>4, <1>5, <1>6, <1>7, <1>8 DEF CardClicks

LEMMA AnswersKeep ==
    ASSUME CardsAssumption, RecordTypes, RecordsOK, PageTypes, ViewsOK, FormsOK, JobIn(job), ~job.raced => GoalOK, CardAnswers
    PROVE  /\ PageTypes' /\ ViewsOK' /\ FormsOK' /\ RecordsMove /\ JobIn(job)' /\ (~job'.raced => GoalOK')
           /\ job'.at = "reload" => /\ UNCHANGED <<cards, groups>>
                                    /\ held' = held \/ job'.kind \in {"person", "team"}
<1>1. CASE CardFound
  <2>1. UNCHANGED <<cards, held, groups>>
    BY <1>1 DEF CardFound, cardServer
  <2> QED  BY <1>1, <2>1, FoundKeeps, PageKeeps
<1>2. CASE CardCreated
  BY <1>2, CreatedKeeps, PageKeeps
<1>3. CASE CardErased \/ GroupErased
  BY <1>3, ErasedKeeps, PageKeeps
<1>4. CASE UpdateServed
  <2>1. UNCHANGED <<cards, groups>>
    BY <1>4 DEF UpdateServed, UpdateCards
  <2> QED  BY <1>4, <2>1, PatchKeeps, PageKeeps
<1>5. CASE RulesServed
  <2>1. UNCHANGED <<cards, held, groups>>
    BY <1>5 DEF RulesServed, SynchronizeACL
  <2> QED  BY <1>5, <2>1, RulesKeeps, PageKeeps
<1>6. CASE GroupServed
  BY <1>6, GroupServedKeeps, PageKeeps
<1>7. CASE GroupsRefreshed
  <2>1. job'.at = "idle"
    BY <1>7 DEF GroupsRefreshed, NoJob
  <2> QED  BY <1>7, <2>1, RefreshedKeeps
<1>8. CASE JobFails \/ Reloaded
  <2>1. job'.at = "idle"
    BY <1>8 DEF JobFails, Reloaded, NoJob
  <2> QED  BY <1>8, <2>1, FailsKeeps, PageKeeps
<1> QED  BY <1>1, <1>2, <1>3, <1>4, <1>5, <1>6, <1>7, <1>8 DEF CardAnswers

LEMMA CardsStep ==
    ASSUME CardsAssumption, CardsOK, CardsNext
    PROVE  /\ CardsOK'
           /\ job'.at = "reload" /\ job.at # "reload" =>
                /\ UNCHANGED <<cards, groups>>
                /\ held' = held \/ job'.kind \in {"person", "team"}
<1>1. RecordTypes /\ PageTypes /\ RecordsOK /\ ViewsOK /\ FormsOK /\ JobIn(job) /\ (~job.raced => GoalOK)
  BY DEF CardsOK
<1>2. Raced.at = job.at
  BY <1>1, RacedIn
<1>3. CASE PollCards \/ ReadCards \/ CardsArrive \/ CardsLoadFails \/ CloseDialog
  <2>1. PageTypes' /\ ViewsOK' /\ FormsOK' /\ RecordsMove /\ JobIn(job)' /\ job' = job /\ (GoalOK => GoalOK')
    BY <1>1, <1>3, LoadsKeep
  <2> QED  BY <1>1, <2>1 DEF CardsOK, RecordsMove
<1>4. CASE EditCard \/ FillCardForm \/ EditPerson \/ ManageAccess \/ ManageTeams \/ EditGroup
  <2>1. PageTypes' /\ ViewsOK' /\ FormsOK' /\ RecordsMove /\ JobIn(job)' /\ (~job'.raced => GoalOK') /\ job' = Raced
    BY <1>1, <1>4, OpenersKeep
  <2> QED  BY <1>2, <2>1 DEF CardsOK, RecordsMove
<1>5. CASE CardClicks
  <2>1. /\ PageTypes' /\ ViewsOK' /\ FormsOK' /\ RecordsMove /\ JobIn(job)' /\ (~job'.raced => GoalOK')
        /\ UNCHANGED <<cards, held, groups, rules>>
    BY <1>1, <1>5, ClicksKeep
  <2> QED  BY <2>1 DEF CardsOK, RecordsMove
<1>6. CASE CardAnswers
  <2>1. /\ PageTypes' /\ ViewsOK' /\ FormsOK' /\ RecordsMove /\ JobIn(job)' /\ (~job'.raced => GoalOK')
        /\ job'.at = "reload" => UNCHANGED <<cards, groups>> /\ (held' = held \/ job'.kind \in {"person", "team"})
    BY <1>1, <1>6, AnswersKeep
  <2> QED  BY <2>1 DEF CardsOK, RecordsMove
<1>7. CASE CardsElsewhere
  <2>1. PageStays /\ RecordsMove /\ JobIn(job)' /\ (~job'.raced => GoalOK') /\ job' = Raced
    BY <1>1, <1>7, ElsewhereKeeps DEF CardsElsewhere
  <2>2. PageTypes' /\ ViewsOK' /\ FormsOK'
    BY <1>1, <2>1, PageKeeps
  <2> QED  BY <1>2, <2>1, <2>2 DEF CardsOK, RecordsMove
<1>8. CASE Rediscovered
  <2>1. PageStays /\ RecordsMove /\ JobIn(job)' /\ (~job'.raced => GoalOK') /\ job' \in {job, Raced}
    BY <1>1, <1>8, RediscoveredKeeps DEF Rediscovered
  <2>2. PageTypes' /\ ViewsOK' /\ FormsOK'
    BY <1>1, <2>1, PageKeeps
  <2> QED  BY <1>2, <2>1, <2>2 DEF CardsOK, RecordsMove
<1> QED  BY <1>3, <1>4, <1>5, <1>6, <1>7, <1>8 DEF CardsNext, CardDialogs

LEMMA CardsStutter ==
    ASSUME CardsOK, UNCHANGED cardVars PROVE CardsOK'
<1>1. /\ UNCHANGED <<cards, held, groups, rules, told>> /\ UNCHANGED cardServer
      /\ UNCHANGED <<cardsView, cardsLoad, dialog, cardForm, sheet, job, cardEvents>>
  BY DEF cardVars, cardServer
<1>2. RecordTypes /\ PageTypes /\ RecordsOK /\ ViewsOK /\ FormsOK /\ JobIn(job) /\ (~job.raced => GoalOK)
  BY DEF CardsOK
<1>3. RecordsMove
  BY <1>1, <1>2, QuietMoves
<1>4. PageTypes' /\ ViewsOK'
  BY <1>1, <1>2, <1>3, ViewsKept DEF PageTypes
<1>5. FormsOK'
  <2>1. Registered' = Registered /\ Named' = Named
    BY <1>1 DEF Registered, Named
  <2>2. FormIn(cardForm)' /\ SheetIn(sheet)'
    BY <1>1, <1>2, <2>1 DEF FormsOK, FormIn, SheetIn, Kept
  <2> QED  BY <1>1, <1>2, <2>2 DEF FormsOK
<1>6. JobIn(job)'
  <2>1. PICK h : h = job
    OBVIOUS
  <2>2. JobIn(h)'
    BY <1>2, <1>3, <2>1, JobKept
  <2> QED  BY <1>1, <2>1, <2>2
<1>7. ASSUME GoalOK PROVE GoalOK'
  <2>1. GroupsKnown => GroupsKnown'
    BY <1>1 DEF GroupsKnown, ShownGroups
  <2>2. job.at \in {"find", "create"} => GroupsKnown
    BY <1>7 DEF GoalOK
  <2> QED  BY <1>1, <1>7, <2>1, <2>2, QuietGoal
<1> QED  BY <1>1, <1>2, <1>3, <1>4, <1>5, <1>6, <1>7 DEF CardsOK, RecordsMove

LEMMA CardsTyped ==
    ASSUME CardsOK PROVE CardsTypeOK
<1>1. JobIn(job)
  BY DEF CardsOK
<1>2. JobTypeOK
  <2>1. /\ job.at \in {"idle", "find", "create", "update", "erase", "createlevel", "updatelevel", "eraselevel",
                       "rules", "levels", "reload"}
        /\ job.kind \in {"none", "card", "erase", "bulk", "person", "team", "level", "drop"}
        /\ job.at = "idle" <=> job.kind = "none"
    BY <1>1, StageOf DEF JobIn, IsJob
  <2>2. job.was \in Fields \cup Rules \cup {Absent} /\ job.want \in Forms \cup Sheets
    BY <1>1 DEF JobIn, CardJob, LevelJob
  <2> QED  BY <1>1, <2>1, <2>2 DEF JobTypeOK, JobIn, IsJob
<1> QED  BY <1>2 DEF CardsOK, CardsTypeOK, RecordTypes, PageTypes

-----------------------------------------------------------------------------
(* What is reported. *)

LEMMA SettledReports ==
    ASSUME NEW h, JobSettled(h)', ToldOf(h)', UNCHANGED <<cards, groups>>,
           held' = held \/ h.kind \in {"person", "team"}
    PROVE  /\ h.kind = "card" =>
                /\ cards[h.oid] = "live"
                /\ held[h.oid].name = h.want.name /\ held[h.oid].number = h.want.number
                /\ held[h.oid].team = h.want.team /\ held[h.oid].term = h.want.term
                /\ SameLevels(held[h.oid].levels, h.want.levels)
                /\ h.patch # Unpatched => told'
           /\ h.kind = "erase" => cards[h.want.oid] # "live" /\ told'
           /\ h.kind = "person" => \A c \in h.want.oids \cap Live : held'[c].name = h.want.name /\ held'[c].team = h.want.team
           /\ h.kind = "team" => \A c \in Live : held'[c].team # h.want.from
           /\ h.kind = "bulk" => told' /\ AssignedIn(held, h.want)
           /\ h.kind = "drop" => groups[h.want.oid] # "live" /\ Dropped(held, h.want) /\ told'
<1>1. cards' = cards /\ groups' = groups
  OBVIOUS
<1>2. LiveGroups' = LiveGroups /\ Live' = Live
  BY <1>1 DEF LiveGroups, Live
<1>3. CASE h.kind = "card"
  <2>1. held' = held /\ cards'[h.oid] = "live" /\ (h.patch # Unpatched => told')
    BY <1>3 DEF JobSettled, ToldOf
  <2>2. AsWanted(held[h.oid], h.want)'
    BY <1>3, <2>1 DEF JobSettled, Done
  <2> QED  BY <1>1, <1>2, <1>3, <2>1, <2>2 DEF AsWanted, SameLevels
<1>4. CASE h.kind = "erase"
  BY <1>1, <1>4 DEF JobSettled, ToldOf
<1>5. CASE h.kind = "person"
  BY <1>2, <1>5 DEF JobSettled, Done, PersonIn
<1>6. CASE h.kind = "team"
  BY <1>2, <1>6 DEF JobSettled, Done, LeftTeam
<1>7. CASE h.kind = "bulk"
  <2>1. held' = held /\ told' /\ AssignedIn(held, h.want)'
    BY <1>7 DEF JobSettled, ToldOf, Done
  <2> QED  BY <1>2, <1>7, <2>1 DEF AssignedIn, SameLevels
<1>8. CASE h.kind = "drop"
  <2>1. held' = held /\ told' /\ groups'[h.want.oid] # "live" /\ Dropped(held, h.want)'
    BY <1>8 DEF JobSettled, ToldOf, Done
  <2> QED  BY <1>1, <1>2, <1>8, <2>1 DEF Dropped
<1> QED  BY <1>3, <1>4, <1>5, <1>6, <1>7, <1>8

LEMMA LevelsReported ==
    ASSUME CardsAssumption, CardsOK, GroupsRefreshed, ~job.raced
    PROVE  /\ groups[job.oid] = "live" /\ rules[job.oid] = job.want.rule
           /\ job.want.rule # job.was => told
           /\ job.want.return /\ "card" \in dialog' => SameLevels(cardForm'.levels, job.want.levels \cup {job.oid})
<1>1. job.at = "levels" /\ RecordTypes /\ JobIn(job) /\ GoalOK /\ cardForm \in Forms
  BY DEF GroupsRefreshed, CardsOK, PageTypes
<1>2. job.kind = "level"
  BY <1>1, StageOf DEF JobIn, IsJob
<1>3. sheet = job.want /\ LevelIs(job) /\ (job.want.rule # job.was => told)
  BY <1>1, <1>2 DEF GoalOK, SavingLevel
<1>4. LevelJob(job) /\ job.want.levels \subseteq Named
  BY <1>1, <1>2 DEF JobIn
<1>5. job.oid \in Groups /\ job.want.rule.title # NotSet
  BY <1>1, <1>4 DEF LevelJob
<1>6. job.want.levels \cup {job.oid} \subseteq Named
  BY <1>3, <1>4, <1>5 DEF LevelIs, Named
<1>7. ASSUME job.want.return, "card" \in dialog' PROVE SameLevels(cardForm'.levels, job.want.levels \cup {job.oid})
  <2>1. "card" \in dialog
    BY <1>7 DEF GroupsRefreshed
  <2>2. cardForm'.levels = {l \in job.want.levels \cup {job.oid} : ShownGroups[l] = "live"}
    BY <1>1, <1>3, <1>7, <2>1 DEF GroupsRefreshed, Forms
  <2>3. \A l \in job.want.levels \cup {job.oid} : ShownGroups[l] = "live" <=> l \in LiveGroups
    BY <1>1, <1>6, ShownCardFacts DEF LiveGroups, Named
  <2> QED  BY <2>2, <2>3 DEF SameLevels
<1> QED  BY <1>3, <1>7 DEF LevelIs

LEMMA TeamsConsolidate ==
    ASSUME CardsOK, UpdateServed, ~job.raced, OnePersonOneTeam(held)
    PROVE  OnePersonOneTeam(held')
<1>1. GoalOK /\ job.at = "update"
  BY DEF CardsOK, UpdateServed
<1>2. OnePersonOneTeam(PatchedCards(job.patch))
  BY <1>1 DEF GoalOK, Updating
<1>3. held' = PatchedCards(job.patch)
  BY DEF UpdateServed, UpdateCards
<1> QED  BY <1>2, <1>3

LEMMA CardsReportedHolds ==
    ASSUME CardsAssumption, CardsOK, CardsNext
    PROVE  CardsReported /\ Consolidates
<1>1. CardsOK' /\ JobIn(job)'
  BY CardsStep DEF CardsOK
<1>2. PICK h : h = job'
  OBVIOUS
<1>3. JobIn(h)'
  BY <1>1, <1>2
<1>4. ASSUME job.at # "reload", h.at = "reload", ~h.raced
      PROVE  /\ JobSettled(h)' /\ ToldOf(h)'
             /\ UNCHANGED <<cards, groups>> /\ (held' = held \/ h.kind \in {"person", "team"})
  <2>1. UNCHANGED <<cards, groups>> /\ (held' = held \/ h.kind \in {"person", "team"})
    BY <1>2, <1>4, CardsStep
  <2>2. JobSettled(job)' /\ ToldOf(job)'
    BY <1>1, <1>2, <1>4 DEF CardsOK, GoalOK
  <2> QED  BY <1>2, <2>1, <2>2
<1>5. h.kind = "card" /\ h.at = "reload" => h.oid \in Cards
  BY <1>3 DEF JobIn, CardJob
<1>6. ASSUME job.at # "reload", h.at = "reload", ~h.raced
      PROVE  /\ h.kind = "card" =>
                  /\ h.oid \in Live
                  /\ held[h.oid].name = h.want.name /\ held[h.oid].number = h.want.number
                  /\ held[h.oid].team = h.want.team /\ held[h.oid].term = h.want.term
                  /\ SameLevels(held[h.oid].levels, h.want.levels)
                  /\ h.patch # Unpatched => told'
             /\ h.kind = "erase" => h.want.oid \notin Live /\ told'
             /\ h.kind = "person" => \A c \in h.want.oids \cap Live : held'[c].name = h.want.name /\ held'[c].team = h.want.team
             /\ h.kind = "team" => \A c \in Live : held'[c].team # h.want.from
             /\ h.kind = "bulk" => told' /\ AssignedIn(held, h.want)
             /\ h.kind = "drop" => groups[h.want.oid] # "live" /\ Dropped(held, h.want) /\ told'
  BY <1>4, <1>5, <1>6, SettledReports DEF Live
<1>7. CardsReported
  BY <1>2, <1>6, LevelsReported DEF CardsReported, Reports, AssignedIn, Dropped
<1> QED  BY <1>7, TeamsConsolidate DEF Consolidates

LEMMA CardsInvariant == CardsSpec => []CardsOK
<1>1. CardsInit => CardsOK
  BY CardsAssumption, CardsStart
<1>2. CardsOK /\ [CardsNext]_cardVars => CardsOK'
  BY CardsAssumption, CardsStep, CardsStutter
<1> QED  BY <1>1, <1>2, PTL DEF CardsSpec

\* The records, the copies, the forms and the handler in flight are always what the code can
\* hold, whatever the credentials, the levels and the order of requests.
THEOREM CardsAreTyped == CardsSpec => []CardsTypeOK
  BY CardsInvariant, CardsTyped, PTL

\* saveCard(), deleteCard(), savePerson(), saveBulkCredentialAccess(), renameManagementGroup(),
\* saveGroup() and deleteGroup(): what is reported as done, and nothing came between, is what the
\* dialog showed when its button was clicked, under whatever OID the credential has by then; and
\* the credentials of one person stay in one management group.
THEOREM CardsAreAsSubmitted == CardsSpec => CardsAsSubmitted
<1>1. CardsOK /\ [CardsNext]_cardVars => [CardsReported /\ Consolidates]_cardVars
  BY CardsAssumption, CardsReportedHolds
<1> QED  BY <1>1, CardsInvariant, PTL DEF CardsSpec, CardsAsSubmitted

-----------------------------------------------------------------------------
(* All dialogs: each keeps to its own part of the state. *)

LEMMA DialogsAreDialogs == DialogsSpec => Spec /\ DoorSpec /\ CardsSpec /\ LevelSpec
<1>1. DialogsInit => Init /\ DoorInit /\ CardsInit /\ LevelInit
  BY DEF DialogsInit, NoForm, NoDoor, NoCard, NoLevel
<1>2. [DialogsNext]_dialogVars => [Next]_vars /\ [DoorNext]_doorVars /\ [CardsNext]_cardVars /\ [LevelNext]_levelVars
  BY DEF DialogsNext, dialogVars, formVars
<1> QED  BY <1>1, <1>2, PTL DEF DialogsSpec, Spec, DoorSpec, CardsSpec, LevelSpec

\* Whichever dialog is in use, the state of each is always what the page and the server can hold.
THEOREM DialogsAreTyped == DialogsSpec => []DialogsTypeOK
  BY DialogsAreDialogs, FormTypeOK, DoorsAreTyped, CardsAreTyped, LevelIsTyped, PTL DEF DialogsTypeOK

=============================================================================
