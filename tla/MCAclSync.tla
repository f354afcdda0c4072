----------------------------- MODULE MCAclSync -----------------------------
(* Small instances of AclSync for TLC. *)
EXTENDS AclSync, TLC

CONSTANTS g1, g2, c1, c2, d1, d2

Symmetry == Permutations(OIDs)

\* One controller with one door, or one door on each of two.
OneDoor == [d \in Doors |-> c1]
DoorEach == [d \in Doors |-> IF d = d1 THEN c1 ELSE c2]
Slots == [g \in Levels |-> IF g = g1 THEN 254 ELSE 253]

NoRules == [n \in Numbers |-> {}]

\* Period 1 stands for 'from' and 'to' dates on the credential, 2 for the defaults.
NoDefault == 0
Default == 2

\* Credential n is configured and a member of the level g1.
LoadedCard(n) == [NoCard EXCEPT !.state = "live", !.number = n, !.groups = {g1}, !.period = 1]
LoadedLevel == [state |-> "live", doors |-> Doors, timed |-> FALSE]
FirstLoaded == [g \in Levels |-> IF g = g1 THEN LoadedLevel ELSE NoLevel]

\* An empty list, or one credential in it.
Empty == {NoCards}
EmptyOrOne == Empty \cup {[NoCards EXCEPT ![o] = LoadedCard(1)] : o \in OIDs}
One == EmptyOrOne \ Empty
OneLevel == {FirstLoaded}
TwoLevels == {[g \in Levels |-> [LoadedLevel EXCEPT !.timed = TRUE]]}
OneOrTwoLevels == OneLevel \cup TwoLevels

\* A card left on a controller by some other tool: open doors, its own dates.
Foreign == {[held |-> TRUE, period |-> 3, access |-> [d \in Doors |-> 1]]}
NothingForeign == {}

Everything == {Doors}

Member == {{}, {g1}}
MemberOnly == {{g1}}
TwoSchedule == {{g1}, {g1, g2}}
AllDoors == {{}, Doors}
=============================================================================
