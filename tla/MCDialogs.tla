----------------------------- MODULE MCDialogs -----------------------------
(***************************************************************************)
(* The dialogs of the console for TLC, each over the part of the page and  *)
(* of the server that it works with.  One of them is in use: what the      *)
(* others keep stays as at the start.  CredentialForm has the number       *)
(* and the dates of the dialog of a credential, CardEditor what it saves.  *)
(***************************************************************************)
EXTENDS CardEditor, CredentialForm, LevelForm, DoorEditor, TLC

VARIABLE at   \* the dialog

formVars == vars
dialogVars == <<at, formVars, doorVars, cardVars, levelVars>>

-----------------------------------------------------------------------------
(* The number and the dates: the boundaries. *)

D(y, m, d) == y * 512 + m * 32 + d
TodayIs == D(2024, 2, 29)
Dates == {TodayIs, D(2023, 12, 31), D(2060, 2, 29), D(2100, 1, 1)}
Typings == {0, 255, 256, 99999, 100000, 15000184}
Records == [number : {Blank, 15000184, 25600000}, from : {Blank, D(2023, 12, 31), D(2100, 1, 1)},
            to : {Blank, D(2023, 12, 31), D(2060, 2, 29)}]

(* One door at the start or two, the first on the first channel. *)

OneOrTwoDoors == {"d1" :> "a" @@ "d2" :> Unnamed, "d1" :> "a" @@ "d2" :> "b"}

FirstOnFirst == {"k1" :> "d1" @@ "k2" :> Nothing}

(* A person with one credential or two, or one that was found on a controller beside it. *)

First == [name |-> "p", team |-> "m", number |-> "n1", term |-> "t", levels |-> {"none"}]
Second == [name |-> "p", team |-> "m", number |-> "n2", term |-> "t", levels |-> {"l1"}]
FoundOne == [BlankCard EXCEPT !.number = "n2"]
Loadings == {"c1" :> First @@ "c2" :> s @@ "c3" :> BlankCard : s \in {Second, FoundOne}}
TwoLevels == "none" :> [title |-> "x", opens |-> FALSE] @@ "l1" :> [title |-> "y", opens |-> TRUE]
                 @@ "l2" :> BlankRule

(* The levels, in the configuration: the first and one behind those that can have a schedule. *)

-----------------------------------------------------------------------------
(* What the dialogs that are not in use keep. *)

NoForm == Init
NoDoor == DoorInit /\ \E d \in Doors : fields[d] = Unnamed
NoCard == CardsInit /\ \E c \in Cards : OnlyFound(held[c]) /\ held[c] # BlankCard
NoLevel == LevelInit /\ \A l \in Levels : level[l] = None

DialogsInit ==
    \/ at = "form" /\ Init /\ NoDoor /\ NoCard /\ NoLevel
    \/ at = "door" /\ DoorInit /\ NoForm /\ NoCard /\ NoLevel
    \/ at = "card" /\ CardsInit /\ NoForm /\ NoDoor /\ NoLevel
    \/ at = "level" /\ LevelInit /\ NoForm /\ NoDoor /\ NoCard

DialogsNext ==
    \/ at = "form" /\ Next /\ UNCHANGED <<at, doorVars, cardVars, levelVars>>
    \/ at = "door" /\ DoorNext /\ UNCHANGED <<at, formVars, cardVars, levelVars>>
    \/ at = "card" /\ CardsNext /\ UNCHANGED <<at, formVars, doorVars, levelVars>>
    \/ at = "level" /\ LevelNext /\ UNCHANGED <<at, formVars, doorVars, cardVars>>

DialogsSpec == DialogsInit /\ [][DialogsNext]_dialogVars

-----------------------------------------------------------------------------
DialogsTypeOK == TypeOK /\ DoorTypeOK /\ CardsTypeOK /\ LevelTypeOK

=============================================================================
