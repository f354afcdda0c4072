------------------------------ MODULE MCStore ------------------------------
(* Small instances of Store for TLC. *)
EXTENDS Store, TLC

Made(n, refs) == [complete |-> TRUE, deleted |-> FALSE, born |-> n, refs |-> refs]

\* groups.json with one access level, cards.json with one member of it.
OneMember ==
    [k \in Kinds |-> CASE k = "groups" -> 1 :> Made(1, <<>>)
                       [] k = "cards" -> 1 :> Made(2, 1 :> 1)]

\* A backup from before the credential was made a member.
Earlier == {[OneMember EXCEPT !["cards"] = 1 :> Made(2, <<>>)]}

LevelsAndCards == <<"cards", "groups">>
=============================================================================
