------------------------------- MODULE Drafts -------------------------------
(***************************************************************************)
(* What a table page promises to somebody who edits it while its data is   *)
(* refreshed under their hands: only they change what they typed, until    *)
(* the server is known to have it, the record is gone, or they gave it up. *)
(***************************************************************************)
CONSTANTS Records, Texts, Gone

VARIABLES
    stage,   \* of what was typed for each record: "none", "typing", "unsent", "sent"
    text,    \* what was typed
    known,   \* what the server was last heard to have, Gone for a record without a row
    hand     \* who made the last step: "user" or "browser"

vars == <<stage, text, known, hand>>

Stages == {"none", "typing", "unsent", "sent"}

Init ==
    /\ stage = [r \in Records |-> "none"] /\ text = [r \in Records |-> Gone]
    /\ known \in [Records -> Texts \cup {Gone}]
    /\ hand = "browser"

\* The user types, leaves the field, submits or gives up.
User ==
    /\ hand' = "user"
    /\ stage' \in [Records -> Stages] /\ text' \in [Records -> Texts \cup {Gone}]
    /\ known' \in [Records -> Texts \cup {Gone}]
    /\ \A r \in Records : known'[r] \in {known[r], Gone}

\* Something is heard of the server: what is being typed, is not sent or is on its way stays,
\* but for what the server turns out to have.
Hear ==
    /\ hand' = "browser"
    /\ known' \in [Records -> Texts \cup {Gone}]
    /\ \A r \in Records :
           \/ stage'[r] = stage[r] /\ text'[r] = text[r] /\ known'[r] # Gone
           \/ known'[r] = Gone /\ stage'[r] = "none" /\ text'[r] = Gone
           \/ /\ stage[r] = "unsent" /\ known'[r] = text[r]
              /\ \/ stage'[r] = "none" /\ text'[r] = Gone
                 \/ stage'[r] = "sent" /\ text'[r] = text[r]

\* A submission ends: what it sent is stored, or it is the user's again.
Answer ==
    /\ hand' = "browser"
    /\ UNCHANGED known
    /\ \A r \in Records :
           \/ stage'[r] = stage[r] /\ text'[r] = text[r]
           \/ stage[r] = "sent" /\ stage'[r] = "unsent" /\ text'[r] = text[r]
           \/ stage[r] = "sent" /\ stage'[r] = "none" /\ text'[r] = Gone

Next == User \/ Hear \/ Answer

Spec == Init /\ [][Next]_vars

=============================================================================
