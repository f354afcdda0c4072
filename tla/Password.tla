------------------------------- MODULE Password -------------------------------
(***************************************************************************)
(* A user's own password is changed: the form and its message              *)
(* (password.js), the handler that verifies the present password and then  *)
(* stores the other one (httpd/users/password.go), in the worker of a      *)
(* dispatcher that answers 'timeout' while it works on.                    *)
(***************************************************************************)
EXTENDS Naturals, FiniteSets

CONSTANTS
    Passwords,
    NoMessage,
    MaxAttempts   \* how often the form is submitted

ASSUME PasswordAssumption == NoMessage \notin {"no match", "changed", "unauthorized", "error"}

VARIABLES
    password,   \* of the account
    message,    \* what the page says
    attempts,   \* the submitted changes
    told,       \* the change the message is about (history)
    tried       \* counted, for the bound

passwordVars == <<password, message, attempts, told, tried>>

Turns(a, b) == attempts' = (attempts \ {a}) \cup {b}

\* dismiss(), warning()
Dismiss == message' = NoMessage /\ told' = 0
Warns(text, a) == message' = text /\ told' = a.id

\* onPassword()
Submit(old, new, again) ==
    /\ tried < MaxAttempts /\ tried' = tried + 1
    /\ IF new # again THEN message' = "no match" /\ told' = 0 /\ UNCHANGED attempts
       ELSE /\ Dismiss
            /\ attempts' = attempts \cup
                   {[id |-> tried', old |-> old, new |-> new, at |-> "sent", status |-> 0, wrote |-> {},
                     had |-> {password}, others |-> {a.id : a \in {b \in attempts : b.at \in {"sent", "verified"}}}]}
    /\ UNCHANGED password

\* What is written first is the status of the answer.
Writes(a, who, status) == [a EXCEPT !.wrote = @ \cup {who}, !.status = IF a.wrote = {} THEN status ELSE @]

\* VerifyAuthHeader(), Validate()
Verified(a) == a.old = password

\* Password(): before the lock of the system is taken.
Verify(a) ==
    /\ a.at = "sent"
    /\ Turns(a, IF Verified(a) THEN [a EXCEPT !.at = "verified"] ELSE [Writes(a, "worker", 401) EXCEPT !.at = "refused"])
    /\ UNCHANGED <<password, message, told, tried>>

\* SetPassword(), under the lock.
Change(a) ==
    /\ a.at = "verified"
    /\ password' = a.new
    /\ attempts' = {[b EXCEPT !.had = IF b.at \in {"sent", "verified"} THEN @ \cup {a.new} ELSE @,
                              !.others = IF b.at \in {"sent", "verified", "made"} THEN @ \cup {a.id} ELSE @] : b \in attempts \ {a}}
                   \cup {[a EXCEPT !.at = "made"]}
    /\ UNCHANGED <<message, told, tried>>

\* The users cannot be saved, or are not valid.
ChangeFails(a) ==
    /\ a.at = "verified"
    /\ Turns(a, [a EXCEPT !.at = "failed"])
    /\ UNCHANGED <<password, message, told, tried>>

\* A bug: an error of the worker is answered like a result.
AnsweredLikeAResult(a) == 200

Answered(a) == IF a.at = "made" THEN 200 ELSE 400

\* respond(): the result of the worker, or 'timeout' without it.
Respond(a) ==
    /\ "respond" \notin a.wrote
    /\ \/ a.at \in {"refused", "failed", "made"} /\ Turns(a, Writes(a, "respond", Answered(a)))
       \/ a.at \in {"sent", "verified"} /\ Turns(a, Writes(a, "respond", 504))
    /\ UNCHANGED <<password, message, told, tried>>

\* The answer. The worker of a change that timed out works on.
Hear(a) ==
    /\ "respond" \in a.wrote /\ a.status # 0
    /\ Warns(CASE a.status = 200 -> "changed" [] a.status = 401 -> "unauthorized" [] OTHER -> "error", a)
    /\ Turns(a, [a EXCEPT !.status = 0])
    /\ UNCHANGED <<password, tried>>

PasswordInit ==
    /\ password \in Passwords
    /\ message = NoMessage /\ attempts = {} /\ told = 0 /\ tried = 0

PasswordNext ==
    \/ \E old, new, again \in Passwords : Submit(old, new, again)
    \/ \E a \in attempts : Verify(a) \/ Change(a) \/ ChangeFails(a) \/ Respond(a) \/ Hear(a)

PasswordSpec == PasswordInit /\ [][PasswordNext]_passwordVars

-----------------------------------------------------------------------------
PasswordTypeOK ==
    /\ password \in Passwords
    /\ message \in {NoMessage, "no match", "changed", "unauthorized", "error"}
    /\ \A a \in attempts : a.wrote \subseteq {"worker", "respond"} /\ a.status \in {0, 200, 400, 401, 504}

\* Whatever is in flight, a change was made by somebody who knew a password that the account
\* had meanwhile.
MakersKnewIt == \A a \in attempts : a.at = "made" => a.old \in a.had

\* 'Password changed' is said of a change that was made: the user signs in with the new one,
\* for as long as no other change comes after it.
ChangedAsSaid ==
    message = "changed" =>
        \E a \in attempts : a.id = told /\ a.at = "made" /\ (a.others = {} => password = a.new)

\* Only who knows the password changes it, and hears so.
ChangesAsSaid == MakersKnewIt /\ ChangedAsSaid

=============================================================================
