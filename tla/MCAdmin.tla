------------------------------ MODULE MCAdmin ------------------------------
(***************************************************************************)
(* Accounts, signing in, the one-time password, the password, the dialogs  *)
(* of an import and of the backups, and the lists of events and logs, for  *)
(* TLC.  Two administrators manage accounts, one of whom may add a third.  *)
(* One part runs, the others stay as they start.                           *)
(***************************************************************************)
EXTENDS Accounts, SignIn, OneTime, Password, Maintenance, Feed, TLC

CONSTANTS
    n1, n2, d1, d2,
    MaxLogs   \* the logs, which come in another order with every request, are fewer than the events

VARIABLES
    at   \* which of them

adminVars == <<at, accountVars, signInVars, oneTimeVars, passwordVars, maintenanceVars, feedVars>>

-----------------------------------------------------------------------------
(* Two administrators. *)
MCMe == [c \in {"c1", "c2"} |-> IF c = "c1" THEN "a" ELSE "b"]
SameUid(u) == u
Account(uid, flags) == [uid |-> uid, role |-> "admin", pwd |-> "p", flags |-> flags, deleted |-> FALSE]
MCLoaded == {"u1" :> Account("a", {}) @@ "u2" :> Account("b", {"otp"}) @@ "u3" :> NoAccount}

(* Two controllers that agree on one credential and not on another, or one of which has an    *)
(* entry that cannot be imported.                                                             *)
Held == {"c1" :> (n1 :> d1 @@ n2 :> d1) @@ "c2" :> (n1 :> d1 @@ n2 :> d2),
         "c1" :> (n1 :> NoEntry @@ n2 :> d1) @@ "c2" :> (n1 :> Timed @@ n2 :> NoEntry)}

MCNumbers == {n1, n2}
MCDetails == {d1, d2}

-----------------------------------------------------------------------------
AdminInit ==
    /\ at \in {"accounts", "session", "otp", "password", "maintenance", "feed"}
    /\ AccountsInit
    /\ SignInInit /\ (at # "session" => admin)
    /\ OneTimeInit /\ (at # "otp" => stored = None)
    /\ PasswordInit /\ (at # "password" => password = "p")
    /\ MaintenanceInit /\ (at # "maintenance" => held["c2"][n2] = d2 /\ local = [n \in {n1, n2} |-> NoEntry])
    /\ FeedInit /\ (at # "feed" => page = [feed |-> "events", overview |-> FALSE])

AdminNext ==
    \/ /\ at = "accounts" /\ AccountsNext
       /\ UNCHANGED <<at, signInVars, oneTimeVars, passwordVars, maintenanceVars, feedVars>>
    \/ /\ at = "session" /\ SignInNext
       /\ UNCHANGED <<at, accountVars, oneTimeVars, passwordVars, maintenanceVars, feedVars>>
    \/ /\ at = "otp" /\ OneTimeNext
       /\ UNCHANGED <<at, accountVars, signInVars, passwordVars, maintenanceVars, feedVars>>
    \/ /\ at = "password" /\ PasswordNext
       /\ UNCHANGED <<at, accountVars, signInVars, oneTimeVars, maintenanceVars, feedVars>>
    \/ /\ at = "maintenance" /\ MaintenanceNext
       /\ UNCHANGED <<at, accountVars, signInVars, oneTimeVars, passwordVars, feedVars>>
    \/ /\ at = "feed" /\ FeedNext /\ (page.feed = "logs" => Len(log') <= MaxLogs)
       /\ UNCHANGED <<at, accountVars, signInVars, oneTimeVars, passwordVars, maintenanceVars>>

AdminSpec == AdminInit /\ [][AdminNext]_adminVars

-----------------------------------------------------------------------------
\* The types, and that the list of the backups has those that were reported.
AdminTypeOK ==
    /\ at = "accounts" => AccountsTypeOK
    /\ at = "session" => SignInTypeOK
    /\ at = "otp" => OneTimeTypeOK
    /\ at = "password" => PasswordTypeOK
    /\ at = "maintenance" => MaintenanceTypeOK /\ ReportedIsListed
    /\ at = "feed" => FeedTypeOK

\* Feed: no entry is passed over, and the rows are in the order of their times.
FeedIsComplete == [](at = "feed" => NoHoles /\ MoreWhileOlder) /\ RowsInOrder

=============================================================================
