------------------------------ MODULE Accounts ------------------------------
(***************************************************************************)
(* The login accounts (system/users) and the page that manages them        *)
(* (gate-control.js), open in the consoles of several administrators at    *)
(* once.  A save is one request, and a new account is one that creates it, *)
(* blank, and one that fills it in.                                        *)
(*                                                                         *)
(* Every user in the dialog is given a name; whether it differs is of no   *)
(* consequence, so that an account is its user ID, its role, its password  *)
(* and the flags that an administrator may only clear (OTP, locked).       *)
(*                                                                         *)
(* A session is of a user ID and not of an account.  The sweep that drops  *)
(* deleted accounts after days is not modelled: they stay, and so do their *)
(* user IDs.                                                               *)
(***************************************************************************)
EXTENDS Naturals, FiniteSets

CONSTANTS
    Oids,        \* of accounts
    Uids,
    Me,          \* the user ID that each console is signed in with: [Consoles -> Uids]
    Same(_),     \* a user ID without case and spaces
    Pwds,
    Flags,
    Loaded,      \* the accounts there are at the start: functions to Record or NoAccount
    NoAccount,
    New,         \* the dialog of an account that has no OID yet
    Blank,
    MaxEvents    \* how often, together, a dialog is opened and a request fails

Consoles == DOMAIN Me
Roles == {"admin", "user"}
Record == [uid : Uids \cup {Blank}, role : Roles \cup {Blank}, pwd : Pwds \cup {Blank},
           flags : SUBSET Flags, deleted : BOOLEAN]

VARIABLES
    account,     \* sys.users
    copy,        \* the accounts in each console's DB
    dialog,      \* userForm and userDialog of each console
    saving,      \* the saveUser() in flight in each
    erasing,     \* the deleteUser() in flight in each
    disabled,    \* the consoles with the Save button disabled
    made         \* counted, for the bound

accountVars == <<account, copy, dialog, saving, erasing, disabled, made>>

Idle == [at |-> "idle", new |-> FALSE, oid |-> NoAccount, typed |-> <<>>, patch |-> <<>>]
Shut == [open |-> FALSE, oid |-> New, clear |-> {}]

Live(accounts) == {o \in Oids : accounts[o] # NoAccount /\ ~accounts[o].deleted}

\* An account is created blank, and filled in by one request.
Filled(a) == a.uid # Blank /\ a.role # Blank /\ a.pwd # Blank

-----------------------------------------------------------------------------
(* The server: a request is validated and applied as a whole, under sys.Lock. *)

Created == [uid |-> Blank, role |-> Blank, pwd |-> Blank, flags |-> {}, deleted |-> FALSE]

HasAdmin(accounts) == \E o \in Live(accounts) : accounts[o].role = "admin"

\* A bug: the dialog has looked for the user ID, so that the server does not.
UniqueInDialog(accounts) == TRUE

\* Validate()
UniqueUids(accounts) ==
    \A a, b \in Live(accounts) : Same(accounts[a].uid) = Same(accounts[b].uid) /\ accounts[a].uid # Blank => a = b

\* Users.User(): the first of the user ID in the order of a map, a deleted one or not.
WithUid(uid) == {o \in Oids : account[o] # NoAccount /\ account[o].uid = uid}

\* Authenticated(): the session is of an account, which is not a deleted one.
SessionAccepted(c) == \E o \in WithUid(Me[c]) : ~account[o].deleted
SessionRefused(c) == WithUid(Me[c]) = {} \/ \E o \in WithUid(Me[c]) : account[o].deleted

\* UpdateUsers, for the session
UpdateUsers(c, accounts) ==
    /\ SessionAccepted(c)
    /\ HasAdmin(accounts) /\ UniqueUids(accounts)
    /\ account' = accounts

\* User.set
Patched(a, patch) ==
    [f \in DOMAIN a |-> IF f \in DOMAIN patch.set THEN patch.set[f] ELSE IF f = "flags" THEN a.flags \ patch.clear ELSE a[f]]

Set(o, patch) == [account EXCEPT ![o] = Patched(@, patch)]

\* AsObjects(): an account with neither a name nor a user ID is not listed, a deleted one is.
Listed == [o \in Oids |-> IF account[o] # NoAccount /\ (account[o].uid # Blank \/ account[o].deleted) THEN account[o] ELSE NoAccount]

\* There is an administrator, and the accounts were saved by the handlers below.
ASSUME AccountsAssumption ==
    /\ Blank \notin Uids \cup Roles \cup Pwds
    /\ New \notin Oids /\ NoAccount \notin Oids \cup Record
    /\ Loaded \subseteq [Oids -> Record \cup {NoAccount}]
    /\ \A accounts \in Loaded :
           /\ HasAdmin(accounts) /\ UniqueUids(accounts)
           /\ \A o \in Oids : accounts[o] \in {NoAccount, Created} \/ Filled(accounts[o])
    /\ MaxEvents \in Nat

-----------------------------------------------------------------------------
(* The dialog. *)

Count == made < MaxEvents /\ made' = made + 1

\* userRows()
Rows(c) == Live(copy[c])

\* Only one dialog is open, and it is modal.
EditUser(c) ==
    /\ ~dialog[c].open /\ Count
    /\ \E o \in Rows(c) \cup {New} : dialog' = [dialog EXCEPT ![c] = [open |-> TRUE, oid |-> o, clear |-> {}]]
    /\ UNCHANGED <<account, copy, saving, erasing, disabled>>

\* A box that revokes the OTP, or unlocks, is shown for an account that has it.
Tick(c) ==
    /\ dialog[c].open /\ dialog[c].oid # New
    /\ \E f \in SUBSET copy[c][dialog[c].oid].flags : f # dialog[c].clear /\ dialog' = [dialog EXCEPT ![c].clear = f]
    /\ UNCHANGED <<account, copy, saving, erasing, disabled, made>>

Close(c) ==
    /\ dialog[c].open
    /\ dialog' = [dialog EXCEPT ![c] = Shut]
    /\ UNCHANGED <<account, copy, saving, erasing, disabled, made>>

\* What saveUser() sends: what differs from the account as it was in the copy, if it was there,
\* and the password if there is one.
Patch(typed, was, clear) ==
    [set |-> [f \in {f \in {"uid", "role"} : was = NoAccount \/ typed[f] # was[f]}
                     \cup (IF typed.pwd = Blank THEN {} ELSE {"pwd"}) |-> typed[f]],
     clear |-> clear]

NothingToSay(patch) == DOMAIN patch.set = {} /\ patch.clear = {}

Typed == [uid : Uids, role : Roles, pwd : Pwds \cup {Blank}]

\* The dialog checks what the user typed: the user ID is in no other account of the copy, and a
\* new account has a password. With nothing to say it goes on to load().
SaveUser(c) ==
    /\ dialog[c].open /\ c \notin disabled
    /\ LET o == dialog[c].oid
           was == IF o = New THEN NoAccount ELSE copy[c][o]
       IN  \E typed \in Typed :
               /\ \A p \in Live(copy[c]) \ {o} : Same(copy[c][p].uid) # Same(typed.uid)
               /\ was = NoAccount => typed.pwd # Blank
               /\ saving' = [saving EXCEPT ![c] =
                      LET patch == Patch(typed, was, dialog[c].clear) IN
                      IF o = New THEN [Idle EXCEPT !.at = "create", !.new = TRUE, !.typed = typed]
                      ELSE [Idle EXCEPT !.at = IF NothingToSay(patch) THEN "saved" ELSE "update",
                                        !.oid = o, !.patch = patch]]
    /\ disabled' = disabled \cup {c}
    /\ UNCHANGED <<account, copy, dialog, erasing, made>>

\* The new account is blank. The boxes are those of the dialog that is open by the time of the
\* answer; a new account has nothing they could clear.
Create(c) ==
    /\ saving[c].at = "create"
    /\ \E o \in Oids :
           /\ account[o] = NoAccount
           /\ UpdateUsers(c, [account EXCEPT ![o] = Created])
           /\ saving' = [saving EXCEPT ![c].at = "update", ![c].oid = o, ![c].typed = <<>>,
                                       ![c].patch = Patch(saving[c].typed, NoAccount, dialog[c].clear)]
    /\ UNCHANGED <<copy, dialog, erasing, disabled, made>>

Update(c) ==
    /\ saving[c].at = "update"
    /\ saving[c].oid \in Live(account)
    /\ UpdateUsers(c, Set(saving[c].oid, saving[c].patch))
    /\ saving' = [saving EXCEPT ![c] = [Idle EXCEPT !.at = "saved"]]
    /\ UNCHANGED <<copy, dialog, erasing, disabled, made>>

\* The answer: the dialog is closed, whichever account it is open for by now, and load()
\* is waited for.
Saved(c) ==
    /\ saving[c].at = "saved"
    /\ saving' = [saving EXCEPT ![c] = Idle]
    /\ dialog' = [dialog EXCEPT ![c] = Shut]
    /\ \E loaded \in {copy[c], Listed} : copy' = [copy EXCEPT ![c] = loaded]
    /\ disabled' = disabled \ {c}
    /\ UNCHANGED <<account, erasing, made>>

Refused(c, oid, accounts) ==
    \/ SessionRefused(c) \/ ~HasAdmin(accounts) \/ ~UniqueUids(accounts)
    \/ oid # New /\ account[oid] # NoAccount /\ account[oid].deleted

\* The request was refused, or is lost before it was served: the dialog stays open.
SaveFails(c) ==
    /\ saving[c].at \in {"create", "update"}
    /\ LET s == saving[c]
           accounts == IF s.at = "create" THEN account ELSE Set(s.oid, s.patch)
       IN  (Refused(c, IF s.at = "create" THEN New ELSE s.oid, accounts) /\ UNCHANGED made) \/ Count
    /\ saving' = [saving EXCEPT ![c] = Idle]
    /\ disabled' = disabled \ {c}
    /\ UNCHANGED <<account, copy, dialog, erasing>>

\* The answer of a request that was served is lost.
SavedUnheard(c) ==
    /\ saving[c].at = "saved" \/ (saving[c].at = "update" /\ saving[c].new)
    /\ Count
    /\ saving' = [saving EXCEPT ![c] = Idle]
    /\ disabled' = disabled \ {c}
    /\ UNCHANGED <<account, copy, dialog, erasing>>

DeleteUser(c) ==
    /\ dialog[c].open /\ dialog[c].oid # New /\ copy[c][dialog[c].oid] # NoAccount
    /\ erasing[c] = NoAccount
    /\ erasing' = [erasing EXCEPT ![c] = dialog[c].oid]
    /\ UNCHANGED <<account, copy, dialog, saving, disabled, made>>

\* A deleted account is listed for as long as the sweep leaves it, and its OID is taken.
Without(o) == [account EXCEPT ![o].deleted = TRUE]

Deleted(c) ==
    /\ erasing[c] # NoAccount
    /\ UpdateUsers(c, Without(erasing[c]))
    /\ erasing' = [erasing EXCEPT ![c] = NoAccount]
    /\ dialog' = [dialog EXCEPT ![c] = Shut]
    /\ UNCHANGED <<copy, saving, disabled, made>>

DeleteFails(c) ==
    /\ erasing[c] # NoAccount
    /\ (Refused(c, New, Without(erasing[c])) /\ UNCHANGED made) \/ Count
    /\ erasing' = [erasing EXCEPT ![c] = NoAccount]
    /\ UNCHANGED <<account, copy, dialog, saving, disabled>>

\* load(); a console whose session is refused shows the login page, and the user may sign in
\* again with the same user ID.
Load(c) ==
    /\ SessionAccepted(c) /\ copy[c] # Listed
    /\ copy' = [copy EXCEPT ![c] = Listed]
    /\ UNCHANGED <<account, dialog, saving, erasing, disabled, made>>

-----------------------------------------------------------------------------
AccountsInit ==
    /\ account \in Loaded
    /\ copy = [c \in Consoles |-> Listed]
    /\ dialog = [c \in Consoles |-> Shut]
    /\ saving = [c \in Consoles |-> Idle] /\ erasing = [c \in Consoles |-> NoAccount]
    /\ disabled = {} /\ made = 0

AccountsNext ==
    \E c \in Consoles :
        \/ EditUser(c) \/ Tick(c) \/ Close(c)
        \/ SaveUser(c) \/ Create(c) \/ Update(c) \/ Saved(c) \/ SaveFails(c) \/ SavedUnheard(c)
        \/ DeleteUser(c) \/ Deleted(c) \/ DeleteFails(c) \/ Load(c)

AccountsSpec == AccountsInit /\ [][AccountsNext]_accountVars

-----------------------------------------------------------------------------
(* Type invariant. *)
AccountsTypeOK ==
    /\ account \in [Oids -> Record \cup {NoAccount}]
    /\ copy \in [Consoles -> [Oids -> Record \cup {NoAccount}]]
    /\ erasing \in [Consoles -> Oids \cup {NoAccount}]
    /\ disabled \subseteq Consoles /\ made \in 0..MaxEvents
    /\ \A c \in Consoles : saving[c].at = "idle" <=> c \notin disabled

\* 'Never allow account maintenance to leave the installation without an administrator'
\* (UpdateUsers): whatever two administrators change and delete at once and whichever requests
\* fail, there is one with a user ID and a password that are filled in, and whoever else the
\* lookup of that user ID could find is deleted. While such a deleted account is kept it may be
\* the one that is found, and then the administrator is refused, although the comment goes on
\* 'who can log back in'.
AdministratorIsLeft ==
    \E o \in Live(account) :
        /\ account[o].role = "admin" /\ account[o].uid # Blank /\ account[o].pwd # Blank
        /\ \A p \in WithUid(account[o].uid) : p = o \/ account[p].deleted
        /\ \A p \in Live(account) : Same(account[p].uid) = Same(account[o].uid) => p = o

=============================================================================
