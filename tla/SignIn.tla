------------------------------- MODULE SignIn -------------------------------
(***************************************************************************)
(* Being signed in: the sessions and the signing keys of the server        *)
(* (auth/impl/local.go), the cookies that the tabs of a browser share, the *)
(* pages that set up, sign in (setup.js, login.js), poll and sign out, and *)
(* answers that are lost or overtake each other.  The unit of time is five *)
(* minutes.                                                                *)
(***************************************************************************)
EXTENDS Naturals, FiniteSets

CONSTANTS
    Tabs,
    SessionIds, LoginIds,
    Regenerate,   \* constants.REGENERATE
    IdleTime,     \* constants.IDLETIME
    Expiry,       \* sessionExpiry
    MaxCalls,     \* requests in flight
    Absent,
    Nothing, Clear  \* what an answer that brings no session says of the session cookie

Token == [id : SessionIds, key : 1..3, left : 0..Expiry]

\* A new key outlives the sessions that nothing touches: 15 minutes and 10.
ASSUME SignInAssumption ==
    /\ Regenerate \in Nat /\ IdleTime \in Nat /\ Expiry \in Nat /\ Regenerate > IdleTime
    /\ Absent \notin Nat \cup LoginIds \cup Token
    /\ Nothing # Clear /\ Absent \notin {Nothing, Clear} /\ {Nothing, Clear} \cap Token = {}

VARIABLES
    admin,        \* is there an administrator
    exists,      \* does the account of the user exist
    touched,      \* sessions.list: how long ago, or Absent
    ended,        \* the sessions that were signed out, or whose account is gone (history)
    logins,       \* logins.list
    rotation,     \* the time until the next key
    cookies,      \* the browser's: the login, and the session with its key and its expiry
    tabs,         \* the page of each tab
    calls,        \* the requests in flight
    heard         \* the time since the last answer to a request of a session (history)

clocks == <<rotation, heard>>
signInVars == <<admin, exists, touched, ended, logins, clocks, cookies, tabs, calls>>

NoCookies == [login |-> Absent, session |-> Absent]

\* What a request carries, and what its answer says of the session cookie.
Request(tab, kind) == [tab |-> tab, kind |-> kind, at |-> "sent", cookies |-> cookies, ok |-> FALSE, sets |-> Nothing]

Becomes(c, d) == calls' = (calls \ {c}) \cup {d}

Served(c, ok, sets) == Becomes(c, [c EXCEPT !.at = "served", !.ok = ok, !.sets = sets])

Send(tab, kind) ==
    /\ Cardinality(calls) < MaxCalls /\ \A c \in calls : c.tab # tab \/ c.kind # kind
    /\ calls' = calls \cup {Request(tab, kind)}
    /\ UNCHANGED <<admin, exists, touched, ended, logins, clocks, cookies, tabs>>

-----------------------------------------------------------------------------
(* The pages. *)

\* setup(); preauth(), which auth() follows; the refresh of a page; onSignOut()
Setup(t) == tabs[t] = "setup" /\ Send(t, "setup")
Login(t) == tabs[t] = "login" /\ Send(t, "preauth")
Poll(t) == tabs[t] = "page" /\ Send(t, "poll")
SignOut(t) == tabs[t] = "page" /\ Send(t, "logout")

\* A tab is opened, or loaded again.
Reload(t) ==
    /\ \A c \in calls : c.tab # t
    /\ tabs' = [tabs EXCEPT ![t] = IF ~admin THEN "setup" ELSE IF cookies.session = Absent THEN "login" ELSE "page"]
    /\ tabs' # tabs
    /\ UNCHANGED <<admin, exists, touched, ended, logins, clocks, cookies, calls>>

-----------------------------------------------------------------------------
(* The server. *)

\* Setup(), MakeAdminUser(): the account is the administrator's.
ServeSetup(c) ==
    /\ c.kind = "setup" /\ c.at = "sent"
    /\ admin' = TRUE /\ exists' = (exists \/ ~admin)
    /\ Served(c, TRUE, Nothing)
    /\ UNCHANGED <<touched, ended, logins, clocks, cookies, tabs>>

\* Preauthenticate(): a login that is good for a minute and for one use.
ServePreauth(c) ==
    /\ c.kind = "preauth" /\ c.at = "sent"
    /\ \E l \in LoginIds \ ({cookies.login} \cup {d.cookies.login : d \in calls}) :
           /\ logins' = logins \cup {l}
           /\ Becomes(c, [c EXCEPT !.at = "served", !.ok = TRUE, !.cookies.login = l])
    /\ UNCHANGED <<admin, exists, touched, ended, clocks, cookies, tabs>>

Unused == {s \in SessionIds : /\ touched[s] = Absent
                              /\ \A k \in {cookies.session} \cup {c.cookies.session : c \in calls} : k = Absent \/ k.id # s
                              /\ \A c \in calls : c.sets \notin {Nothing, Clear} => c.sets.id # s}

\* Login(), Authenticate(): the login is used up whether the password is right or not. Without
\* one the session is cleared, and the redirect to the login page is answered as a success.
ServeAuth(c) ==
    /\ c.kind = "auth" /\ c.at = "sent"
    /\ logins' = logins \ {c.cookies.login}
    /\ IF c.cookies.login = Absent THEN Served(c, TRUE, Clear) /\ UNCHANGED <<touched, ended>>
       ELSE \/ /\ c.cookies.login \in logins /\ exists
               /\ \E s \in Unused :
                      /\ touched' = [touched EXCEPT ![s] = 0]
                      /\ ended' = ended \ {s}
                      /\ Served(c, TRUE, [id |-> s, key |-> 1, left |-> Expiry])
            \/ Served(c, FALSE, Nothing) /\ UNCHANGED <<touched, ended>>
    /\ UNCHANGED <<admin, exists, clocks, cookies, tabs>>

\* A bug: a session that is not the current key's is verified, and keeps its key.
ResignedNever(k) == Nothing

\* Authenticated(): what another key than the current one signed is signed again, with the
\* expiry it has.
Resigned(k) == IF k.key = 1 THEN Nothing ELSE [k EXCEPT !.key = 1]

\* getToken(), IsValidAt(), extant()
Extant(k) == k.key <= 2 /\ k.left > 0 /\ touched[k.id] # Absent /\ touched[k.id] <= IdleTime

\* The request of a page: the session is looked up, and touched later.
Find(c) ==
    /\ c.kind = "poll" /\ c.at = "sent"
    /\ LET k == c.cookies.session IN
       IF k # Absent /\ Extant(k) /\ exists
       THEN Becomes(c, [c EXCEPT !.at = "found"]) /\ UNCHANGED <<touched, ended>>
       ELSE /\ IF k # Absent /\ Extant(k)
               THEN touched' = [touched EXCEPT ![k.id] = Absent] /\ ended' = ended \cup {k.id}
               ELSE UNCHANGED <<touched, ended>>
            /\ Served(c, FALSE, Clear)
    /\ UNCHANGED <<admin, exists, logins, clocks, cookies, tabs>>

Touch(c) ==
    /\ c.kind = "poll" /\ c.at = "found"
    /\ touched' = [touched EXCEPT ![c.cookies.session.id] = 0]
    /\ Served(c, TRUE, Resigned(c.cookies.session))
    /\ UNCHANGED <<admin, exists, ended, logins, clocks, cookies, tabs>>

\* Logout(): a cookie that no key verifies ends no session.
ServeLogout(c) ==
    /\ c.kind = "logout" /\ c.at = "sent"
    /\ LET k == c.cookies.session IN
       IF k # Absent /\ k.key <= 2
       THEN touched' = [touched EXCEPT ![k.id] = Absent] /\ ended' = ended \cup {k.id}
       ELSE UNCHANGED <<touched, ended>>
    /\ Served(c, TRUE, Clear)
    /\ UNCHANGED <<admin, exists, logins, clocks, cookies, tabs>>

SweptAfter == 2 * IdleTime

\* sweep()
Sweep ==
    /\ \E s \in SessionIds : touched[s] # Absent /\ touched[s] > SweptAfter
    /\ touched' = [s \in SessionIds |-> IF touched[s] # Absent /\ touched[s] > SweptAfter THEN Absent ELSE touched[s]]
    /\ UNCHANGED <<admin, exists, ended, logins, clocks, cookies, tabs, calls>>

\* The key that signed is 1, the one before it is 2, and 3 is any that is forgotten: each of
\* the keys that are kept becomes the one before it in turn, so only one of them is older.
Rekeyed(k) == IF k = Absent \/ k.key = 3 THEN k ELSE [k EXCEPT !.key = @ + 1]

RekeyedCall(c) ==
    [c EXCEPT !.cookies.session = Rekeyed(@), !.sets = IF @ \in {Nothing, Clear} THEN @ ELSE Rekeyed(@)]

\* regenerate()
Rotate ==
    /\ rotation = 0
    /\ rotation' = Regenerate
    /\ cookies' = [cookies EXCEPT !.session = Rekeyed(@)]
    /\ calls' = {RekeyedCall(c) : c \in calls}
    /\ UNCHANGED <<admin, exists, touched, ended, logins, heard, tabs>>

\* The account is deleted elsewhere.
DeleteAccount ==
    /\ exists /\ exists' = FALSE
    /\ UNCHANGED <<admin, touched, ended, logins, clocks, cookies, tabs, calls>>

-----------------------------------------------------------------------------
(* The answers. *)

\* preauth() answered: auth() with the cookies of now.
PreauthArrives(c) ==
    /\ c.kind = "preauth" /\ c.at = "served"
    /\ cookies' = [cookies EXCEPT !.login = c.cookies.login]
    /\ Becomes(c, [c EXCEPT !.kind = "auth", !.at = "sent", !.cookies = cookies'])
    /\ UNCHANGED <<admin, exists, touched, ended, logins, clocks, tabs>>

NewSession(c) == CASE c.sets = Nothing -> cookies.session
                   [] c.sets = Clear -> Absent
                   [] OTHER -> c.sets

Arrive(c) ==
    /\ c.at = "served" /\ c.kind # "preauth"
    /\ cookies' = [login |-> IF c.kind = "auth" /\ c.ok /\ c.sets # Clear THEN Absent ELSE cookies.login,
                   session |-> NewSession(c)]
    /\ tabs' = [tabs EXCEPT ![c.tab] = CASE c.kind = "setup" -> IF cookies.session = Absent THEN "login" ELSE "page"
                                         [] c.kind = "auth" -> IF c.ok THEN "page" ELSE @
                                         [] c.kind = "poll" -> IF c.ok THEN @ ELSE "login"
                                         [] c.kind = "logout" -> "login"]
    /\ heard' = IF c.ok /\ c.kind \in {"auth", "poll"} THEN 0 ELSE heard
    /\ calls' = calls \ {c}
    /\ UNCHANGED <<admin, exists, touched, ended, logins, rotation>>

\* A request or its answer is lost.
Lose(c) ==
    /\ calls' = calls \ {c}
    /\ UNCHANGED <<admin, exists, touched, ended, logins, clocks, cookies, tabs>>

Older(age, most) == IF age = Absent THEN Absent ELSE IF age < most THEN age + 1 ELSE most

\* Five minutes: no request takes as long as that. A login and its cookie are good for less.
FiveMinutes ==
    /\ rotation > 0 /\ calls = {}
    /\ rotation' = rotation - 1
    /\ heard' = Older(heard, IdleTime + 1)
    /\ touched' = [s \in SessionIds |-> Older(touched[s], 2 * IdleTime + 1)]
    /\ logins' = {}
    /\ cookies' = [login |-> Absent,
                   session |-> IF cookies.session = Absent \/ cookies.session.left = 0 THEN cookies.session
                               ELSE [cookies.session EXCEPT !.left = @ - 1]]
    /\ UNCHANGED <<admin, exists, ended, tabs, calls>>

-----------------------------------------------------------------------------
SignInInit ==
    /\ admin \in BOOLEAN /\ exists = admin
    /\ touched = [s \in SessionIds |-> Absent] /\ ended = {} /\ logins = {}
    /\ rotation = Regenerate /\ heard = 0
    /\ cookies = NoCookies
    /\ tabs = [t \in Tabs |-> IF admin THEN "login" ELSE "setup"]
    /\ calls = {}

SignInNext ==
    \/ \E t \in Tabs : Setup(t) \/ Login(t) \/ Poll(t) \/ SignOut(t) \/ Reload(t)
    \/ \E c \in calls :
           \/ ServeSetup(c) \/ ServePreauth(c) \/ ServeAuth(c) \/ Find(c) \/ Touch(c) \/ ServeLogout(c)
           \/ PreauthArrives(c) \/ Arrive(c) \/ Lose(c)
    \/ Sweep \/ Rotate \/ DeleteAccount \/ FiveMinutes

SignInSpec == SignInInit /\ [][SignInNext]_signInVars

-----------------------------------------------------------------------------
(* Type invariant. *)
SignInTypeOK ==
    /\ admin \in BOOLEAN /\ exists \in BOOLEAN
    /\ touched \in [SessionIds -> 0..2 * IdleTime + 1 \cup {Absent}]
    /\ ended \subseteq SessionIds /\ logins \subseteq LoginIds
    /\ rotation \in 0..Regenerate /\ heard \in 0..IdleTime + 1
    /\ cookies \in [login : LoginIds \cup {Absent}, session : Token \cup {Absent}]
    /\ tabs \in [Tabs -> {"setup", "login", "page"}]
    /\ \A c \in calls : c.sets \in {Nothing, Clear} \cup Token

\* Authenticated(), regenerate(), sweep(): while the server answers the pages of a browser at
\* least every ten minutes, the keys that it forgets and the sessions that it sweeps never end
\* their session before its time, whichever answers were lost or late.
StaysSignedIn ==
    LET k == cookies.session IN
    k # Absent /\ k.left > 0 /\ heard <= IdleTime /\ k.id \notin ended => Extant(k)

=============================================================================
