------------------------------ MODULE OneTime ------------------------------
(***************************************************************************)
(* The one-time password of an account: the controls of the password page  *)
(* (password.js), the secrets the server hands out and forgets (otp.go)    *)
(* and the one it stores for the account, with answers that overtake each  *)
(* other, answers that are lost and a server that works on for a request   *)
(* that the page was told has failed.                                      *)
(***************************************************************************)
EXTENDS Naturals, FiniteSets

CONSTANTS
    Keys,          \* names the server may give to a secret
    PageTicks,     \* the page shows a secret for 2 minutes
    ServerTicks,   \* the server and the cookie keep it for 5
    MaxFetches,      \* requests in flight
    MaxClicks,     \* clicks
    None

\* 2 minutes of 5, one of which an answer may take.
ASSUME OneTimeAssumption ==
    /\ PageTicks \in Nat \ {0} /\ ServerTicks \in Nat /\ ServerTicks > PageTicks + 1
    /\ None \notin Keys \cup Nat

VARIABLES
    enabled,       \* fieldset.dataset.enabled: "false", "pending" or "true"
    otp,           \* fieldset.dataset.otp: "show" or "hide"
    checkbox,      \* is it checked, is it enabled
    qrcode,        \* the secret of the picture, or None
    expired,       \* the ticks until otpExpired(), or None
    cookie,        \* [key, ticks]
    secrets,       \* secrets: of a key the secret and the ticks it lasts
    stored,        \* the secret of the account, or None
    fetches,         \* the requests in flight
    overtook,      \* was the page used while it waited for an answer (history)
    unheard,       \* is the page not told what was last done with the stored secret (history)
    pressed        \* counted clicks

fields == <<enabled, otp, checkbox, qrcode, expired>>
server == <<secrets, stored>>
oneTimeVars == <<fields, cookie, server, fetches, overtook, unheard, pressed>>

NoCookie == [key |-> None, ticks |-> 0]

NoSecret == [secret |-> None, ticks |-> 0]

Kept(key) == key # None /\ secrets[key].ticks > 0

\* What the styles let the user see and click.
Shown == enabled # "false" /\ otp = "show"

-----------------------------------------------------------------------------
(* Requests: "sent", "served" by the server, and for a picture "read", when its headers    *)
(* have set the cookie and the timer and its data is still to come. *)

Call(kind, code) ==
    [id |-> pressed + 1, kind |-> kind, at |-> "sent", key |-> cookie.key, code |-> code, ok |-> FALSE,
     working |-> FALSE, late |-> FALSE]

\* The requests that the page waits for: the others it was told have failed.
Awaited == {c \in fetches : ~c.working}

Fetch(kind, code) ==
    /\ pressed < MaxClicks /\ Cardinality(fetches) < MaxFetches
    /\ pressed' = pressed + 1
    /\ fetches' = fetches \cup {Call(kind, code)}
    /\ overtook' = (overtook \/ Awaited # {})

Moves(c, d) == fetches' = (fetches \ {c}) \cup {d}

\* onEnableOTP(): GET /otp, or the end of it.
Check ==
    /\ enabled # "true" /\ checkbox.enabled
    /\ checkbox' = [checkbox EXCEPT !.checked = ~@]
    /\ IF checkbox.checked
       THEN /\ enabled' = "false"
            /\ pressed < MaxClicks /\ pressed' = pressed + 1
            /\ overtook' = (overtook \/ Awaited # {})
            /\ UNCHANGED <<qrcode, fetches>>
       ELSE /\ Fetch("enable", None)
            /\ qrcode' = None
            /\ UNCHANGED enabled
    /\ UNCHANGED <<otp, expired, cookie, server, unheard>>

\* onShowOTP(): the address of the picture is revoked before the new one is asked for.
Show ==
    /\ enabled # "false" /\ otp = "hide"
    /\ Fetch("show", None)
    /\ qrcode' = None
    /\ UNCHANGED <<enabled, otp, checkbox, expired, cookie, server, unheard>>

\* onHideOTP()
Hide ==
    /\ Shown
    /\ otp' = "hide" /\ qrcode' = None
    /\ expired' = None
    /\ UNCHANGED <<enabled, checkbox, cookie, server, fetches, overtook, unheard, pressed>>

\* onVerifyOTP(): a code of the secret in view.
SubmitCode ==
    /\ enabled = "pending"
    /\ Fetch("verify", IF Shown THEN qrcode ELSE None)
    /\ UNCHANGED <<fields, cookie, server, unheard>>

\* onRevokeOTP()
Revoke ==
    /\ enabled = "true"
    /\ Fetch("revoke", None)
    /\ UNCHANGED <<fields, cookie, server, unheard>>

-----------------------------------------------------------------------------
(* The server. *)

Fresh == {k \in Keys : secrets[k].ticks = 0}

\* A bug: a secret lasts the minute it was generated for.
LastsAMinute == 1

\* Get(): five minutes from when it is shown.
Lasts == ServerTicks

\* The answer, unless nobody waits for it any more.
Answer(c, d) == IF c.working THEN fetches' = fetches \ {c} ELSE Moves(c, d)

\* Get(): the secret of the cookie, the account's under a new name, or a new one.
ServeSecret(c) ==
    /\ c.kind \in {"enable", "show"}
    /\ \E k \in IF Kept(c.key) THEN {c.key} ELSE Fresh :
        LET secret == CASE Kept(c.key) -> secrets[k].secret
                        [] ~Kept(c.key) /\ stored # None -> stored
                        [] OTHER -> k
        IN  /\ secrets' = [secrets EXCEPT ![k] = [secret |-> secret, ticks |-> Lasts]]
            /\ Answer(c, [c EXCEPT !.at = "served", !.key = k, !.code = secret, !.ok = TRUE])
    /\ UNCHANGED <<stored, unheard>>

\* Validate()
Valid(c) == Kept(c.key) /\ c.code = secrets[c.key].secret

\* VerifyOTP(), in the worker of respond(): by then the page may have been told 'timeout'.
ServeVerify(c) ==
    /\ c.kind = "verify"
    /\ IF Valid(c) THEN stored' = c.code /\ unheard' = c.working
       ELSE UNCHANGED <<stored, unheard>>
    /\ Answer(c, [c EXCEPT !.at = "served", !.ok = Valid(c)])
    /\ UNCHANGED secrets

\* RevokeOTP()
ServeRevoke(c) ==
    /\ c.kind = "revoke"
    /\ stored' = None /\ unheard' = c.working
    /\ Answer(c, [c EXCEPT !.at = "served", !.ok = TRUE])
    /\ UNCHANGED secrets

\* A wrong password in the form, an error, or a request that is lost.
Refuse(c) ==
    /\ Answer(c, [c EXCEPT !.at = "served"])
    /\ UNCHANGED <<server, unheard>>

Serve(c) ==
    /\ c.at = "sent"
    /\ ServeSecret(c) \/ ServeVerify(c) \/ ServeRevoke(c) \/ Refuse(c)
    /\ UNCHANGED <<fields, cookie, overtook, pressed>>

-----------------------------------------------------------------------------
(* The answers. *)

\* What the page does of a failure, besides the warning it shows.
Caught(c) ==
    IF c.kind = "enable" THEN enabled' = "false" /\ checkbox' = [checkbox EXCEPT !.checked = FALSE]
    ELSE UNCHANGED <<enabled, checkbox>>

\* respond() answers 'timeout', or the connection is lost: the server works on.
GiveUp(c) ==
    /\ c.at = "sent" /\ ~c.working
    /\ Caught(c)
    /\ Moves(c, [c EXCEPT !.working = TRUE])
    /\ UNCHANGED <<otp, qrcode, expired, cookie, server, overtook, unheard, pressed>>

\* The answer of a request that was served is lost, or the data of a picture.
AnswerLost(c) ==
    /\ c.at \in {"served", "read"} /\ c.ok
    /\ Caught(c)
    /\ fetches' = fetches \ {c}
    /\ unheard' = (unheard \/ c.kind \in {"verify", "revoke"})
    /\ UNCHANGED <<otp, qrcode, expired, cookie, server, overtook, pressed>>

Timer(c) == PageTicks

\* getOTP(): the headers of a picture.
ReadHeaders(c) ==
    /\ c.at = "served" /\ c.kind \in {"enable", "show"} /\ c.ok
    /\ cookie' = [key |-> c.key, ticks |-> ServerTicks]
    /\ expired' = Timer(c)
    /\ Moves(c, [c EXCEPT !.at = "read"])
    /\ UNCHANGED <<enabled, otp, checkbox, qrcode, server, overtook, unheard, pressed>>

\* ... and the picture.
ReadPicture(c) ==
    /\ c.at = "read"
    /\ qrcode' = c.code /\ otp' = "show"
    /\ enabled' = IF c.kind = "enable" THEN "pending" ELSE enabled
    /\ fetches' = fetches \ {c}
    /\ UNCHANGED <<checkbox, expired, cookie, server, overtook, unheard, pressed>>

Accepted(c) == c.ok

ReadAnswer(c) ==
    /\ c.at = "served" /\ ~(c.kind \in {"enable", "show"} /\ c.ok)
    /\ CASE c.kind = "verify" /\ Accepted(c) ->
              enabled' = "true" /\ checkbox' = [checkbox EXCEPT !.enabled = FALSE]
         [] c.kind = "revoke" /\ c.ok ->
              enabled' = "false" /\ checkbox' = [checked |-> FALSE, enabled |-> TRUE]
         [] OTHER -> Caught(c)
    /\ fetches' = fetches \ {c}
    /\ UNCHANGED <<otp, qrcode, expired, cookie, server, overtook, unheard, pressed>>

\* otpExpired()
Expire ==
    /\ expired = 0
    /\ expired' = None
    /\ IF enabled = "pending" THEN otp' = "hide" /\ qrcode' = None ELSE UNCHANGED <<otp, qrcode>>
    /\ UNCHANGED <<enabled, checkbox, cookie, server, fetches, overtook, unheard, pressed>>

\* A minute: an answer is on its way for at most one, its data for less.
Minute ==
    /\ expired # 0 /\ \A c \in fetches : c.at # "read" /\ ~c.late
    /\ expired' = IF expired = None THEN None ELSE expired - 1
    /\ cookie' = IF cookie.ticks <= 1 THEN NoCookie ELSE [cookie EXCEPT !.ticks = @ - 1]
    /\ secrets' = [k \in Keys |->
                     IF secrets[k].ticks <= 1 THEN NoSecret ELSE [secrets[k] EXCEPT !.ticks = @ - 1]]
    /\ fetches' = {[c EXCEPT !.late = (c.at = "served")] : c \in fetches}
    /\ UNCHANGED <<enabled, otp, checkbox, qrcode, stored, overtook, unheard, pressed>>

-----------------------------------------------------------------------------
OneTimeInit ==
    /\ stored \in {None} \cup Keys
    /\ enabled = IF stored = None THEN "false" ELSE "true"
    /\ otp = "hide" /\ qrcode = None /\ expired = None
    /\ checkbox = [checked |-> FALSE, enabled |-> TRUE]
    /\ cookie = NoCookie
    /\ secrets = [k \in Keys |-> NoSecret]
    /\ fetches = {} /\ overtook = FALSE /\ unheard = FALSE /\ pressed = 0

OneTimeNext ==
    \/ Check \/ Show \/ Hide \/ SubmitCode \/ Revoke
    \/ \E c \in fetches :
           Serve(c) \/ GiveUp(c) \/ AnswerLost(c) \/ ReadHeaders(c) \/ ReadPicture(c) \/ ReadAnswer(c)
    \/ Expire \/ Minute

OneTimeSpec == OneTimeInit /\ [][OneTimeNext]_oneTimeVars

-----------------------------------------------------------------------------
(* Type invariant. *)
OneTimeTypeOK ==
    /\ enabled \in {"false", "pending", "true"} /\ otp \in {"show", "hide"}
    /\ checkbox \in [checked : BOOLEAN, enabled : BOOLEAN]
    /\ qrcode \in Keys \cup {None}
    /\ expired \in 0..PageTicks \cup {None}
    /\ cookie \in [key : Keys \cup {None}, ticks : 0..ServerTicks]
    /\ secrets \in [Keys -> [secret : Keys \cup {None}, ticks : 0..ServerTicks]]
    /\ stored \in Keys \cup {None}
    /\ \A c \in fetches : c.key \in Keys \cup {None} /\ c.code \in Keys \cup {None}

\* getOTP(), onHideOTP(): a secret that is not yet verified is never in view without the
\* timer that hides it, whatever fails, is lost or is done by the server after the page was told
\* that it failed, unless the page was used while it waited for an answer.
PendingTimesOut == enabled = "pending" /\ Shown /\ ~overtook => expired # None

\* otp.go Get(), getOTP(): and the code of the secret in view is one that the server accepts.
ShownIsAccepted ==
    enabled = "pending" /\ Shown /\ ~overtook =>
        Kept(cookie.key) /\ secrets[cookie.key].secret = qrcode

\* onVerifyOTP(), onRevokeOTP(): when the page waits for nothing it says 'enabled' when and
\* only when a secret is stored for the account, unless it was used while it waited, or what
\* the server last stored or removed was for a request that the page was told had failed.
EnabledIsStored ==
    Awaited = {} /\ ~overtook /\ ~unheard => (enabled = "true" <=> stored # None)

\* What the page says of the secret is what the server does with it.
SecretsAgree == PendingTimesOut /\ ShownIsAccepted /\ EnabledIsStored

=============================================================================
