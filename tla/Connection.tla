----------------------------- MODULE Connection -----------------------------
(***************************************************************************)
(* What a page of the tables knows of its connection (uhppoted.js and the  *)
(* requests of tabular.js): the refresh every 15 seconds, the time since   *)
(* the first of the requests that failed, the sign-out of an idle page,    *)
(* the windmill that turns while the user waits, the message, and the page *)
(* that says SYSTEM OFFLINE.                                               *)
(***************************************************************************)
EXTENDS Naturals

CONSTANTS
    IdleTicks,     \* an idle page signs out after 5 minutes: 20 refreshes
    OfflineTicks,  \* and goes offline when nothing was heard for 60 seconds: 4
    MaxRequests,   \* requests of a kind in flight
    MaxClicks,     \* the clicks on anything that makes a request
    MaxOutages,    \* how often the network fails
    Never          \* no time

ASSUME ConnectionAssumption ==
    /\ IdleTicks \in Nat /\ OfflineTicks \in Nat /\ MaxRequests \in Nat \ {0}
    /\ MaxClicks \in Nat /\ MaxOutages \in Nat /\ Never \notin Nat

VARIABLES
    page,          \* "live", "offline", or "left" for another document
    disconnected,  \* the ticks since the failure that is remembered, or Never
    silent,        \* the ticks since an answer (history)
    idle,          \* the ticks until idleTimer goes off, or Never
    windmill,      \* windmill.dataset.count
    message,       \* is a message shown
    requests,      \* in flight, by kind
    up,            \* does the network work
    clicks, outages

timers == <<disconnected, silent, idle>>
bounds == <<clicks, outages>>
connectionVars == <<page, timers, windmill, message, requests, up, bounds>>

\* get() from the timer and from the Refresh button, post(), onSignOut(), onSynchronize...()
\* and the HEAD of onReload().
RequestKinds == {"poll", "manual", "post", "logout", "synchronize", "reload"}

Open == page # "left"

Older(ticks, most) == IF ticks = Never \/ ticks = most THEN ticks ELSE ticks + 1

-----------------------------------------------------------------------------
(* busy(), unbusy(), connected() and offline() *)

Busy == windmill' = windmill + 1

\* A bug: the count of a refresh that nobody asked for is left alone.
UnbusyUnlessPoll(k) ==
    windmill' = IF k = "poll" THEN windmill ELSE IF windmill > 1 THEN windmill - 1 ELSE 0

Unbusy(k) == windmill' = IF windmill > 1 THEN windmill - 1 ELSE 0

\* connected(false): when the failure that is remembered happened.
Failed == IF disconnected = Never THEN 0 ELSE disconnected

TooLong == disconnected # Never /\ disconnected > OfflineTicks

\* A bug: an answer does not forget the failure.
AnsweredRemembers == disconnected

\* connected(true)
Answered == Never

\* document.body is replaced and the refresh stopped.
Offline == page' = "offline" /\ windmill' = 0 /\ message' = FALSE

-----------------------------------------------------------------------------
(* Time. *)

\* setInterval: onRefresh() without a Refresh button, which neither turns the windmill nor
\* takes the message away.
TickMessage == UNCHANGED message

IdleRuns == idle' = IF idle = Never THEN Never ELSE idle - 1

Tick ==
    /\ Open /\ idle # 0
    /\ page = "live" => requests["poll"] < MaxRequests
    /\ disconnected' = Older(disconnected, OfflineTicks + 1)
    /\ silent' = Older(silent, OfflineTicks + 1)
    /\ IdleRuns
    /\ requests' = IF page = "live" THEN [requests EXCEPT !["poll"] = @ + 1] ELSE requests
    /\ TickMessage
    /\ UNCHANGED <<page, windmill, up, bounds>>

SignsOut == requests["logout"] < MaxRequests /\ requests' = [requests EXCEPT !["logout"] = @ + 1]

\* onIdle()
IdleFires ==
    /\ Open /\ idle = 0
    /\ idle' = Never
    /\ SignsOut
    /\ message' = FALSE
    /\ UNCHANGED <<page, disconnected, silent, windmill, up, bounds>>

-----------------------------------------------------------------------------
(* The user: every click is input. *)

\* resetIdle()
ResetIdle == idle' = IdleTicks

\* mousedown, click, scroll or keypress
Input ==
    /\ Open
    /\ ResetIdle
    /\ UNCHANGED <<page, disconnected, silent, windmill, message, requests, up, bounds>>

\* onRefresh(), onCommit(), onSignOut(), onSynchronize...(), onReload()
Click(k) ==
    /\ clicks < MaxClicks /\ requests[k] < MaxRequests
    /\ page = IF k = "reload" THEN "offline" ELSE "live"
    /\ k # "poll"
    /\ ResetIdle
    /\ IF k \in {"manual", "post"} THEN Busy ELSE UNCHANGED windmill
    /\ message' = FALSE
    /\ requests' = [requests EXCEPT ![k] = @ + 1]
    /\ clicks' = clicks + 1
    /\ UNCHANGED <<page, disconnected, silent, up, outages>>

-----------------------------------------------------------------------------
(* The requests. *)

Settle(k) == requests[k] > 0 /\ requests' = [requests EXCEPT ![k] = @ - 1]

\* A redirect is followed to the other document, as is a synchronised page to itself, and a
\* page to its reload.
Leaves(k, outcome) ==
    \/ outcome = "redirected"
    \/ k = "reload"
    \/ k = "synchronize" /\ outcome = "ok"

\* The server answers a sign-out with a redirect, and a synchronisation of the times or the
\* doors without content, which takes the message away.
Outcomes(k) ==
    CASE k = "logout" -> {"redirected"}
      [] k = "synchronize" -> {"ok", "empty", "refused", "redirected"}
      [] OTHER -> {"ok", "refused", "redirected"}

Message(outcome) ==
    CASE page # "live" \/ outcome = "empty" -> FALSE
      [] page = "live" /\ outcome = "refused" -> TRUE
      [] OTHER -> message

Answer(k) ==
    /\ Open /\ up /\ Settle(k)
    /\ IF k = "reload" THEN UNCHANGED <<disconnected, silent>>
       ELSE disconnected' = Answered /\ silent' = 0
    /\ \E outcome \in Outcomes(k) :
        /\ page' = IF Leaves(k, outcome) THEN "left" ELSE page
        /\ message' = Message(outcome)
    /\ IF k \in {"poll", "manual", "post"} /\ page = "live" THEN Unbusy(k) ELSE UNCHANGED windmill
    /\ UNCHANGED <<idle, up, bounds>>

\* A get() whose request fails never settles: its windmill turns on. A sign-out or a
\* synchronisation that fails is the end of the page.
Lose(k) ==
    /\ Open /\ ~up /\ Settle(k)
    /\ IF k = "reload" THEN UNCHANGED disconnected ELSE disconnected' = Failed
    /\ IF (k # "reload" /\ TooLong) \/ k \in {"logout", "synchronize"} THEN Offline
       ELSE /\ page' = page
            /\ IF k = "post" /\ page = "live" THEN Unbusy(k) /\ message' = TRUE
               ELSE UNCHANGED <<windmill, message>>
    /\ UNCHANGED <<silent, idle, up, bounds>>

Network ==
    /\ Open
    /\ up' = ~up
    /\ up => outages < MaxOutages
    /\ outages' = IF up THEN outages + 1 ELSE outages
    /\ UNCHANGED <<page, timers, windmill, message, requests, clicks>>

-----------------------------------------------------------------------------
ConnectionInit ==
    /\ page = "live" /\ up = TRUE
    /\ disconnected = Never /\ silent = 0
    /\ idle = IdleTicks
    /\ windmill = 0 /\ message = FALSE
    /\ requests = [k \in RequestKinds |-> IF k = "poll" THEN 1 ELSE 0]
    /\ clicks = 0 /\ outages = 0

ConnectionNext ==
    \/ Tick \/ IdleFires \/ Input \/ Network
    \/ \E k \in RequestKinds : Click(k) \/ Answer(k) \/ Lose(k)

\* The clocks run, and a request is answered or fails.
ConnectionFairness ==
    /\ WF_connectionVars(Tick) /\ WF_connectionVars(IdleFires)
    /\ \A k \in RequestKinds : WF_connectionVars(Answer(k) \/ Lose(k))

ConnectionSpec == ConnectionInit /\ [][ConnectionNext]_connectionVars
ConnectionFairSpec == ConnectionSpec /\ ConnectionFairness

-----------------------------------------------------------------------------
(* Type invariant. *)
ConnectionTypeOK ==
    /\ page \in {"live", "offline", "left"}
    /\ disconnected \in {Never} \cup 0..OfflineTicks + 1 /\ silent \in 0..OfflineTicks + 1
    /\ idle \in {Never} \cup 0..IdleTicks
    /\ windmill \in 0..2 * MaxRequests + MaxClicks
    /\ message \in BOOLEAN /\ up \in BOOLEAN
    /\ requests \in [RequestKinds -> 0..MaxRequests]
    /\ clicks \in 0..MaxClicks /\ outages \in 0..MaxOutages

\* connected(): a page that nobody signs out or synchronises goes offline only when no
\* answer came for more than 60 seconds, however many requests failed between answers.
OfflineOnlyAfterSilence ==
    [][page = "live" /\ page' = "offline" =>
           \/ silent > OfflineTicks
           \/ \E k \in {"logout", "synchronize"} : requests'[k] < requests[k]]_connectionVars

\* connected(): and when the network stays away it does go offline, also under a user who
\* keeps it from signing out.
SilenceEndsPage == <>[]~up => <>(page # "live")

\* busy(), unbusy(): the windmill stops. What a get() whose request was lost leaves on the
\* count is taken off by the refresh of the timer.
WindmillEnds == windmill > 0 ~> (windmill = 0 \/ page # "live")

\* onRefresh(), warning(): the message of a request that was refused is not taken away by
\* what the page does of itself, apart from its sign-out: it stays until the user asks for something.
MessageStays ==
    [][message /\ ~message' =>
           \/ page' # "live"
           \/ clicks' > clicks \/ requests'["logout"] > requests["logout"]
           \/ requests'["synchronize"] < requests["synchronize"]]_connectionVars

=============================================================================
