----------------------------- MODULE MCConsole -----------------------------
(***************************************************************************)
(* The gate-control console for TLC: what Page shows of two credentials of *)
(* one person, written two ways, and how Connection ends the page.  One of *)
(* the two runs, the other stays as it starts.                             *)
(***************************************************************************)
EXTENDS Page, Connection

VARIABLE at   \* which of the two

pageVars == vars
consoleVars == <<at, pageVars, connectionVars>>

\* "ann" is "Ann" written otherwise.
SameName(n) == IF n = "ann" THEN "Ann" ELSE n
Card(name, team, kind, deleted) == [name |-> name, team |-> team, kind |-> kind, deleted |-> deleted]
\* The items 1 and 254, an access level and No Access.
NameOf(i) == IF i = 1 THEN "g1" ELSE "g254"
Two(a, b) == [c \in {1, 2} |-> IF c = 1 THEN a ELSE b]
MCCardSets ==
    {NoCards,
     Two(Card("Ann", "Red", "card", FALSE), Card("ann", Blank, "rf-remote", FALSE)),
     Two(Card("Ann", Blank, "card", TRUE), Card(Blank, "Blue", "rf-remote", FALSE)),
     Two(Card("Ann", Blank, "card", TRUE), Card(Blank, Blank, "card", TRUE))}

-----------------------------------------------------------------------------
ConsoleInit ==
    /\ at \in {"page", "connection"}
    /\ Init /\ (at = "connection" => route = "cards" /\ server.cards = NoCards /\ server.mode = "open")
    /\ ConnectionInit

ConsoleNext ==
    \/ at = "page" /\ Next /\ UNCHANGED <<at, connectionVars>>
    \/ at = "connection" /\ ConnectionNext /\ UNCHANGED <<at, pageVars>>

\* The fairness of Page and of Connection.
ConsoleSpec ==
    /\ ConsoleInit /\ [][ConsoleNext]_consoleVars
    /\ WF_pageVars(at = "page" /\ Poll) /\ WF_pageVars(at = "page" /\ Served)
    /\ WF_pageVars(at = "page" /\ Arrives) /\ WF_pageVars(at = "page" /\ SentAway)
    /\ WF_connectionVars(at = "connection" /\ Tick)
    /\ WF_connectionVars(at = "connection" /\ IdleFires)
    /\ \A k \in RequestKinds :
           WF_connectionVars(at = "connection" /\ (Answer(k) \/ Lose(k)))

-----------------------------------------------------------------------------
ConsoleTypeOK == TypeOK /\ ConnectionTypeOK

\* Page: once the server stays as it is, the copy is the server's, or the page is the login page,
\* and the buttons that were disabled are not for longer than the requests take.
ConsoleConverges == <>[](at = "page" => away \/ view = server) /\ [](at = "page" => ButtonsReturn)

\* Connection: a page goes offline only when no answer came for a minute, and it does when none
\* comes any more; and it is signed out when nobody uses it.
PageEnds ==
    /\ OfflineOnlyAfterSilence
    /\ SilenceEndsPage
    /\ <>[][~Input]_connectionVars => <>(page # "live" \/ at = "page")

\* Connection: the windmill stops, whichever requests were lost, and the message of one that was
\* refused stays.
WindmillStops == WindmillEnds /\ MessageStays

=============================================================================
