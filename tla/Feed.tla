-------------------------------- MODULE Feed --------------------------------
(***************************************************************************)
(* The events and the logs, which grow for ever, on the pages that list    *)
(* them and on the overview.  The newest entries are got with every poll,  *)
(* older ones with the button 'more', which asks from the number there are *)
(* in DB on (tabular.js).  The server lists the newest first; entries of   *)
(* one second come in any order.                                           *)
(***************************************************************************)
EXTENDS Lists, FiniteSets

CONSTANTS
    MaxEntries, \* entries of the server
    MaxSeconds, \* seconds in which they were made
    PageSize,   \* entries in an answer
    Top,        \* entries on the overview
    Offset,     \* of the time zone of the browser
    Unknown     \* not known

\* The zone of the browser may be ahead or behind.
ASSUME FeedAssumption ==
    /\ {MaxEntries, MaxSeconds, PageSize, Top} \subseteq Nat /\ Offset \in Int
    /\ Unknown \notin 1..MaxEntries

VARIABLES
    page,    \* events or logs, on their own page or on the overview
    log,     \* the entries of the server, the newest first
    time,    \* the seconds in which they were made
    dirty,   \* cache.objects.dirty: the events will be sorted again
    db,      \* the entries of DB in the order of the Map
    oldest,  \* DB.firstEvent(), DB.lastLog(): the oldest entry of the server
    of,      \* how many entries the server had when it gave the last answer that has come
    gets,    \* get() in flight
    rows,    \* the rows of the table
    texts,   \* what the rows show
    more,    \* the button is shown
    focused, \* a field of the table has the focus
    missed   \* entries that fell behind: what the page was never to be told of

feedVars == <<page, log, time, dirty, db, oldest, of, gets, rows, texts, more, focused, missed>>

Pages == [feed : {"events", "logs"}, overview : BOOLEAN]
Entries == 1..MaxEntries

\* The fields of an entry besides its time: a door has a name, and some events an answer.
Granted(e) == IF e % 3 = 0 THEN "true" ELSE IF e % 3 = 1 THEN "false" ELSE ""
Named(e) == "Front"
Lower == [Front |-> "front"]

\* The first k of a list.
Taken(s, k) == SubSeq(s, 1, IF k < Len(s) THEN k ELSE Len(s))

\* sort() is stable.
NewestFirst(s, t) ==
    LET upTo[i \in 0..MaxSeconds] ==
            IF i = 0 THEN <<>> ELSE Among(s, {e \in Entries : t[e] = i}) \o upTo[i - 1]
    IN  upTo[MaxSeconds]

-----------------------------------------------------------------------------
(* The server. *)

\* AsObjects(): entries from start on, as many as there are and not more than PageSize, and the
\* oldest of all.
ListedEvents(start) ==
    [entries |-> Taken(SubSeq(log, start + 1, Len(log)), PageSize),
     oldest |-> IF log = <<>> THEN Unknown ELSE Last(log),
     of |-> Len(log)]

ListedLogs(start) ==
    [entries |-> Taken(SubSeq(log, start + 1, Len(log)), PageSize),
     oldest |-> IF log = <<>> THEN Unknown ELSE Last(log),
     of |-> Len(log)]

ListedFeed(start) == IF page.feed = "events" THEN ListedEvents(start) ELSE ListedLogs(start)

\* What the page has been told, also by answers that are still on their way.
Told(g) == Range(db) \cup UNION {IF g[i].answer = Unknown THEN {} ELSE Range(g[i].answer.entries) : i \in DOMAIN g}

\* The entries of a log that the page has not been told of, that are not among the newest, and
\* that are newer than one that it has been told of.
Behind(l, told) ==
    {l[i] : i \in {j \in DOMAIN l : j > PageSize /\ l[j] \notin told /\ \E k \in j+1..Len(l) : l[k] \in told}}

\* An entry is made, or retrieved late, and is put where its second belongs.
Made ==
    /\ Len(log) < MaxEntries
    /\ LET e == Len(log) + 1 IN
       \E s \in 1..MaxSeconds, p \in 1..Len(log) + 1 :
          LET l == InsertAt(log, p, e)
              t == [time EXCEPT ![e] = s] IN
          /\ NewestFirst(l, t) = l
          /\ log' = l /\ time' = t /\ missed' = missed \cup Behind(l, Told(gets))
    /\ dirty' = TRUE
    /\ UNCHANGED <<page, db, oldest, of, gets, rows, texts, more, focused>>

\* The keys of a map are sorted by their seconds: the logs with every request, the events after
\* another was made.
Reordered ==
    /\ page.feed = "events" => dirty
    /\ \E i \in 1..Len(log) - 1 :
          /\ time[log[i]] = time[log[i+1]]
          /\ log' = [log EXCEPT ![i] = log[i+1], ![i+1] = log[i]]
    /\ missed' = missed \cup Behind(log', Told(gets))
    /\ UNCHANGED <<page, time, dirty, db, oldest, of, gets, rows, texts, more, focused>>

-----------------------------------------------------------------------------
(* db.js: events and logs are not deleted and not swept. *)

\* A bug: an event is put into DB with every answer that has it.
HeardEventsAgain(answer) ==
    /\ db' = db \o answer.entries
    /\ oldest' = IF answer.oldest = Unknown THEN oldest ELSE answer.oldest

HeardEvents(answer) ==
    /\ db' = db \o Among(answer.entries, Entries \ Range(db))
    /\ oldest' = IF answer.oldest = Unknown THEN oldest ELSE answer.oldest

HeardLogs(answer) ==
    /\ db' = db \o Among(answer.entries, Entries \ Range(db))
    /\ oldest' = IF answer.oldest = Unknown THEN oldest ELSE answer.oldest

-----------------------------------------------------------------------------
(* refreshed() of the pages *)

\* realize(): rows that are not of the list are taken out, those that are missing put at the end.
RealizedEvents(list) ==
    Among(rows, Range(list)) \o Among(list, Entries \ Range(rows))
RealizedLogs(list) ==
    Among(rows, Range(list)) \o Among(list, Entries \ Range(rows))
RealizedOverviewEvents(list) ==
    Among(rows, Range(list)) \o Among(list, Entries \ Range(rows))
RealizedOverviewLogs(list) ==
    Among(rows, Range(list)) \o Among(list, Entries \ Range(rows))

\* updateFromDB(), updateEvent(), updateLog(): a log has its time in the zone of the browser; the
\* overview shows names in lower case.
Access(granted) == CASE granted = "true" -> "granted" [] granted = "false" -> "denied" [] OTHER -> ""
Format(t) == t + Offset

UpdatedEvents(e) == [time |-> time[e], name |-> Named(e), access |-> Access(Granted(e))]
UpdatedLogs(e) == [time |-> Format(time[e]), name |-> Lower[Named(e)], access |-> ""]
UpdatedOverviewEvents(e) == [time |-> time[e], name |-> Lower[Named(e)], access |-> Access(Granted(e))]
UpdatedOverviewLogs(e) == [time |-> Format(time[e]), name |-> "", access |-> ""]

\* The rows are not sorted while a field has the focus. Every event has a time here: that the
\* events page leaves out those without one (the overview does not) is not modelled.
RefreshedEvents ==
    LET realized == RealizedEvents(NewestFirst(db', time)) IN
    /\ rows' = IF focused THEN realized ELSE NewestFirst(realized, time)
    /\ texts' = [e \in Range(rows') |-> UpdatedEvents(e)]
    /\ more' = (oldest' = Unknown \/ oldest' \notin Range(db'))

RefreshedLogs ==
    /\ rows' = NewestFirst(RealizedLogs(NewestFirst(db', time)), time)
    /\ texts' = [e \in Range(rows') |-> UpdatedLogs(e)]
    /\ more' = (oldest' = Unknown \/ oldest' \notin Range(db'))

RefreshedOverviewEvents ==
    /\ rows' = NewestFirst(RealizedOverviewEvents(Taken(NewestFirst(db', time), Top)), time)
    /\ texts' = [e \in Range(rows') |-> UpdatedOverviewEvents(e)]
    /\ UNCHANGED more

RefreshedOverviewLogs ==
    /\ rows' = NewestFirst(RealizedOverviewLogs(Taken(NewestFirst(db', time), Top)), time)
    /\ texts' = [e \in Range(rows') |-> UpdatedOverviewLogs(e)]
    /\ UNCHANGED more

Refreshed ==
    CASE page = [feed |-> "events", overview |-> FALSE] -> RefreshedEvents
      [] page = [feed |-> "logs", overview |-> FALSE] -> RefreshedLogs
      [] page = [feed |-> "events", overview |-> TRUE] -> RefreshedOverviewEvents
      [] page = [feed |-> "logs", overview |-> TRUE] -> RefreshedOverviewLogs

-----------------------------------------------------------------------------
(* tabular.js *)

\* get(): the entries from start on.  The timer waits longer than an answer takes, and so does
\* the user before clicking again.
Asked(by, start) ==
    /\ \A i \in DOMAIN gets : gets[i].by # by
    /\ gets' = Append(gets, [by |-> by, start |-> start, answer |-> Unknown])

\* onRefresh()
PollFeed ==
    /\ Asked("timer", 0)
    /\ UNCHANGED <<page, log, time, dirty, db, oldest, of, rows, texts, more, focused, missed>>

\* A bug: the entry after the last one of DB is passed over.
MoreRangeAfter == Len(db) + 1

\* more()
MoreRange == Len(db)

\* onMore()
More ==
    /\ more /\ ~page.overview
    /\ Asked("more", MoreRange)
    /\ UNCHANGED <<page, log, time, dirty, db, oldest, of, rows, texts, more, focused, missed>>

ServedFeed(i) ==
    /\ i \in DOMAIN gets /\ gets[i].answer = Unknown
    /\ gets' = [gets EXCEPT ![i].answer = ListedFeed(gets[i].start)]
    /\ dirty' = FALSE
    /\ UNCHANGED <<page, log, time, db, oldest, of, rows, texts, more, focused, missed>>

Arrives(i) ==
    /\ i \in DOMAIN gets /\ gets[i].answer # Unknown
    /\ IF page.feed = "events" THEN HeardEvents(gets[i].answer) ELSE HeardLogs(gets[i].answer)
    /\ of' = gets[i].answer.of
    /\ gets' = RemoveAt(gets, i)
    /\ Refreshed
    /\ UNCHANGED <<page, log, time, dirty, focused, missed>>

\* A request or its answer is lost.
Fails ==
    /\ \E i \in DOMAIN gets : gets' = RemoveAt(gets, i)
    /\ missed' = missed \cup (Told(gets) \cap Behind(log, Told(gets')))
    /\ UNCHANGED <<page, log, time, dirty, db, oldest, of, rows, texts, more, focused>>

\* A field is clicked, or left.
Focus ==
    /\ page.feed = "events" /\ ~page.overview /\ rows # <<>>
    /\ focused' = ~focused
    /\ UNCHANGED <<page, log, time, dirty, db, oldest, of, gets, rows, texts, more, missed>>

-----------------------------------------------------------------------------
FeedInit ==
    /\ page \in Pages
    /\ log = <<>> /\ time = [e \in Entries |-> 0] /\ dirty = TRUE
    /\ db = <<>> /\ oldest = Unknown /\ of = 0 /\ gets = <<>>
    /\ rows = <<>> /\ texts = <<>>
    /\ more = ~page.overview /\ focused = FALSE
    /\ missed = {}

FeedNext ==
    \/ Made \/ Reordered
    \/ PollFeed \/ More \/ Fails
    \/ \E i \in 1..2 : ServedFeed(i) \/ Arrives(i)
    \/ Focus

FeedSpec == FeedInit /\ [][FeedNext]_feedVars

-----------------------------------------------------------------------------
Of(s) == Range(s) \subseteq Entries /\ IsInjective(s)

FeedTypeOK ==
    /\ page \in Pages
    /\ Range(log) = 1..Len(log) /\ time \in [Entries -> 0..MaxSeconds] /\ dirty \in BOOLEAN
    /\ Of(db) /\ oldest \in Entries \cup {Unknown} /\ of \in 0..MaxEntries
    /\ \A i \in DOMAIN gets : gets[i].start \in 0..MaxEntries + 1 /\ (gets[i].answer # Unknown => Of(gets[i].answer.entries))
    /\ Of(rows) /\ Range(rows) \subseteq Range(db)
    /\ DOMAIN texts = Range(rows) /\ \A e \in Range(rows) : texts[e].access = "" \/ page.feed = "events"
    /\ more \in BOOLEAN /\ focused \in BOOLEAN /\ missed \subseteq Entries

\* No answer makes a hole: an entry that the page has not been told of, though it has of an older one, is among the newest,
\* which the next poll has, or fell behind when others were made.
NoHoles ==
    \A i, j \in DOMAIN log :
        i < j /\ log[j] \in Range(db) /\ log[i] \notin Told(gets) => i <= PageSize \/ log[i] \in missed

\* The rows are in the order of the times they show whenever they change, but for the events while a field has
\* the focus.
RowsInOrder ==
    [][rows' # rows /\ ~focused =>
          \A i, j \in DOMAIN rows' : i < j => texts'[rows'[i]].time >= texts'[rows'[j]].time]_feedVars

\* Without the button every entry can be seen that the server had when it gave the last answer,
\* but for those that fell behind, the newest, which the next poll has, and those of the second
\* of the oldest, of which another may be the oldest in the next answer.
MoreWhileOlder ==
    ~more /\ ~page.overview =>
        \A j \in DOMAIN log : log[j] <= of /\ time[log[j]] # time[oldest] =>
            j <= PageSize \/ log[j] \in Range(rows) \cup Told(gets) \cup missed

=============================================================================
