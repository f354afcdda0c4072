--------------------------- MODULE ConsoleProofs ---------------------------
(***************************************************************************)
(* Proofs about Page and Connection, for any credentials, items, words and *)
(* times.                                                                  *)
(***************************************************************************)
EXTENDS MCConsole, TLAPS

-----------------------------------------------------------------------------
(* Page.  The invariant: the content is what the copy and the search make  *)
(* of it; as long as there are credentials, each retry was an answer that  *)
(* listed none; and a button that is disabled has a request that enables   *)
(* it.                                                                     *)

Snapshot == [cards : CardSets \cup {NoCards}, items : SUBSET Items, mode : Modes \cup {Blank}]

Stages == {"idle", "sent", "read"}
Loads == [at : Stages, data : Snapshot]

Notices == [page : Messages, dialog : Messages]

DataOK ==
    /\ route \in Routes
    /\ server \in Snapshot /\ server.cards \in CardSets /\ server.mode \in Modes /\ view \in Snapshot
    /\ load \in Loads
    /\ session \in BOOLEAN /\ away \in BOOLEAN /\ online \in BOOLEAN
    /\ errands \subseteq Errands

RetriesOK ==
    /\ retries \in 0..4 /\ empties \in 0..5 /\ timer \in BOOLEAN
    /\ route = "cards" /\ Live(view) # {} => retries <= empties

NoticeOK ==
    /\ notice \in Notices /\ dialog \in {"none", "help", "controller"}
    /\ dialog = "none" => notice.dialog = Blank

RefreshOK ==
    /\ refresh \in [sent : 0..2, reload : 0..2] /\ refresh.sent + refresh.reload <= 2 /\ button \in BOOLEAN
    /\ notice.page = "refreshing" => refresh.sent > 0
    /\ load.at = "idle" /\ refresh.sent = 0 => button

CommandsOK ==
    /\ commands \subseteq Command /\ row \in BOOLEAN
    /\ row \/ \E k \in commands : k.onpage

\* What #app shows has three parts.
ShownOK == shown = [loaded |-> shown.loaded, content |-> shown.content, counts |-> shown.counts]

PageInv == ShownOK /\ DataOK /\ RetriesOK /\ NoticeOK /\ RefreshOK /\ CommandsOK /\ PageFollowsSearch

-----------------------------------------------------------------------------
LEMMA MessagesNamed ==
    /\ \A words \in {Blank, "refreshing", "refreshed", "accepted", "time", "export", "error"} : words \in Messages
    /\ \A stage \in {"idle", "sent", "read"} : stage \in Stages
  BY DEF Messages, Stages

LEMMA LoadedIsIdle == Loaded \in Loads /\ Loaded.at = "idle"
  BY MessagesNamed DEF Loaded, Loads, Snapshot

LEMMA SaidFields ==
    ASSUME NEW n \in Notices, NEW words \in Messages
    PROVE  /\ Said(n, words) \in Notices /\ Said(n, words).page = words
           /\ dialog = "none" => Said(n, words).dialog = n.dialog
  BY DEF Said, Notices

\* A message that does not say that the page is refreshing.
LEMMA SaysKeeps ==
    ASSUME NoticeOK, NEW words \in Messages, notice' = Said(notice, words), dialog' = dialog
    PROVE  NoticeOK' /\ notice'.page = words
  BY SaidFields DEF NoticeOK

\* load() is called, by whatever calls it.
LEMMA StartLoadKeeps ==
    ASSUME NEW n \in Notices, dialog = "none" => n.dialog = Blank, StartLoad(n), dialog' = dialog,
           load \in Loads, button \in BOOLEAN, dialog \in {"none", "help", "controller"}
    PROVE  /\ load' \in Loads /\ load'.at # "idle" /\ button' \in BOOLEAN
           /\ NoticeOK' /\ notice'.page \in {n.page, Blank}
  <1>1. CASE load.at = "idle"
    <2>1. load' \in Loads /\ load'.at = "sent" /\ button' = FALSE
      BY <1>1, MessagesNamed DEF StartLoad, Loads
    <2>2. notice' = Said(n, Blank) /\ Blank \in Messages
      BY <1>1, MessagesNamed DEF StartLoad
    <2> QED BY <2>1, <2>2, SaidFields DEF NoticeOK
  <1>2. CASE load.at # "idle"
    BY <1>2 DEF StartLoad, NoticeOK
  <1> QED BY <1>1, <1>2

\* load() ends, with its message or an error.
LEMMA LoadEndsKeeps ==
    ASSUME NEW n \in Notices, dialog = "none" => n.dialog = Blank, LoadEnds(n), dialog' = dialog,
           RefreshOK, dialog \in {"none", "help", "controller"}, n.page = "refreshing" => refresh.sent > 0
    PROVE  load' = Loaded /\ NoticeOK' /\ RefreshOK'
  <1>1. load' = Loaded /\ button' = TRUE
    BY DEF LoadEnds
  <1>2. /\ refresh' \in [sent : 0..2, reload : 0..2] /\ refresh'.sent = refresh.sent /\ refresh'.reload = 0
    BY DEF LoadEnds, RefreshOK
  <1>3. notice' \in {n, Said(n, "refreshed")}
    BY DEF LoadEnds
  <1>4. NoticeOK' /\ (notice'.page = "refreshing" => n.page = "refreshing")
    <2>1. CASE notice' = n
      BY <2>1 DEF NoticeOK
    <2>2. CASE notice' = Said(n, "refreshed")
      BY <2>2, MessagesNamed, SaidFields DEF NoticeOK
    <2> QED BY <1>3, <2>1, <2>2
  <1> QED BY <1>1, <1>2, <1>4 DEF RefreshOK

\* What leaves the copy and the search as they are keeps what is said of them.
LEMMA ShownStays ==
    ASSUME ShownOK, PageFollowsSearch, UNCHANGED <<route, view, shown, search, filter>>
    PROVE  ShownOK' /\ PageFollowsSearch'
  BY DEF ShownOK, PageFollowsSearch, Filtered

LEMMA RetriesStay ==
    ASSUME RetriesOK, UNCHANGED <<route, view, retries, timer, empties>>
    PROVE  RetriesOK'
  BY DEF RetriesOK

-----------------------------------------------------------------------------
LEMMA PageOpens == ASSUME Init PROVE PageInv
  <1> USE PageAssumption DEF Init
  <1>1. Loaded.data \in Snapshot /\ Loaded.data.cards = NoCards
    BY DEF Loaded, Snapshot
  <1>2. load \in Loads /\ load.at = "sent"
    BY LoadedIsIdle, MessagesNamed DEF Loads
  <1>3. server \in Snapshot /\ server.cards \in CardSets /\ server.mode \in Modes
    BY DEF Snapshot
  <1>4. DataOK
    BY <1>1, <1>2, <1>3 DEF DataOK
  <1>5. Live(view) = {}
    BY <1>1 DEF Live, NoCards
  <1>6. RetriesOK
    <2>1. retries = 0 /\ empties = 0 /\ 0 \in 0..4 /\ 0 \in 0..5
      OBVIOUS
    <2>2. timer \in BOOLEAN
      OBVIOUS
    <2> QED BY <1>5, <2>1, <2>2 DEF RetriesOK
  <1>9. CommandsOK
    BY DEF CommandsOK
  <1>10. ShownOK /\ PageFollowsSearch
    BY DEF ShownOK, PageFollowsSearch
  <1>7. NoticeOK
    BY MessagesNamed DEF NoticeOK, Notices
  <1>8. RefreshOK
    <2>1. refresh \in [sent : 0..2, reload : 0..2] /\ refresh.sent + refresh.reload <= 2
      OBVIOUS
    <2>2. notice.page # "refreshing"
      OBVIOUS
    <2> QED BY <1>2, <2>1, <2>2 DEF RefreshOK
  <1> QED BY <1>4, <1>6, <1>7, <1>8, <1>9, <1>10 DEF PageInv

\* The timers.
LEMMA LoadCalled ==
    ASSUME PageInv, StartLoad(notice),
           UNCHANGED <<route, data, view, shown, retries, empties, asked, refresh, commands, row, errands, online, dialog, away>>,
           timer' \in BOOLEAN
    PROVE  PageInv'
  <1> USE DEF data, asked
  <1>1. /\ load' \in Loads /\ load'.at # "idle" /\ button' \in BOOLEAN
        /\ NoticeOK' /\ notice'.page \in {notice.page, Blank}
    BY StartLoadKeeps DEF PageInv, DataOK, NoticeOK, RefreshOK
  <1>2. DataOK' /\ CommandsOK'
    BY <1>1 DEF PageInv, DataOK, CommandsOK
  <1>3. RetriesOK'
    BY DEF PageInv, RetriesOK
  <1>4. RefreshOK'
    BY <1>1, PageAssumption DEF PageInv, RefreshOK
  <1> QED BY <1>1, <1>2, <1>3, <1>4, ShownStays DEF PageInv

LEMMA PollKeeps == ASSUME PageInv, Poll PROVE PageInv'
  BY LoadCalled DEF Poll, copy, PageInv, RetriesOK

LEMMA TimerFiresKeeps == ASSUME PageInv, TimerFires PROVE PageInv'
  BY LoadCalled DEF TimerFires, PageInv, RetriesOK

LEMMA ServedKeeps == ASSUME PageInv, Served PROVE PageInv'
  <1> USE DEF data, copy, asked, calls, messages
  <1>1. load' \in Loads /\ load'.at = "read" /\ UNCHANGED <<route, data, copy, asked, calls, messages, away>>
    BY MessagesNamed DEF Served, PageInv, DataOK, Loads
  <1> QED BY <1>1, ShownStays, RetriesStay DEF PageInv, DataOK, NoticeOK, RefreshOK, CommandsOK

\* An answer: the copy is replaced, and each retry for want of credentials is counted with it.
LEMMA ArrivesKeeps == ASSUME PageInv, Arrives PROVE PageInv'
  <1> USE DEF data, asked
  <1>1. PICK v : /\ v = IF Retains(load.data) THEN [load.data EXCEPT !.cards = view.cards] ELSE load.data
                 /\ view' = v
                 /\ shown' = [loaded |-> TRUE, content |-> Rendered(v), counts |-> Counts(v)]
                 /\ RetriesAfter(v, Retains(load.data))
    BY DEF Arrives
  <1>2. /\ LoadEnds(notice) /\ row' = TRUE /\ online' = TRUE
        /\ empties' = IF DOMAIN load.data.cards # {} THEN 0 ELSE IF empties < 5 THEN empties + 1 ELSE 5
        /\ commands' = {[k EXCEPT !.onpage = FALSE] : k \in {c \in commands : c.at = "sent"}}
        /\ UNCHANGED <<route, data, asked, errands, dialog, away>>
    BY DEF Arrives
  <1>3. load.data \in Snapshot /\ view \in Snapshot
    BY DEF PageInv, DataOK, Loads
  <1>4. v \in Snapshot /\ (Retains(load.data) => v.cards = view.cards)
    BY <1>1, <1>3 DEF Snapshot
  <1>5. load' = Loaded /\ NoticeOK' /\ RefreshOK'
    BY <1>2, LoadEndsKeeps DEF PageInv, NoticeOK, RefreshOK
  <1>6. DataOK'
    BY <1>1, <1>2, <1>4, <1>5, LoadedIsIdle DEF PageInv, DataOK
  <1>7. CommandsOK'
    BY <1>2 DEF PageInv, CommandsOK, Command
  <1>8. RetriesOK'
    <2>1. CASE Retains(load.data)
      <3>1. retries < 4 /\ route = "cards" /\ Live(view) # {} /\ DOMAIN load.data.cards = {}
        BY <2>1 DEF Retains
      <3>2. retries' = retries + 1 /\ timer' = TRUE
        BY <1>1, <2>1 DEF RetriesAfter
      <3>3. retries <= empties
        BY <3>1 DEF PageInv, RetriesOK
      <3>4. empties' = IF empties < 5 THEN empties + 1 ELSE 5
        BY <1>2, <3>1
      <3> QED BY <3>1, <3>2, <3>3, <3>4 DEF PageInv, RetriesOK
    <2>2. CASE ~Retains(load.data)
      <3>1. Live(view') # {} => retries' = 0 /\ timer' = FALSE
        BY <1>1, <2>2 DEF RetriesAfter
      <3>2. retries' \in 0..4 /\ timer' \in BOOLEAN
        <4>1. \/ retries < 4 /\ retries' = retries + 1 /\ timer' = TRUE
              \/ retries' = 0 /\ timer' = FALSE
              \/ UNCHANGED <<retries, timer>>
          BY <1>1, <2>2 DEF RetriesAfter
        <4>2. retries' \in 0..4
          BY <4>1 DEF PageInv, RetriesOK
        <4>3. timer' \in BOOLEAN
          BY <4>1 DEF PageInv, RetriesOK
        <4> QED BY <4>2, <4>3
      <3>3. empties' \in 0..5
        BY <1>2 DEF PageInv, RetriesOK
      <3> QED BY <3>1, <3>2, <3>3 DEF RetriesOK
    <2> QED BY <2>1, <2>2
  <1>9. ShownOK' /\ PageFollowsSearch'
    BY <1>1, <1>2 DEF ShownOK, PageFollowsSearch, Rendered, Filtered
  <1> QED BY <1>5, <1>6, <1>7, <1>8, <1>9 DEF PageInv

LEMMA SentAwayKeeps == ASSUME PageInv, SentAway PROVE PageInv'
  <1> USE DEF data, copy, asked
  <1>1. /\ LoadEnds(notice) /\ away' = TRUE
        /\ UNCHANGED <<route, data, copy, asked, commands, row, errands, online, dialog>>
    BY DEF SentAway
  <1>2. load' = Loaded /\ NoticeOK' /\ RefreshOK'
    BY <1>1, LoadEndsKeeps DEF PageInv, NoticeOK, RefreshOK
  <1>3. DataOK' /\ CommandsOK'
    BY <1>1, <1>2, LoadedIsIdle DEF PageInv, DataOK, CommandsOK
  <1> QED BY <1>1, <1>2, <1>3, ShownStays, RetriesStay DEF PageInv

LEMMA LoadFailsKeeps == ASSUME PageInv, LoadFails PROVE PageInv'
  <1> USE DEF data, copy, asked
  <1>1. PICK n : n = Said(notice, "error")
    OBVIOUS
  <1>2. /\ LoadEnds(n) /\ row' = (row \/ \E c \in commands : c.at = "reload" /\ c.onpage)
        /\ commands' = {c \in commands : c.at = "sent"} /\ online' = FALSE
        /\ UNCHANGED <<route, data, copy, asked, errands, dialog, away>>
    BY <1>1 DEF LoadFails, FailsFinally
  <1>3. n \in Notices /\ n.page = "error" /\ (dialog = "none" => n.dialog = Blank)
    BY <1>1, MessagesNamed, SaidFields DEF PageInv, NoticeOK
  <1>4. load' = Loaded /\ NoticeOK' /\ RefreshOK'
    BY <1>2, <1>3, LoadEndsKeeps DEF PageInv, NoticeOK, RefreshOK
  <1>5. DataOK'
    BY <1>2, <1>4, LoadedIsIdle DEF PageInv, DataOK
  <1>6. CommandsOK'
    <2>1. row' \in BOOLEAN
      BY <1>2
    <2>2. \A c \in commands : c.at = "sent" \/ c.at = "reload"
      BY DEF PageInv, CommandsOK, Command
    <2> QED BY <1>2, <2>1, <2>2 DEF PageInv, CommandsOK
  <1> QED BY <1>2, <1>4, <1>5, <1>6, ShownStays, RetriesStay DEF PageInv

-----------------------------------------------------------------------------
(* The Refresh button. *)

LEMMA RefreshClickedKeeps == ASSUME PageInv, RefreshClicked PROVE PageInv'
  <1> USE DEF data, copy, asked
  <1>1. /\ refresh.sent + refresh.reload < 2 /\ refresh' = [refresh EXCEPT !.sent = @ + 1] /\ button' = FALSE
        /\ notice' = Said(notice, "refreshing")
        /\ UNCHANGED <<route, data, copy, asked, load, commands, row, errands, online, dialog, away>>
    BY DEF RefreshClicked, Says
  <1>2. NoticeOK'
    BY <1>1, MessagesNamed, SaysKeeps DEF PageInv
  <1>3. refresh' \in [sent : 0..2, reload : 0..2] /\ refresh'.sent = refresh.sent + 1 /\ refresh'.reload = refresh.reload
    BY <1>1 DEF PageInv, RefreshOK
  <1>6. refresh'.sent > 0 /\ refresh'.sent + refresh'.reload <= 2
    BY <1>1, <1>3 DEF PageInv, RefreshOK
  <1>7. refresh'.sent # 0
    BY <1>3, <1>6
  <1>8. button' \in BOOLEAN
    BY <1>1
  <1>4. RefreshOK'
    BY <1>3, <1>6, <1>7, <1>8 DEF RefreshOK
  <1>5. DataOK' /\ CommandsOK'
    BY <1>1 DEF PageInv, DataOK, CommandsOK
  <1> QED BY <1>1, <1>2, <1>4, <1>5, ShownStays, RetriesStay DEF PageInv

LEMMA RefreshServedKeeps == ASSUME PageInv, RefreshServed PROVE PageInv'
  <1> USE DEF data, copy, asked
  <1>1. refresh.sent > 0 /\ UNCHANGED <<route, data, copy, asked, commands, row, errands, online, dialog, away>>
    BY DEF RefreshServed
  <1>2. CASE load.at = "idle"
    <2>1. refresh' = [sent |-> refresh.sent - 1, reload |-> refresh.reload + 1] /\ StartLoad(notice)
      BY <1>2 DEF RefreshServed
    <2>2. load' \in Loads /\ load'.at # "idle" /\ button' \in BOOLEAN /\ NoticeOK'
      BY <1>1, <2>1, StartLoadKeeps DEF PageInv, DataOK, NoticeOK, RefreshOK
    <2>3. notice'.page = Blank
      <3>1. notice' = Said(notice, Blank) /\ Blank \in Messages
        BY <1>2, <2>1, MessagesNamed DEF StartLoad
      <3> QED BY <3>1, SaidFields DEF PageInv, NoticeOK
    <2>4. /\ refresh' \in [sent : 0..2, reload : 0..2]
          /\ refresh'.sent = refresh.sent - 1 /\ refresh'.reload = refresh.reload + 1
      BY <1>1, <2>1 DEF PageInv, RefreshOK
    <2>5. RefreshOK'
      BY <2>2, <2>3, <2>4, PageAssumption DEF PageInv, RefreshOK
    <2>6. DataOK' /\ CommandsOK'
      BY <1>1, <2>2 DEF PageInv, DataOK, CommandsOK
    <2> QED BY <1>1, <2>2, <2>5, <2>6, ShownStays, RetriesStay DEF PageInv
  <1>3. CASE load.at # "idle"
    <2>1. /\ refresh' = [refresh EXCEPT !.sent = @ - 1] /\ button' = TRUE
          /\ notice' = Said(notice, "refreshed") /\ load' = load
      BY <1>3 DEF RefreshServed, Says
    <2>2. NoticeOK' /\ notice'.page = "refreshed"
      BY <1>1, <2>1, MessagesNamed, SaysKeeps DEF PageInv
    <2>3. refresh' \in [sent : 0..2, reload : 0..2] /\ refresh'.sent = refresh.sent - 1 /\ refresh'.reload = refresh.reload
      BY <1>1, <2>1 DEF PageInv, RefreshOK
    <2>4. RefreshOK'
      BY <2>1, <2>2, <2>3 DEF PageInv, RefreshOK
    <2>5. DataOK' /\ CommandsOK'
      BY <1>1, <2>1 DEF PageInv, DataOK, CommandsOK
    <2> QED BY <1>1, <2>2, <2>4, <2>5, ShownStays, RetriesStay DEF PageInv
  <1> QED BY <1>2, <1>3

LEMMA RefreshFailsKeeps == ASSUME PageInv, RefreshFails PROVE PageInv'
  <1> USE DEF data, copy, asked
  <1>1. /\ refresh.sent > 0 /\ refresh' = [refresh EXCEPT !.sent = @ - 1] /\ button' = TRUE
        /\ notice' = Said(notice, "error")
        /\ UNCHANGED <<route, data, copy, asked, load, commands, row, errands, online, dialog, away>>
    BY DEF RefreshFails, Says
  <1>2. NoticeOK' /\ notice'.page = "error"
    BY <1>1, MessagesNamed, SaysKeeps DEF PageInv
  <1>3. refresh' \in [sent : 0..2, reload : 0..2] /\ refresh'.sent = refresh.sent - 1 /\ refresh'.reload = refresh.reload
    BY <1>1 DEF PageInv, RefreshOK
  <1>4. RefreshOK'
    BY <1>1, <1>2, <1>3 DEF PageInv, RefreshOK
  <1>5. DataOK' /\ CommandsOK'
    BY <1>1 DEF PageInv, DataOK, CommandsOK
  <1> QED BY <1>1, <1>2, <1>4, <1>5, ShownStays, RetriesStay DEF PageInv

-----------------------------------------------------------------------------
(* The buttons of a relay: a command that leaves takes the row it was clicked in with it. *)

LEMMA ControlClickedKeeps == ASSUME PageInv, ControlClicked PROVE PageInv'
  <1> USE DEF data, copy, asked, messages
  <1>1. /\ row' = FALSE
        /\ UNCHANGED <<route, data, copy, asked, load, refresh, button, errands, messages, away>>
    BY DEF ControlClicked
  <1>2. PICK m \in Modes : commands' = commands \cup {[mode |-> m, at |-> "sent", onpage |-> TRUE]}
    BY DEF ControlClicked
  <1>3. PICK k : k = [mode |-> m, at |-> "sent", onpage |-> TRUE]
    OBVIOUS
  <1>4. k \in Command /\ k.onpage
    BY <1>3 DEF Command
  <1>5. CommandsOK'
    BY <1>1, <1>2, <1>3, <1>4 DEF PageInv, CommandsOK
  <1>6. DataOK' /\ NoticeOK' /\ RefreshOK'
    BY <1>1 DEF PageInv, DataOK, NoticeOK, RefreshOK
  <1> QED BY <1>1, <1>5, <1>6, ShownStays, RetriesStay DEF PageInv

LEMMA RowLeft ==
    ASSUME CommandsOK, NEW k \in commands, commands' = commands \ {k}, LeavesRow(k)
    PROVE  CommandsOK'
  <1>1. row' \in BOOLEAN /\ (row' <=> row \/ k.onpage)
    BY DEF LeavesRow
  <1>2. CASE row'
    BY <1>1, <1>2 DEF CommandsOK
  <1>3. CASE ~row'
    BY <1>1, <1>3 DEF CommandsOK
  <1> QED BY <1>1, <1>2, <1>3

LEMMA ControlServedKeeps == ASSUME PageInv, ControlServed PROVE PageInv'
  <1> USE DEF copy, asked
  <1>1. UNCHANGED <<route, session, copy, asked, refresh, errands, online, dialog, away>>
    BY DEF ControlServed
  <1>2. PICK k \in commands :
             /\ server' = [server EXCEPT !.mode = k.mode]
             /\ IF load.at = "idle"
                THEN commands' = (commands \ {k}) \cup {[k EXCEPT !.at = "reload"]} /\ UNCHANGED row
                ELSE commands' = commands \ {k} /\ LeavesRow(k)
    BY DEF ControlServed
  <1>3. PICK n : n = Said(notice, "accepted")
    OBVIOUS
  <1>4. n \in Notices /\ n.page = "accepted" /\ (dialog = "none" => n.dialog = Blank)
    BY <1>3, MessagesNamed, SaidFields DEF PageInv, NoticeOK
  <1>5. StartLoad(n)
    BY <1>3 DEF ControlServed
  <1>6. load' \in Loads /\ load'.at # "idle" /\ button' \in BOOLEAN /\ NoticeOK' /\ notice'.page \in {n.page, Blank}
    BY <1>1, <1>4, <1>5, StartLoadKeeps DEF PageInv, DataOK, NoticeOK, RefreshOK
  <1>7. RefreshOK'
    BY <1>1, <1>4, <1>6, PageAssumption DEF PageInv, RefreshOK
  <1>8. k \in Command /\ k.mode \in Modes
    BY DEF PageInv, CommandsOK, Command
  <1>9. server' \in Snapshot /\ server'.cards = server.cards /\ server'.mode = k.mode
    BY <1>2, <1>8 DEF PageInv, DataOK, Snapshot
  <1>10. DataOK'
    BY <1>1, <1>6, <1>8, <1>9 DEF PageInv, DataOK
  <1>11. CommandsOK'
    <2>1. CASE load.at = "idle"
      <3>1. PICK d : d = [k EXCEPT !.at = "reload"]
        OBVIOUS
      <3>2. d \in Command /\ d.onpage = k.onpage
        BY <1>8, <3>1 DEF Command
      <3> QED BY <1>2, <2>1, <3>1, <3>2 DEF PageInv, CommandsOK
    <2>2. CASE load.at # "idle"
      BY <1>2, <2>2, RowLeft DEF PageInv
    <2> QED BY <2>1, <2>2
  <1> QED BY <1>1, <1>6, <1>7, <1>10, <1>11, ShownStays, RetriesStay DEF PageInv

LEMMA ControlFailsKeeps == ASSUME PageInv, ControlFails PROVE PageInv'
  <1> USE DEF data, copy, asked
  <1>1. /\ notice' = Said(notice, "error")
        /\ UNCHANGED <<route, data, copy, asked, load, refresh, button, errands, online, dialog, away>>
    BY DEF ControlFails, Says
  <1>2. PICK k \in commands : commands' = commands \ {k} /\ LeavesRow(k)
    BY DEF ControlFails
  <1>3. CommandsOK'
    BY <1>2, RowLeft DEF PageInv
  <1>4. NoticeOK' /\ notice'.page = "error"
    BY <1>1, MessagesNamed, SaysKeeps DEF PageInv
  <1>5. DataOK' /\ RefreshOK'
    BY <1>1, <1>4 DEF PageInv, DataOK, RefreshOK
  <1> QED BY <1>1, <1>3, <1>4, <1>5, ShownStays, RetriesStay DEF PageInv

-----------------------------------------------------------------------------
(* The rest changes the message, a dialog, the search or the server's data. *)

LEMMA ErrandsKeep ==
    ASSUME PageInv, SetControllerTime \/ ExportCredentials \/ ErrandServed \/ ErrandFails
    PROVE  PageInv'
  <1> USE DEF still, data, copy, asked
  <1>1. UNCHANGED <<still, dialog>> /\ errands' \subseteq Errands
    BY DEF SetControllerTime, ExportCredentials, ErrandServed, ErrandFails, PageInv, DataOK, Errands
  <1>2. notice' = notice \/ \E words \in {"time", "export", "error"} : notice' = Said(notice, words)
    BY DEF SetControllerTime, ExportCredentials, ErrandServed, ErrandFails, Says, PageInv, DataOK, Errands
  <1>3. NoticeOK' /\ (notice'.page = "refreshing" => notice.page = "refreshing")
    <2>1. CASE notice' = notice
      BY <1>1, <2>1 DEF PageInv, NoticeOK
    <2>2. ASSUME NEW words \in {"time", "export", "error"}, notice' = Said(notice, words)
          PROVE  NoticeOK' /\ notice'.page = words
      BY <1>1, <2>2, MessagesNamed, SaysKeeps DEF PageInv
    <2> QED BY <1>2, <2>1, <2>2
  <1>4. DataOK' /\ RefreshOK' /\ CommandsOK'
    BY <1>1, <1>3 DEF PageInv, DataOK, RefreshOK, CommandsOK
  <1> QED BY <1>1, <1>3, <1>4, ShownStays, RetriesStay DEF PageInv

LEMMA DialogsKeep == ASSUME PageInv, OpenDialog \/ CloseDialog PROVE PageInv'
  <1> USE DEF still, data, copy, asked
  <1>1. UNCHANGED <<still, errands>> /\ dialog' \in {"none", "help", "controller"}
    BY DEF OpenDialog, CloseDialog
  <1>2. \/ notice' = notice /\ dialog' # "none"
        \/ notice' = [notice EXCEPT !.dialog = Blank]
    BY DEF OpenDialog, CloseDialog
  <1>3. NoticeOK' /\ notice'.page = notice.page
    BY <1>1, <1>2, MessagesNamed DEF PageInv, NoticeOK, Notices
  <1>4. DataOK' /\ RefreshOK' /\ CommandsOK'
    BY <1>1, <1>3 DEF PageInv, DataOK, RefreshOK, CommandsOK
  <1> QED BY <1>1, <1>3, <1>4, ShownStays, RetriesStay DEF PageInv

LEMMA LeavingKeeps ==
    ASSUME PageInv, ReturnToGateControl \/ SignOutClicked \/ SignedOut \/ SignOutFails
    PROVE  PageInv'
  <1> USE DEF still, data, copy, asked, calls, messages
  <1>1. /\ UNCHANGED <<route, server, copy, asked, load, refresh, button, commands, row, online, dialog>>
        /\ errands' \subseteq Errands
    BY DEF ReturnToGateControl, SignOutClicked, SignedOut, SignOutFails, PageInv, DataOK, Errands
  <1>2. session' \in BOOLEAN /\ away' \in BOOLEAN
    BY DEF ReturnToGateControl, SignOutClicked, SignedOut, SignOutFails, PageInv, DataOK
  <1>3. notice' = notice \/ notice' = Said(notice, "error")
    BY DEF ReturnToGateControl, SignOutClicked, SignedOut, SignOutFails, Says
  <1>4. NoticeOK' /\ (notice'.page = "refreshing" => notice.page = "refreshing")
    <2>1. CASE notice' = notice
      BY <1>1, <2>1 DEF PageInv, NoticeOK
    <2>2. CASE notice' = Said(notice, "error")
      BY <1>1, <2>2, MessagesNamed, SaysKeeps DEF PageInv
    <2> QED BY <1>3, <2>1, <2>2
  <1>5. DataOK' /\ RefreshOK' /\ CommandsOK'
    BY <1>1, <1>2, <1>4 DEF PageInv, DataOK, RefreshOK, CommandsOK
  <1> QED BY <1>1, <1>4, <1>5, ShownStays, RetriesStay DEF PageInv

LEMMA SearchKeeps ==
    ASSUME PageInv, NEW word, NEW kind, Shows(word, kind)
    PROVE  PageInv'
  <1> USE DEF data, calls, messages
  <1>1. /\ search' = word /\ filter' = kind /\ shown.loaded
        /\ shown' = [shown EXCEPT !.content = Filtered(view, word, kind)]
        /\ UNCHANGED <<route, data, view, retries, timer, empties, load, calls, messages, away>>
    BY DEF Shows
  <1>2. DataOK' /\ NoticeOK' /\ RefreshOK' /\ CommandsOK'
    BY <1>1 DEF PageInv, DataOK, NoticeOK, RefreshOK, CommandsOK
  <1>3. shown' = [loaded |-> TRUE, content |-> Filtered(view, word, kind), counts |-> shown.counts]
    BY <1>1 DEF PageInv, ShownOK
  <1>4. ShownOK' /\ PageFollowsSearch'
    BY <1>1, <1>3 DEF PageInv, ShownOK, PageFollowsSearch, Filtered
  <1> QED BY <1>1, <1>2, <1>4, RetriesStay DEF PageInv

LEMMA ElsewhereKeeps == ASSUME PageInv, Elsewhere PROVE PageInv'
  <1> USE DEF copy, asked, calls, messages
  <1>1. UNCHANGED <<route, copy, asked, load, calls, messages, away>>
    BY DEF Elsewhere
  <1>2. server' \in Snapshot /\ server'.cards \in CardSets /\ server'.mode \in Modes /\ session' \in BOOLEAN
    <2>1. CASE \E cs \in CardSets : server' = [server EXCEPT !.cards = cs] /\ session' = session
      BY <2>1 DEF PageInv, DataOK, Snapshot
    <2>2. CASE \E is \in SUBSET Items : server' = [server EXCEPT !.items = is] /\ session' = session
      BY <2>2 DEF PageInv, DataOK, Snapshot
    <2>3. CASE session' = FALSE /\ server' = server
      BY <2>3 DEF PageInv, DataOK
    <2> QED BY <2>1, <2>2, <2>3 DEF Elsewhere
  <1>3. DataOK' /\ NoticeOK' /\ RefreshOK' /\ CommandsOK'
    BY <1>1, <1>2 DEF PageInv, DataOK, NoticeOK, RefreshOK, CommandsOK
  <1> QED BY <1>1, <1>3, ShownStays, RetriesStay DEF PageInv

LEMMA PageStep == ASSUME PageInv, [Next]_vars PROVE PageInv'
  <1>1. CASE UNCHANGED vars
    <2>1. UNCHANGED <<route, data, copy, asked, load, calls, messages, away>>
      BY <1>1 DEF vars
    <2> QED BY <2>1, ShownStays, RetriesStay
            DEF data, copy, asked, calls, messages, PageInv, DataOK, NoticeOK, RefreshOK, CommandsOK
  <1>2. CASE FilterCredentials \/ FilterGroups \/ RefreshEventRows
    BY <1>2, SearchKeeps DEF FilterCredentials, FilterGroups, RefreshEventRows
  <1> QED BY <1>1, <1>2, PollKeeps, TimerFiresKeeps, ServedKeeps, ArrivesKeeps, SentAwayKeeps, LoadFailsKeeps,
             RefreshClickedKeeps, RefreshServedKeeps, RefreshFailsKeeps,
             ControlClickedKeeps, ControlServedKeeps, ControlFailsKeeps,
             ErrandsKeep, DialogsKeep, LeavingKeeps, ElsewhereKeeps DEF Next

LEMMA PageInvHolds == Spec => []PageInv
  BY PageOpens, PageStep, PTL DEF Spec

LEMMA PageInvTyped == PageInv => TypeOK
  BY DEF PageInv, DataOK, RetriesOK, NoticeOK, RefreshOK, CommandsOK, TypeOK, Snapshot, Notices

\* The types: the copy of the snapshot, the requests in flight and the messages of a page
\* (gate-control.js).
THEOREM PageIsTyped == Spec => []TypeOK
  BY PageInvHolds, PageInvTyped, PTL

\* render(), the listeners of the searches: the page shows what its copy and its search box
\* say, whichever came last, for any snapshots and words.
THEOREM ThePageFollowsItsSearch == Spec => []PageFollowsSearch
  <1>1. PageInv => PageFollowsSearch
    BY DEF PageInv
  <1> QED BY PageInvHolds, <1>1, PTL

\* retainCards, emptyCardRetries: a credentials page gives up its credentials for an answer
\* that lists some, all deleted, or for the fifth in a row that lists none.
THEOREM FiveTimesEmpty == Spec => EmptiedOnlyAfterFive
  <1>1. ASSUME PageInv, Next, route = "cards", Live(view) # {}, Live(view') = {}
        PROVE  DOMAIN view'.cards # {} \/ empties' = 5
    <2>1. Arrives
      BY <1>1 DEF Next, Poll, TimerFires, Served, SentAway, LoadFails, RefreshClicked, RefreshServed, RefreshFails,
                  ControlClicked, ControlServed, ControlFails, SetControllerTime, ExportCredentials, ErrandServed,
                  ErrandFails, OpenDialog, CloseDialog, ReturnToGateControl, SignOutClicked, SignedOut, SignOutFails,
                  FilterCredentials, FilterGroups, RefreshEventRows, Shows,
                  Elsewhere, copy, still
    <2>2. PICK v : /\ v = IF Retains(load.data) THEN [load.data EXCEPT !.cards = view.cards] ELSE load.data
                   /\ view' = v
      BY <2>1 DEF Arrives
    <2>3. load.data \in Snapshot
      BY <1>1 DEF PageInv, DataOK, Loads
    <2>4. ~Retains(load.data) /\ view' = load.data
      <3>1. Retains(load.data) => v.cards = view.cards
        BY <2>2, <2>3 DEF Snapshot
      <3>2. v.cards # view.cards
        BY <1>1, <2>2 DEF Live
      <3> QED BY <2>2, <3>1, <3>2
    <2>5. CASE DOMAIN load.data.cards = {}
      <3>1. ~(retries < 4) /\ retries <= empties /\ retries \in 0..4 /\ empties \in 0..5
        BY <1>1, <2>4, <2>5 DEF Retains, PageInv, RetriesOK
      <3>2. empties' = IF empties < 5 THEN empties + 1 ELSE 5
        BY <2>1, <2>5 DEF Arrives
      <3> QED BY <3>1, <3>2
    <2> QED BY <2>4, <2>5
  <1>2. PageInv /\ [Next]_vars =>
            [route = "cards" /\ Live(view) # {} /\ Live(view') = {} => DOMAIN view'.cards # {} \/ empties' = 5]_vars
    BY <1>1
  <1> QED BY PageInvHolds, <1>2, PTL DEF Spec, EmptiedOnlyAfterFive

\* The finally of load(), manualRefresh() and controlDoor(): a button that a handler disabled
\* is enabled again with the last of its requests, whichever failed.
THEOREM EveryButtonReturns == Spec => []ButtonsReturn
  <1>1. PageInv => ButtonsReturn
    BY DEF PageInv, RefreshOK, CommandsOK, ButtonsReturn
  <1> QED BY PageInvHolds, <1>1, PTL

-----------------------------------------------------------------------------
(* Connection.  The invariant: the failure that is remembered came after   *)
(* the last answer.                                                        *)

ConnectionInv ==
    /\ ConnectionTypeOK
    /\ windmill <= clicks
    /\ disconnected # Never => disconnected <= silent

LEMMA ConnectionStarts == ConnectionInit => ConnectionInv
  <1> SUFFICES ASSUME ConnectionInit PROVE ConnectionInv
    OBVIOUS
  <1> USE ConnectionAssumption DEF ConnectionInit
  <1>1. requests \in [RequestKinds -> 0..MaxRequests]
    OBVIOUS
  <1>2. windmill \in 0..2 * MaxRequests + MaxClicks /\ clicks \in 0..MaxClicks /\ outages \in 0..MaxOutages
    OBVIOUS
  <1>3. disconnected \in {Never} /\ silent \in 0..OfflineTicks + 1 /\ idle \in 0..IdleTicks
    OBVIOUS
  <1>4. page = "live" /\ windmill <= clicks /\ disconnected = Never
    OBVIOUS
  <1>5. message \in BOOLEAN /\ up \in BOOLEAN
    OBVIOUS
  <1> QED BY <1>1, <1>2, <1>3, <1>4, <1>5 DEF ConnectionInv, ConnectionTypeOK

LEMMA Sooner ==
    ASSUME NEW ticks \in {Never} \cup Nat, NEW others \in Nat, NEW most \in Nat,
           ticks # Never => ticks <= others, others <= most
    PROVE  /\ Older(ticks, most) # Never => Older(ticks, most) <= Older(others, most)
           /\ Older(ticks, most) = Never <=> ticks = Never
           /\ ticks \in 0..most => Older(ticks, most) \in 0..most
           /\ Older(others, most) \in 0..most
  BY ConnectionAssumption DEF Older

LEMMA ConnectionStep == ASSUME ConnectionInv, [ConnectionNext]_connectionVars PROVE ConnectionInv'
  <1> USE ConnectionAssumption
  <1>1. CASE UNCHANGED connectionVars
    BY <1>1 DEF connectionVars, timers, bounds, ConnectionInv, ConnectionTypeOK
  <1>2. CASE Tick
    <2>1. /\ page' = page /\ windmill' = windmill /\ up' = up /\ message' = message
          /\ clicks' = clicks /\ outages' = outages
          /\ disconnected' = Older(disconnected, OfflineTicks + 1) /\ silent' = Older(silent, OfflineTicks + 1)
          /\ idle # 0 /\ idle' = IF idle = Never THEN Never ELSE idle - 1
      BY <1>2 DEF Tick, IdleRuns, TickMessage, bounds
    <2>2. requests' \in [RequestKinds -> 0..MaxRequests]
      BY <1>2 DEF Tick, ConnectionInv, ConnectionTypeOK, RequestKinds
    <2>3. /\ disconnected' \in {Never} \cup 0..OfflineTicks + 1 /\ silent' \in 0..OfflineTicks + 1
          /\ disconnected' # Never => disconnected' <= silent'
      BY <2>1, Sooner DEF ConnectionInv, ConnectionTypeOK
    <2>4. idle' \in {Never} \cup 0..IdleTicks
      BY <2>1 DEF ConnectionInv, ConnectionTypeOK
    <2> QED BY <2>1, <2>2, <2>3, <2>4 DEF ConnectionInv, ConnectionTypeOK
  <1>3. CASE IdleFires
    <2>1. requests' \in [RequestKinds -> 0..MaxRequests]
      BY <1>3 DEF IdleFires, SignsOut, ConnectionInv, ConnectionTypeOK, RequestKinds
    <2> QED BY <1>3, <2>1 DEF IdleFires, bounds, ConnectionInv, ConnectionTypeOK
  <1>4. CASE Input \/ Network
    <2>1. UNCHANGED <<page, disconnected, silent, windmill, message, requests, clicks>>
      BY <1>4 DEF Input, Network, timers, bounds
    <2>2. idle' \in {Never} \cup 0..IdleTicks
      BY <1>4 DEF Input, ResetIdle, Network, timers, ConnectionInv, ConnectionTypeOK
    <2>3. outages' \in 0..MaxOutages
      BY <1>4 DEF Input, Network, bounds, ConnectionInv, ConnectionTypeOK
    <2>4. up' \in BOOLEAN
      BY <1>4 DEF Input, Network, ConnectionInv, ConnectionTypeOK
    <2> QED BY <2>1, <2>2, <2>3, <2>4 DEF ConnectionInv, ConnectionTypeOK
  <1>5. ASSUME NEW k \in RequestKinds, Click(k) PROVE ConnectionInv'
    <2>1. requests' \in [RequestKinds -> 0..MaxRequests]
      BY <1>5 DEF Click, ConnectionInv, ConnectionTypeOK
    <2>2. windmill' \in {windmill, windmill + 1} /\ clicks' = clicks + 1 /\ clicks < MaxClicks
      BY <1>5 DEF Click, Busy
    <2>3. windmill' \in 0..2 * MaxRequests + MaxClicks /\ windmill' <= clicks' /\ clicks' \in 0..MaxClicks
      BY <2>2 DEF ConnectionInv, ConnectionTypeOK
    <2>4. /\ message' = FALSE /\ idle' = IdleTicks
          /\ UNCHANGED <<page, disconnected, silent, up, outages>>
      BY <1>5 DEF Click, ResetIdle
    <2>5. idle' \in {Never} \cup 0..IdleTicks
      BY <2>4
    <2>6. message' \in BOOLEAN
      BY <2>4
    <2> QED BY <2>1, <2>3, <2>4, <2>5, <2>6 DEF ConnectionInv, ConnectionTypeOK
  <1>6. ASSUME NEW k \in RequestKinds, Answer(k) \/ Lose(k) PROVE ConnectionInv'
    <2>1. requests' \in [RequestKinds -> 0..MaxRequests]
      BY <1>6 DEF Answer, Lose, Settle, ConnectionInv, ConnectionTypeOK
    <2>2. UNCHANGED <<idle, up, bounds>>
      BY <1>6 DEF Answer, Lose
    <2>3. windmill' \in 0..windmill
      <3>1. windmill \in Nat
        BY DEF ConnectionInv, ConnectionTypeOK
      <3>2. windmill' \in {0, windmill} \/ windmill' = IF windmill > 1 THEN windmill - 1 ELSE 0
        BY <1>6 DEF Answer, Lose, Offline, Unbusy
      <3> QED BY <3>1, <3>2
    <2>4. windmill' \in 0..2 * MaxRequests + MaxClicks /\ windmill' <= clicks
      BY <2>3 DEF ConnectionInv, ConnectionTypeOK
    <2>5. /\ disconnected' \in {Never} \cup 0..OfflineTicks + 1 /\ silent' \in 0..OfflineTicks + 1
          /\ disconnected' # Never => disconnected' <= silent'
      BY <1>6 DEF Answer, Lose, Answered, Failed, ConnectionInv, ConnectionTypeOK
    <2>6. page' \in {"live", "offline", "left"}
      BY <1>6 DEF Answer, Lose, Offline, ConnectionInv, ConnectionTypeOK
    <2>7. message' \in BOOLEAN
      BY <1>6 DEF Answer, Lose, Message, Offline, ConnectionInv, ConnectionTypeOK
    <2> QED BY <2>1, <2>2, <2>4, <2>5, <2>6, <2>7 DEF bounds, ConnectionInv, ConnectionTypeOK
  <1> QED BY <1>1, <1>2, <1>3, <1>4, <1>5, <1>6 DEF ConnectionNext

LEMMA ConnectionInvHolds == ConnectionSpec => []ConnectionInv
  BY ConnectionStarts, ConnectionStep, PTL DEF ConnectionSpec

\* The types: the timers, the windmill, which never counts more than the clicks, and the
\* requests in flight (uhppoted.js).
THEOREM ConnectionIsTyped == ConnectionSpec => []ConnectionTypeOK
  BY ConnectionInvHolds, PTL DEF ConnectionInv

\* connected(), offline(): a page goes offline after a time without any answer, or because a
\* sign-out or a synchronisation failed, for any number of requests in flight.
THEOREM OnlySilenceGoesOffline == ConnectionSpec => OfflineOnlyAfterSilence
  <1>1. ASSUME ConnectionInv, ConnectionNext, page = "live", page' = "offline"
        PROVE  silent > OfflineTicks \/ \E k \in {"logout", "synchronize"} : requests'[k] < requests[k]
    <2>1. PICK k \in RequestKinds : Lose(k)
      BY <1>1 DEF ConnectionNext, Tick, IdleFires, Input, Network, Click, Answer, Leaves
    <2>2. CASE k \in {"logout", "synchronize"}
      BY <1>1, <2>1, <2>2 DEF Lose, Settle, ConnectionInv, ConnectionTypeOK
    <2>3. CASE k \notin {"logout", "synchronize"}
      <3>1. TooLong
        BY <1>1, <2>1, <2>3 DEF Lose
      <3> QED BY <1>1, <3>1, ConnectionAssumption DEF TooLong, ConnectionInv, ConnectionTypeOK
    <2> QED BY <2>2, <2>3
  <1>2. ConnectionInv /\ [ConnectionNext]_connectionVars =>
            [page = "live" /\ page' = "offline" =>
                 \/ silent > OfflineTicks
                 \/ \E k \in {"logout", "synchronize"} : requests'[k] < requests[k]]_connectionVars
    BY <1>1
  <1> QED BY ConnectionInvHolds, <1>2, PTL DEF ConnectionSpec, OfflineOnlyAfterSilence

\* warning(), onRefresh(): of itself the page takes no message away, other than by signing out.
THEOREM MessagesOnlyGoForTheUser == ConnectionSpec => MessageStays
  <1>1. ASSUME ConnectionInv, ConnectionNext, message, ~message'
        PROVE  \/ page' # "live"
               \/ clicks' > clicks \/ requests'["logout"] > requests["logout"]
               \/ requests'["synchronize"] < requests["synchronize"]
    <2>1. CASE IdleFires
      BY <1>1, <2>1 DEF IdleFires, SignsOut, ConnectionInv, ConnectionTypeOK, RequestKinds
    <2>2. ASSUME NEW k \in RequestKinds, Click(k) PROVE clicks' > clicks
      BY <1>1, <2>2 DEF Click, ConnectionInv, ConnectionTypeOK
    <2>3. ASSUME NEW k \in RequestKinds, Answer(k) \/ Lose(k), page' = "live"
          PROVE  k = "synchronize"
      BY <1>1, <2>3 DEF Answer, Lose, Offline, Message, Outcomes, Leaves, ConnectionInv, ConnectionTypeOK
    <2>4. ASSUME NEW k \in RequestKinds, Answer(k) \/ Lose(k), k = "synchronize"
          PROVE  requests'["synchronize"] < requests["synchronize"]
      BY <1>1, <2>4 DEF Answer, Lose, Settle, ConnectionInv, ConnectionTypeOK
    <2>5. CASE Tick \/ Input \/ Network
      BY <1>1, <2>5 DEF Tick, TickMessage, Input, Network
    <2> QED BY <1>1, <2>1, <2>2, <2>3, <2>4, <2>5 DEF ConnectionNext
  <1>2. ConnectionInv /\ [ConnectionNext]_connectionVars =>
            [message /\ ~message' =>
                 \/ page' # "live"
                 \/ clicks' > clicks \/ requests'["logout"] > requests["logout"]
                 \/ requests'["synchronize"] < requests["synchronize"]]_connectionVars
    BY <1>1
  <1> QED BY ConnectionInvHolds, <1>2, PTL DEF ConnectionSpec, MessageStays

-----------------------------------------------------------------------------
(* The two together: each step is one of Page's or one of Connection's, and *)
(* leaves what the other keeps as it is.                                    *)

\* Whichever of the two runs, the state of both is always what the page can hold.
THEOREM ConsoleIsTyped == ConsoleSpec => []ConsoleTypeOK
  <1>1. ConsoleInit => PageInv /\ ConnectionInv
    BY PageOpens, ConnectionStarts DEF ConsoleInit
  <1>2. [ConsoleNext]_consoleVars => [Next]_vars /\ [ConnectionNext]_connectionVars
    BY DEF ConsoleNext, consoleVars, pageVars
  <1>3. PageInv /\ ConnectionInv /\ [ConsoleNext]_consoleVars => PageInv' /\ ConnectionInv'
    BY <1>2, PageStep, ConnectionStep
  <1>4. PageInv /\ ConnectionInv => ConsoleTypeOK
    BY PageInvTyped DEF ConnectionInv, ConsoleTypeOK
  <1> QED  BY <1>1, <1>3, <1>4, PTL DEF ConsoleSpec

=============================================================================
