------------------------------ MODULE EventLog ------------------------------
(***************************************************************************)
(* How the access events of the controllers reach events.json.             *)
(*                                                                         *)
(* A refresh asks the log what it misses (Events.Missing), then a          *)
(* goroutine per controller retrieves it under the controller's lock       *)
(* (LAN.getEvents) and hands the batch, over an unbuffered channel, to the *)
(* one consumer that appends it to the log and saves the log               *)
(* (AppendEvents). Refreshes overlap: the ticker's go through the task     *)
(* queue, the HTTP handler's do not. Meanwhile the controllers record      *)
(* events and overwrite the oldest, the network fails, the LAN is edited   *)
(* and the program restarts.                                               *)
(***************************************************************************)
EXTENDS Naturals, FiniteSets

CONSTANTS
    Controllers,
    Order,        \* the place of each controller in the configured list
    Workers,      \* overlapping refreshes
    Capacity,     \* events a controller holds before it overwrites the oldest
    MaxGaps,      \* gaps asked for by one refresh
    MaxBatch,     \* events retrieved from either end by one refresh (MAX)
    InitialLast,  \* events the controllers may have recorded at start
    InitialFiles, \* what events.json may hold at start
    LanEdits,     \* TRUE: the LAN may be edited
    MaxIndex,     \* bound: events recorded by a controller
    MaxFaults,    \* bound: failed exchanges and failed saves
    MaxRestarts   \* bound: restarts

Index == 1..MaxIndex

\* Stands for MaxUint32, the end of the interval after the last stored event.
Top == MaxIndex + 1
Interval == [from: 1..Top, to: 1..Top]

\* What the log has for an index. A 'blank' is the placeholder for an event that
\* the controller no longer had.
Batch == [Index -> {"none", "event", "blank"}]
Nothing == [i \in Index |-> "none"]
Known(b) == {i \in Index : b[i] # "none"}

ASSUME SizesAssumption ==
    /\ MaxIndex \in Nat /\ MaxBatch \in Nat /\ MaxGaps \in Nat /\ Capacity \in Nat \ {0}
    /\ MaxFaults \in Nat /\ MaxRestarts \in Nat /\ LanEdits \in BOOLEAN
ASSUME OrderAssumption ==
    Order \in [Controllers -> Nat] /\ \A c, d \in Controllers : Order[c] = Order[d] => c = d
ASSUME InitialAssumption ==
    /\ InitialLast \subseteq 0..MaxIndex
    /\ InitialFiles \subseteq {b \in Batch : \A i \in Index : b[i] # "blank"}

-----------------------------------------------------------------------------
(* Events.Missing: what to ask the controllers for.                        *)

\* What follows the last stored event, what comes before the first, and the gaps
\* between stored events.
AfterLast(S) ==
    {g \in Interval : g.to = Top /\ (g.from = 1 \/ g.from - 1 \in S) /\ \A i \in S : i < g.from}
BeforeFirst(S) == {g \in Interval : g.from = 1 /\ g.to + 1 \in S /\ \A i \in S : g.to < i}
Gaps(S) ==
    {g \in Interval : /\ g.from <= g.to /\ g.from - 1 \in S /\ g.to + 1 \in S
                      /\ (g.from)..(g.to) \cap S = {}}

\* The limit is one counter for the whole call: a controller gets what the
\* controllers before it in the list have left.
GapsLeft(known, c) ==
    LET used == {x \in Controllers \X Interval : Order[x[1]] < Order[c] /\ x[2] \in Gaps(known[x[1]])}
    IN IF Cardinality(used) < MaxGaps THEN MaxGaps - Cardinality(used) ELSE 0

FirstGaps(known, c) ==
    {g \in Gaps(known[c]) :
        Cardinality({h \in Gaps(known[c]) : h.from < g.from}) < GapsLeft(known, c)}

\* Mutant of Missing: what came before the first stored event is not asked for.
MissingAfterFirst(known) ==
    [c \in Controllers |-> AfterLast(known[c]) \cup FirstGaps(known, c)]

Missing(known) ==
    [c \in Controllers |->
        AfterLast(known[c]) \cup BeforeFirst(known[c]) \cup FirstGaps(known, c)]

(* LAN.getEvents: which of it to retrieve from a controller that holds the *)
(* events first..last.                                                     *)

In(i, g) == g.from <= i /\ i <= g.to
Latest(S, n) == {i \in S : Cardinality({j \in S : j > i}) < n}

Wanted(gaps, first, last) ==
    LET held(G) == {i \in Index : first <= i /\ i <= last /\ \E g \in G : In(i, g)}
        newest == Latest(held({g \in gaps : In(last, g)}), MaxBatch)
        oldest == held({g \in gaps : In(first, g) /\ ~In(last, g)})
        between == held({g \in gaps : ~In(last, g) /\ first < g.from /\ g.to < last})
    IN newest \cup Latest(oldest, MaxBatch - Cardinality(newest)) \cup between

-----------------------------------------------------------------------------
VARIABLES
    last,      \* the index of the newest event of each controller
    log,       \* sys.events
    cached,    \* cache.events.events: the indices in the log, by controller
    dirty,     \* cache.events.dirty
    file,      \* events.json
    attached,  \* does the configured LAN have the events channel?
    refresh,   \* what each refresh is doing
    fetch,     \* what each of its goroutines is doing
    inbox,     \* the batch the consumer has taken from the channel
    saving,    \* it has appended a batch and is about to save the log
    faults, restarts

vars == <<last, log, cached, dirty, file, attached, refresh, fetch, inbox, saving, faults, restarts>>

Refresh == [pc: {"rest", "queued", "getting"}, missing: [Controllers -> SUBSET Interval]]
Resting == [pc |-> "rest", missing |-> [c \in Controllers |-> {}]]

Fetch == [pc: {"done", "start", "fetch", "send"}, lan: BOOLEAN, want: SUBSET Index, batch: Batch]
Done == [pc |-> "done", lan |-> FALSE, want |-> {}, batch |-> Nothing]

Message == [controller: Controllers, batch: Batch]

\* The oldest event a controller still holds, 0 if it has none.
First(c) == IF last[c] > Capacity THEN last[c] - Capacity + 1 ELSE IF last[c] = 0 THEN 0 ELSE 1

Init ==
    /\ last \in [Controllers -> InitialLast]
    /\ file \in [Controllers -> InitialFiles]
    /\ \A c \in Controllers : \A i \in Known(file[c]) : i <= last[c]
    /\ log = file
    /\ cached = [c \in Controllers |-> {}] /\ dirty = TRUE
    /\ attached = TRUE
    /\ refresh = [w \in Workers |-> Resting]
    /\ fetch = [w \in Workers |-> [c \in Controllers |-> Done]]
    /\ inbox = {} /\ saving = FALSE
    /\ faults = 0 /\ restarts = 0

Fault == faults < MaxFaults /\ faults' = faults + 1

-----------------------------------------------------------------------------
(* A refresh.                                                              *)

Indices == IF dirty THEN [c \in Controllers |-> Known(log[c])] ELSE cached

\* sys.events.Missing at the head of a refresh; the retrieval itself may have to
\* wait in the task queue.
AskMissing(w) ==
    /\ refresh[w].pc = "rest"
    /\ cached' = Indices /\ dirty' = FALSE
    /\ refresh' = [refresh EXCEPT ![w] = [pc |-> "queued", missing |-> Missing(Indices)]]
    /\ UNCHANGED <<last, log, file, attached, fetch, inbox, saving, faults, restarts>>

\* The LAN is copied here, with its channel if it still has one.
GetEvents(w) ==
    /\ refresh[w].pc = "queued"
    /\ refresh' = [refresh EXCEPT ![w].pc = "getting"]
    /\ fetch' = [fetch EXCEPT ![w] = [c \in Controllers |->
                    [Done EXCEPT !.pc = "start", !.lan = attached]]]
    /\ UNCHANGED <<last, log, cached, dirty, file, attached, inbox, saving, faults, restarts>>

Unlocked(c) == \A w \in Workers : fetch[w][c].pc \notin {"fetch", "send"}

\* GetEventIndices, under the controller's lock. An error ends the retrieval.
GetEventIndices(w, c) ==
    /\ fetch[w][c].pc = "start" /\ Unlocked(c)
    /\ \/ /\ fetch' = [fetch EXCEPT ![w][c] = [@ EXCEPT
                 !.pc = "fetch", !.want = Wanted(refresh[w].missing[c], First(c), last[c])]]
          /\ UNCHANGED faults
       \/ /\ Fault
          /\ fetch' = [fetch EXCEPT ![w][c] = Done]
    /\ UNCHANGED <<last, log, cached, dirty, file, attached, refresh, inbox, saving, restarts>>

\* Mutant of Retrieved: an event that could not be retrieved is taken to be gone.
RetrievedOrBlank(c, want, failed) ==
    [i \in Index |-> IF i \notin want THEN "none"
                     ELSE IF i < First(c) \/ i \in failed THEN "blank" ELSE "event"]

\* A controller answers with nothing for an event it has overwritten since.
Retrieved(c, want, failed) ==
    [i \in Index |-> IF i \notin want \ failed THEN "none"
                     ELSE IF i < First(c) THEN "blank" ELSE "event"]

\* Some of the GetEvent calls may fail. Without a channel the batch is dropped.
FetchEvents(w, c) ==
    /\ fetch[w][c].pc = "fetch"
    /\ \E failed \in SUBSET fetch[w][c].want :
        /\ IF failed = {} THEN UNCHANGED faults ELSE Fault
        /\ fetch' = [fetch EXCEPT ![w][c] =
               IF @.lan THEN [Done EXCEPT !.pc = "send",
                                          !.batch = Retrieved(c, fetch[w][c].want, failed)]
               ELSE Done]
    /\ UNCHANGED <<last, log, cached, dirty, file, attached, refresh, inbox, saving, restarts>>

\* The hand-over waits, with the controller locked, until the consumer is free.
Send(w, c) ==
    /\ fetch[w][c].pc = "send" /\ inbox = {} /\ ~saving
    /\ inbox' = {[controller |-> c, batch |-> fetch[w][c].batch]}
    /\ fetch' = [fetch EXCEPT ![w][c] = Done]
    /\ UNCHANGED <<last, log, cached, dirty, file, attached, refresh, saving, faults, restarts>>

EndRefresh(w) ==
    /\ refresh[w].pc = "getting" /\ \A c \in Controllers : fetch[w][c].pc = "done"
    /\ refresh' = [refresh EXCEPT ![w] = Resting]
    /\ UNCHANGED <<last, log, cached, dirty, file, attached, fetch, inbox, saving, faults, restarts>>

RefreshStep(w) ==
    \/ AskMissing(w) \/ GetEvents(w) \/ EndRefresh(w)
    \/ \E c \in Controllers : GetEventIndices(w, c) \/ FetchEvents(w, c)

-----------------------------------------------------------------------------
(* The consumer: AppendEvents.                                             *)

\* Mutant of Appended: what was retrieved last wins.
AppendedOver(old, batch) == [i \in Index |-> IF batch[i] # "none" THEN batch[i] ELSE old[i]]

\* The log keeps what it has for an index.
Appended(old, batch) == [i \in Index |-> IF old[i] # "none" THEN old[i] ELSE batch[i]]

\* Mutant of Stale: the index cache is only rebuilt for new controllers.
StaleIfFirst(c) == dirty \/ Known(log[c]) = {}

\* Whatever was received, the cached indices have to be rebuilt.
Stale(c) == TRUE

Append ==
    /\ \E m \in inbox :
        /\ log' = [log EXCEPT ![m.controller] = Appended(@, m.batch)]
        /\ dirty' = Stale(m.controller)
        /\ saving' = (Known(m.batch) # {})
    /\ inbox' = {}
    /\ UNCHANGED <<last, cached, file, attached, refresh, fetch, faults, restarts>>

\* save() writes a temporary file and renames it; a failure leaves the old one.
Save ==
    /\ saving /\ saving' = FALSE
    /\ \/ file' = log /\ UNCHANGED faults
       \/ Fault /\ UNCHANGED file
    /\ UNCHANGED <<last, log, cached, dirty, attached, refresh, fetch, inbox, restarts>>

-----------------------------------------------------------------------------
(* The world.                                                              *)

Record(c) ==
    /\ last[c] < MaxIndex
    /\ last' = [last EXCEPT ![c] = @ + 1]
    /\ UNCHANGED <<log, cached, dirty, file, attached, refresh, fetch, inbox, saving, faults, restarts>>

\* UpdateInterfaces swaps in a clone of the LAN, and Clone does not copy the
\* channel.
EditLan ==
    /\ LanEdits /\ attached
    /\ attached' = FALSE
    /\ UNCHANGED <<last, log, cached, dirty, file, refresh, fetch, inbox, saving, faults, restarts>>

Restart ==
    /\ restarts < MaxRestarts /\ restarts' = restarts + 1
    /\ log' = file /\ cached' = [c \in Controllers |-> {}] /\ dirty' = TRUE
    /\ attached' = TRUE
    /\ refresh' = [w \in Workers |-> Resting]
    /\ fetch' = [w \in Workers |-> [c \in Controllers |-> Done]]
    /\ inbox' = {} /\ saving' = FALSE
    /\ UNCHANGED <<last, file, faults>>

Sends == \E w \in Workers, c \in Controllers : Send(w, c)
Consume == Append \/ Save

Next ==
    \/ \E w \in Workers : RefreshStep(w)
    \/ Sends \/ Consume
    \/ \E c \in Controllers : Record(c)
    \/ EditLan \/ Restart

\* Refreshes are started by a ticker (or a user), goroutines run, and a sender
\* that waits for the consumer is served in turn.
Spec ==
    /\ Init /\ [][Next]_vars
    /\ \A w \in Workers : WF_vars(RefreshStep(w))
    /\ \A w \in Workers, c \in Controllers :
           WF_vars(GetEventIndices(w, c)) /\ WF_vars(FetchEvents(w, c)) /\ SF_vars(Send(w, c))
    /\ WF_vars(Consume)

-----------------------------------------------------------------------------
(* Properties.                                                             *)

\* Every variable keeps to its type, and an index cache that is not marked dirty
\* is what is in the log (Events.Missing trusts it).
TypeOK ==
    /\ last \in [Controllers -> 0..MaxIndex]
    /\ log \in [Controllers -> Batch] /\ file \in [Controllers -> Batch]
    /\ cached \in [Controllers -> SUBSET Index] /\ dirty \in BOOLEAN
    /\ attached \in BOOLEAN /\ saving \in BOOLEAN
    /\ refresh \in [Workers -> Refresh]
    /\ fetch \in [Workers -> [Controllers -> Fetch]]
    /\ inbox \subseteq Message
    /\ faults \in 0..MaxFaults /\ restarts \in 0..MaxRestarts
    /\ ~dirty => cached = [c \in Controllers |-> Known(log[c])]

\* A placeholder in the log, or in events.json, stands for an event that its
\* controller really no longer has, however late or often it was asked for.
BlanksAreGone ==
    \A c \in Controllers, i \in Index :
        log[c][i] = "blank" \/ file[c][i] = "blank" => i < First(c)

\* An event once in events.json stays there: a late refresh that finds it
\* overwritten on the controller, a failed save or a restart does not take it away.
SavedEventsKept ==
    [][\A c \in Controllers, i \in Index : file[c][i] = "event" => file'[c][i] = "event"]_vars

\* Gaps that no controller can fill any more, and that are asked for again and again.
Lost == {x \in Controllers \X Interval : x[2] \in Gaps(Known(log[x[1]])) /\ x[2].to < First(x[1])}

\* Every event that stays on its controller gets into the log, through failed and
\* overlapping refreshes and restarts, while the LAN has its channel and lost
\* events do not use up the number of gaps one refresh asks for.
EventsRetrieved ==
    <>[](~attached \/ Cardinality(Lost) >= MaxGaps
         \/ \A c \in Controllers : \A i \in Index :
                First(c) <= i /\ i <= last[c] => log[c][i] # "none")

\* "Yield briefly after the hand-off so the consumer can commit the received batch":
\* a refresh that retrieved something from a controller hands it to the consumer.
BatchHandedOff ==
    [][\A w \in Workers, c \in Controllers :
          fetch[w][c].pc = "fetch" /\ fetch[w][c].want # {} /\ fetch'[w][c].pc # "fetch"
              => fetch'[w][c].pc = "send" \/ faults' # faults \/ restarts' # restarts]_vars

=============================================================================
