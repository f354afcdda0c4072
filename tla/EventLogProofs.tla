--------------------------- MODULE EventLogProofs ---------------------------
(***************************************************************************)
(* Proofs about EventLog, for any number of controllers and overlapping    *)
(* refreshes, any capacity and any limits.                                 *)
(***************************************************************************)
EXTENDS EventLog, TLAPS

-----------------------------------------------------------------------------
(* Type correctness, with the consistency of the index cache.              *)

LEMMA NothingType == Nothing \in Batch /\ Known(Nothing) = {}
  BY DEF Nothing, Batch, Known

LEMMA DoneType == Done \in Fetch /\ Resting \in Refresh
  BY NothingType DEF Done, Fetch, Resting, Refresh

LEMMA IndicesType ==
    ASSUME TypeOK
    PROVE /\ Indices \in [Controllers -> SUBSET Index]
          /\ Indices = [c \in Controllers |-> Known(log[c])]
  BY DEF TypeOK, Indices, Known

LEMMA MissingType ==
    ASSUME NEW known \in [Controllers -> SUBSET Index]
    PROVE Missing(known) \in [Controllers -> SUBSET Interval]
  BY DEF Missing, AfterLast, BeforeFirst, FirstGaps, Gaps

LEMMA WantedType ==
    ASSUME NEW gaps, NEW from, NEW to PROVE Wanted(gaps, from, to) \subseteq Index
  BY DEF Wanted, Latest

LEMMA RetrievedType ==
    ASSUME NEW c, NEW want, NEW failed PROVE Retrieved(c, want, failed) \in Batch
  BY DEF Retrieved, Batch

LEMMA AppendedType ==
    ASSUME NEW old \in Batch, NEW batch \in Batch PROVE Appended(old, batch) \in Batch
  BY DEF Appended, Batch

LEMMA FaultType == TypeOK /\ Fault => faults' \in 0..MaxFaults
  BY SizesAssumption DEF TypeOK, Fault

LEMMA TypeInit == Init => TypeOK
  <1> SUFFICES ASSUME Init PROVE TypeOK OBVIOUS
  <1>1. last \in [Controllers -> 0..MaxIndex] BY InitialAssumption DEF Init
  <1>2. file \in [Controllers -> Batch] /\ log = file BY InitialAssumption DEF Init
  <1>3. fetch \in [Workers -> [Controllers -> Fetch]] /\ refresh \in [Workers -> Refresh]
    BY DoneType DEF Init
  <1>4. cached \in [Controllers -> SUBSET Index] /\ dirty = TRUE BY DEF Init
  <1>5. faults \in 0..MaxFaults /\ restarts \in 0..MaxRestarts BY SizesAssumption DEF Init
  <1>6. inbox = {} /\ saving = FALSE /\ attached = TRUE BY DEF Init
  <1>7. QED BY <1>1, <1>2, <1>3, <1>4, <1>5, <1>6 DEF TypeOK

LEMMA TypeRefresh ==
    ASSUME TypeOK, NEW w \in Workers, RefreshStep(w) PROVE TypeOK'
  <1>1. CASE AskMissing(w)
    <2>1. cached' \in [Controllers -> SUBSET Index] /\ cached' = [c \in Controllers |-> Known(log[c])]
      BY <1>1, IndicesType DEF AskMissing
    <2>2. refresh' \in [Workers -> Refresh]
      BY <1>1, IndicesType, MissingType DEF AskMissing, TypeOK, Refresh
    <2>3. QED BY <1>1, <2>1, <2>2 DEF AskMissing, TypeOK
  <1>2. CASE GetEvents(w)
    <2>1. [Done EXCEPT !.pc = "start", !.lan = attached] \in Fetch
      BY DoneType DEF TypeOK, Fetch
    <2>2. fetch' \in [Workers -> [Controllers -> Fetch]]
      BY <1>2, <2>1 DEF GetEvents, TypeOK
    <2>3. refresh' \in [Workers -> Refresh] BY <1>2 DEF GetEvents, TypeOK, Refresh
    <2>4. QED BY <1>2, <2>2, <2>3 DEF GetEvents, TypeOK
  <1>3. CASE EndRefresh(w)
    <2>1. refresh' \in [Workers -> Refresh] BY <1>3, DoneType DEF EndRefresh, TypeOK
    <2>2. QED BY <1>3, <2>1 DEF EndRefresh, TypeOK
  <1>4. ASSUME NEW c \in Controllers, GetEventIndices(w, c) PROVE TypeOK'
    <2> DEFINE want == Wanted(refresh[w].missing[c], First(c), last[c])
               asking == [fetch[w][c] EXCEPT !.pc = "fetch", !.want = want]
    <2>1. want \subseteq Index BY WantedType
    <2>2. asking \in Fetch
      <3>1. fetch[w][c] \in Fetch BY DEF TypeOK
      <3>2. QED BY <2>1, <3>1 DEF Fetch
    <2>3. \/ fetch' = [fetch EXCEPT ![w][c] = asking] /\ UNCHANGED faults
          \/ fetch' = [fetch EXCEPT ![w][c] = Done] /\ Fault
      BY <1>4, Zenon DEF GetEventIndices
    <2> HIDE DEF asking
    <2>4. fetch' \in [Workers -> [Controllers -> Fetch]]
      <3>1. fetch \in [Workers -> [Controllers -> Fetch]] BY DEF TypeOK
      <3>2. PICK f \in Fetch : fetch' = [fetch EXCEPT ![w][c] = f] BY <2>2, <2>3, DoneType
      <3>3. QED BY <3>1, <3>2
    <2>5. faults' \in 0..MaxFaults BY <2>3, FaultType DEF TypeOK
    <2>6. QED BY <1>4, <2>4, <2>5 DEF GetEventIndices, TypeOK
  <1>5. ASSUME NEW c \in Controllers, FetchEvents(w, c) PROVE TypeOK'
    <2>1. PICK failed \in SUBSET fetch[w][c].want :
            /\ IF failed = {} THEN UNCHANGED faults ELSE Fault
            /\ fetch' = [fetch EXCEPT ![w][c] =
                   IF @.lan THEN [Done EXCEPT !.pc = "send",
                                              !.batch = Retrieved(c, fetch[w][c].want, failed)]
                   ELSE Done]
      BY <1>5 DEF FetchEvents
    <2>2. [Done EXCEPT !.pc = "send", !.batch = Retrieved(c, fetch[w][c].want, failed)] \in Fetch
      BY DoneType, RetrievedType DEF Fetch
    <2>3. fetch' \in [Workers -> [Controllers -> Fetch]]
      BY <2>1, <2>2, DoneType DEF TypeOK
    <2>4. faults' \in 0..MaxFaults BY <2>1, FaultType DEF TypeOK
    <2>5. QED BY <1>5, <2>3, <2>4 DEF FetchEvents, TypeOK
  <1>6. QED BY <1>1, <1>2, <1>3, <1>4, <1>5 DEF RefreshStep

LEMMA TypeRest ==
    ASSUME TypeOK,
           \/ Sends \/ Consume \/ EditLan \/ Restart \/ \E c \in Controllers : Record(c)
    PROVE TypeOK'
  <1>1. ASSUME NEW w \in Workers, NEW c \in Controllers, Send(w, c) PROVE TypeOK'
    <2>1. inbox' \subseteq Message BY <1>1 DEF Send, TypeOK, Message, Fetch
    <2>2. fetch' \in [Workers -> [Controllers -> Fetch]] BY <1>1, DoneType DEF Send, TypeOK
    <2>3. QED BY <1>1, <2>1, <2>2 DEF Send, TypeOK
  <1>2. CASE Append
    <2>1. PICK m \in inbox :
            /\ log' = [log EXCEPT ![m.controller] = Appended(@, m.batch)]
            /\ dirty' = Stale(m.controller)
            /\ saving' = (Known(m.batch) # {})
      BY <1>2 DEF Append
    <2>2. m.controller \in Controllers /\ m.batch \in Batch BY DEF TypeOK, Message
    <2>3. Appended(log[m.controller], m.batch) \in Batch BY <2>2, AppendedType DEF TypeOK
    <2>4. log' \in [Controllers -> Batch] BY <2>1, <2>3 DEF TypeOK
    <2>5. dirty' = TRUE /\ saving' \in BOOLEAN BY <2>1 DEF Stale
    <2>6. QED BY <1>2, <2>4, <2>5 DEF Append, TypeOK
  <1>3. CASE Save
    <2>1. faults' \in 0..MaxFaults BY <1>3, FaultType DEF Save, TypeOK
    <2>2. QED BY <1>3, <2>1 DEF Save, TypeOK
  <1>4. CASE EditLan BY <1>4 DEF EditLan, TypeOK
  <1>5. CASE Restart
    <2>1. fetch' \in [Workers -> [Controllers -> Fetch]] /\ refresh' \in [Workers -> Refresh]
      BY <1>5, DoneType DEF Restart
    <2>2. restarts' \in 0..MaxRestarts BY <1>5, SizesAssumption DEF Restart, TypeOK
    <2>3. cached' \in [Controllers -> SUBSET Index] /\ dirty' = TRUE BY <1>5 DEF Restart
    <2>4. QED BY <1>5, <2>1, <2>2, <2>3 DEF Restart, TypeOK
  <1>6. ASSUME NEW c \in Controllers, Record(c) PROVE TypeOK'
    <2>1. last' \in [Controllers -> 0..MaxIndex] BY <1>6, SizesAssumption DEF Record, TypeOK
    <2>2. QED BY <1>6, <2>1 DEF Record, TypeOK
  <1>7. QED BY <1>1, <1>2, <1>3, <1>4, <1>5, <1>6 DEF Sends, Consume

LEMMA TypeStep == TypeOK /\ [Next]_vars => TypeOK'
  <1> SUFFICES ASSUME TypeOK, [Next]_vars PROVE TypeOK' OBVIOUS
  <1>1. CASE UNCHANGED vars BY <1>1 DEF vars, TypeOK
  <1>2. CASE Next BY <1>2, TypeRefresh, TypeRest DEF Next
  <1>3. QED BY <1>1, <1>2

\* Every variable keeps to its type, and Events.Missing never trusts an index
\* cache that differs from the log.
THEOREM TypeCorrect == Spec => []TypeOK
  BY TypeInit, TypeStep, PTL DEF Spec

-----------------------------------------------------------------------------
(* A controller never gets an overwritten event back.                      *)

LEMMA FirstGrows == TypeOK /\ [Next]_vars => \A c \in Controllers : First(c) <= First(c)'
  <1> SUFFICES ASSUME TypeOK, [Next]_vars, NEW c \in Controllers PROVE First(c) <= First(c)'
    OBVIOUS
  <1>1. last[c] \in Nat /\ last'[c] \in Nat /\ last[c] <= last'[c]
    <2>1. CASE \E d \in Controllers : Record(d)
      BY <2>1, SizesAssumption DEF Record, TypeOK
    <2>2. CASE UNCHANGED last BY <2>2 DEF TypeOK
    <2>3. QED
      BY <2>1, <2>2 DEF Next, vars, RefreshStep, AskMissing, GetEvents, EndRefresh, GetEventIndices,
         FetchEvents, Sends, Send, Consume, Append, Save, EditLan, Restart
  <1>2. QED BY <1>1, SizesAssumption DEF First

-----------------------------------------------------------------------------
(* Placeholders. The invariant follows them from the goroutine that makes  *)
(* one, over the channel and into the log, to the file.                    *)

Gone(c, b) == \A i \in Index : b[i] = "blank" => i < First(c)

BlankInv ==
    /\ \A c \in Controllers : Gone(c, log[c]) /\ Gone(c, file[c])
    /\ \A w \in Workers, c \in Controllers : Gone(c, fetch[w][c].batch)
    /\ \A m \in inbox : Gone(m.controller, m.batch)

LEMMA NothingGone == ASSUME NEW c PROVE Gone(c, Nothing) /\ Gone(c, Done.batch)
  BY DEF Gone, Nothing, Done

LEMMA BlankInit == Init => BlankInv
  <1> SUFFICES ASSUME Init PROVE BlankInv OBVIOUS
  <1>1. ASSUME NEW c \in Controllers PROVE Gone(c, file[c])
    BY InitialAssumption DEF Init, Gone
  <1>2. QED BY <1>1, NothingGone DEF Init, BlankInv

\* What was gone before a step is gone after it.
LEMMA StaysGone ==
    ASSUME TypeOK, [Next]_vars, NEW c \in Controllers, NEW b, Gone(c, b)
    PROVE \A i \in Index : b[i] = "blank" => i < First(c)'
  <1>1. First(c) <= First(c)' BY FirstGrows
  <1>2. First(c) \in Nat /\ First(c)' \in Nat
    <2>1. TypeOK' BY TypeStep
    <2>2. QED BY <2>1, SizesAssumption DEF TypeOK, First
  <1>3. QED BY <1>1, <1>2, SizesAssumption DEF Gone, Index

LEMMA RetrievedGone ==
    ASSUME NEW c, NEW want, NEW failed PROVE Gone(c, Retrieved(c, want, failed))
  BY DEF Gone, Retrieved

LEMMA AppendedGone ==
    ASSUME NEW c, NEW old, NEW batch, Gone(c, old), Gone(c, batch)
    PROVE Gone(c, Appended(old, batch))
  BY DEF Gone, Appended

\* The batches of the goroutines after a step are those before, new ones with
\* nothing in them, or what was just retrieved.
LEMMA FetchedBatches ==
    ASSUME TypeOK, [Next]_vars, NEW w \in Workers, NEW c \in Controllers
    PROVE \/ fetch'[w][c].batch = fetch[w][c].batch
          \/ fetch'[w][c].batch = Nothing
          \/ \E failed : fetch'[w][c].batch = Retrieved(c, fetch[w][c].want, failed)
  <1> USE DEF TypeOK, Fetch, Done
  <1>1. ASSUME NEW v \in Workers, RefreshStep(v)
        PROVE  \/ fetch'[w][c].batch = fetch[w][c].batch
               \/ fetch'[w][c].batch = Nothing
               \/ \E failed : fetch'[w][c].batch = Retrieved(c, fetch[w][c].want, failed)
    <2>1. CASE AskMissing(v) \/ EndRefresh(v) BY <2>1 DEF AskMissing, EndRefresh
    <2>2. CASE GetEvents(v) BY <2>2 DEF GetEvents
    <2>3. ASSUME NEW d \in Controllers, GetEventIndices(v, d)
          PROVE fetch'[w][c].batch = fetch[w][c].batch \/ fetch'[w][c].batch = Nothing
      <3> DEFINE asking == [fetch[v][d] EXCEPT
                   !.pc = "fetch", !.want = Wanted(refresh[v].missing[d], First(d), last[d])]
      <3>1. fetch[v][d] \in Fetch /\ asking.batch = fetch[v][d].batch BY DEF TypeOK
      <3>2. fetch' = [fetch EXCEPT ![v][d] = asking] \/ fetch' = [fetch EXCEPT ![v][d] = Done]
        BY <2>3, Zenon DEF GetEventIndices
      <3> HIDE DEF asking
      <3>3. CASE v = w /\ d = c BY <3>1, <3>2, <3>3
      <3>4. CASE ~(v = w /\ d = c) BY <3>2, <3>4
      <3>5. QED BY <3>3, <3>4
    <2>4. ASSUME NEW d \in Controllers, FetchEvents(v, d)
          PROVE  \/ fetch'[w][c].batch = fetch[w][c].batch
                 \/ fetch'[w][c].batch = Nothing
                 \/ \E failed : fetch'[w][c].batch = Retrieved(c, fetch[w][c].want, failed)
      <3>1. PICK failed \in SUBSET fetch[v][d].want :
              fetch' = [fetch EXCEPT ![v][d] =
                   IF @.lan THEN [Done EXCEPT !.pc = "send",
                                              !.batch = Retrieved(d, fetch[v][d].want, failed)]
                   ELSE Done]
        BY <2>4 DEF FetchEvents
      <3>2. CASE v = w /\ d = c BY <3>1, <3>2
      <3>3. CASE ~(v = w /\ d = c) BY <3>1, <3>3
      <3>4. QED BY <3>2, <3>3
    <2>5. QED BY <1>1, <2>1, <2>2, <2>3, <2>4 DEF RefreshStep
  <1>2. CASE Sends BY <1>2 DEF Sends, Send
  <1>3. CASE Restart BY <1>3 DEF Restart
  <1>4. CASE Consume \/ EditLan \/ (\E d \in Controllers : Record(d)) \/ UNCHANGED vars
    BY <1>4 DEF Consume, Append, Save, EditLan, Record, vars
  <1>5. QED BY <1>1, <1>2, <1>3, <1>4 DEF Next

\* The log after a step: itself, the file, or with the consumer's batch appended.
LEMMA LoggedBatches ==
    ASSUME TypeOK, [Next]_vars, NEW c \in Controllers
    PROVE \/ log'[c] = log[c]
          \/ log'[c] = file[c] /\ Restart
          \/ \E m \in inbox : m.controller = c /\ log'[c] = Appended(log[c], m.batch)
  <1>1. CASE Append
    <2>1. PICK m \in inbox : log' = [log EXCEPT ![m.controller] = Appended(@, m.batch)]
      BY <1>1 DEF Append
    <2>2. CASE m.controller = c BY <2>1, <2>2 DEF TypeOK
    <2>3. CASE m.controller # c BY <2>1, <2>3 DEF TypeOK
    <2>4. QED BY <2>2, <2>3
  <1>2. CASE Restart BY <1>2 DEF Restart
  <1>3. CASE UNCHANGED log BY <1>3
  <1>4. QED
    BY <1>1, <1>2, <1>3 DEF Next, vars, RefreshStep, AskMissing, GetEvents, EndRefresh, GetEventIndices,
       FetchEvents, Sends, Send, Consume, Save, EditLan, Record

LEMMA FiledBatches ==
    ASSUME [Next]_vars PROVE file' = file \/ (file' = log /\ log' = log)
  BY DEF Next, vars, RefreshStep, AskMissing, GetEvents, EndRefresh, GetEventIndices,
     FetchEvents, Sends, Send, Consume, Append, Save, EditLan, Record, Restart

LEMMA InboxBatches ==
    ASSUME [Next]_vars, NEW m \in inbox'
    PROVE m \in inbox \/ \E w \in Workers, c \in Controllers :
                            m = [controller |-> c, batch |-> fetch[w][c].batch]
  BY DEF Next, vars, RefreshStep, AskMissing, GetEvents, EndRefresh, GetEventIndices,
     FetchEvents, Sends, Send, Consume, Append, Save, EditLan, Record, Restart

LEMMA BlankStep == TypeOK /\ BlankInv /\ [Next]_vars => BlankInv'
  <1> SUFFICES ASSUME TypeOK, BlankInv, [Next]_vars PROVE BlankInv' OBVIOUS
  <1>1. ASSUME NEW c \in Controllers, NEW b, NEW b1, b1 = b, Gone(c, b)
        PROVE \A i \in Index : b1[i] = "blank" => i < First(c)'
    BY <1>1, StaysGone
  <1>2. ASSUME NEW c \in Controllers PROVE Gone(c, log[c])' /\ Gone(c, file[c])'
    <2>1. Gone(c, log[c]) /\ Gone(c, file[c]) BY DEF BlankInv
    <2>2. ASSUME NEW m \in inbox, m.controller = c PROVE Gone(c, Appended(log[c], m.batch))
      BY <2>1, <2>2, AppendedGone DEF BlankInv
    <2>3. PICK b : b = log'[c] /\ Gone(c, b)
      BY <2>1, <2>2, LoggedBatches
    <2>4. PICK f : f = file'[c] /\ Gone(c, f)
      BY <2>1, FiledBatches
    <2>5. QED BY <1>1, <2>3, <2>4 DEF Gone
  <1>3. ASSUME NEW w \in Workers, NEW c \in Controllers PROVE Gone(c, fetch[w][c].batch)'
    <2>1. PICK b : b = fetch'[w][c].batch /\ Gone(c, b)
      BY FetchedBatches, NothingGone, RetrievedGone DEF BlankInv
    <2>2. QED BY <1>1, <2>1 DEF Gone
  <1>4. ASSUME NEW m \in inbox' PROVE Gone(m.controller, m.batch)'
    <2>1. m.controller \in Controllers BY TypeStep DEF TypeOK, Message
    <2>2. Gone(m.controller, m.batch) BY InboxBatches DEF BlankInv
    <2>3. QED BY <1>1, <2>1, <2>2 DEF Gone
  <1>5. QED BY <1>2, <1>3, <1>4 DEF BlankInv

\* For any number of overlapping refreshes, a placeholder is only ever logged or
\* saved for an event that its controller has overwritten.
THEOREM PlaceholdersAreGone == Spec => []BlanksAreGone
  <1>1. BlankInv => BlanksAreGone BY DEF BlankInv, BlanksAreGone, Gone
  <1>2. QED BY <1>1, TypeCorrect, BlankInit, BlankStep, PTL DEF Spec

-----------------------------------------------------------------------------
(* The file is behind the log, never beside it.                            *)

FileBehind ==
    \A c \in Controllers, i \in Index : file[c][i] # "none" => log[c][i] = file[c][i]

LEMMA FileBehindStep == TypeOK /\ FileBehind /\ [Next]_vars => FileBehind'
  <1> SUFFICES ASSUME TypeOK, FileBehind, [Next]_vars, NEW c \in Controllers, NEW i \in Index,
                      file'[c][i] # "none"
               PROVE log'[c][i] = file'[c][i]
    BY DEF FileBehind
  <1>1. CASE file' = log /\ log' = log BY <1>1
  <1>2. CASE file' = file
    <2>1. log[c][i] = file[c][i] /\ log[c][i] # "none" BY <1>2 DEF FileBehind
    <2>2. ASSUME NEW m \in inbox PROVE Appended(log[c], m.batch)[i] = log[c][i]
      BY <2>1 DEF Appended
    <2>3. QED BY <1>2, <2>1, <2>2, LoggedBatches
  <1>3. QED BY <1>1, <1>2, FiledBatches

\* Once saved, an event stays in events.json, whatever the workers, failed saves and
\* restarts do.
THEOREM SavedStaysSaved == Spec => SavedEventsKept
  <1>1. Init => FileBehind BY DEF Init, FileBehind
  <1>2. FileBehind /\ [Next]_vars =>
          [\A c \in Controllers, i \in Index : file[c][i] = "event" => file'[c][i] = "event"]_vars
    BY FiledBatches DEF FileBehind
  <1>3. QED BY <1>1, <1>2, TypeCorrect, FileBehindStep, PTL DEF Spec, SavedEventsKept

=============================================================================
