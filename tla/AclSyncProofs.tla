--------------------------- MODULE AclSyncProofs ---------------------------
(***************************************************************************)
(* Proofs about AclSync, for any number of records, levels, doors,         *)
(* controllers, workers and edits.                                         *)
(***************************************************************************)
EXTENDS AclSync, TLAPS

-----------------------------------------------------------------------------
(* The operators of the model keep to their types.                         *)

\* Period 0 stands for no dates; a level's profile is 1 or its own slot.
LEMMA OfferedType ==
    ASSUME NEW gm, NEW gs, NEW d PROVE Offered(gm, gs, d) \subseteq Nat
  <1>1. ASSUME NEW g PROVE LevelProfile(gm, g) \in Nat
    BY SlotAssumption DEF LevelProfile
  <1>2. QED BY <1>1 DEF Offered

LEMMA EntryForType ==
    ASSUME NEW gm, NEW r, NEW c, r.period \in Nat
    PROVE EntryFor(gm, r, c) \in Entry
  <1>1. Period(r) \in Nat BY ModeAssumption DEF Period
  <1>2. Access(gm, r.groups, r.number, c) \in [Doors -> Nat]
    <2>1. ASSUME NEW d \in Doors, Offered(gm, r.groups, d) # {}
          PROVE (CHOOSE p \in Offered(gm, r.groups, d) : TRUE) \in Nat
      BY <2>1, OfferedType
    <2>2. QED BY <2>1 DEF Access
  <1>3. QED BY <1>1, <1>2 DEF EntryFor, Entry, NotHeld

LEMMA NotHeldType == NotHeld \in Entry
  BY DEF NotHeld, Entry

LEMMA NoCardType == NoCard \in Record
  BY DEF NoCard, Record

LEMMA NoLevelType == NoLevel \in Level
  BY DEF NoLevel, Level

LEMMA PutRecordType ==
    ASSUME NEW m \in Cards, NEW o \in OIDs, NEW r \in Record
    PROVE [m EXCEPT ![o] = r] \in Cards
  BY DEF Cards

LEMMA PutLevelType ==
    ASSUME NEW gm \in LevelMap, NEW g \in Levels, NEW v \in Level
    PROVE [gm EXCEPT ![g] = v] \in LevelMap
  BY DEF LevelMap

LEMMA NoRowType == NoRow \in Row
  BY DEF NoRow, Row, NotHeld, Entry

LEMMA AclType ==
    ASSUME NEW m \in Cards, NEW gm PROVE Acl(m, gm) \in [Numbers \cup {0} -> Row]
  <1>1. ASSUME NEW n \in Numbers \cup {0} PROVE AclRow(m, gm, n) \in Row
    <2>1. CASE Matches(m, n) = {} BY <2>1, NoRowType DEF AclRow
    <2>2. CASE Matches(m, n) # {} /\ n # 0 /\ \E o \in Matches(m, n) : Configured(m, o)
      <3> DEFINE o == CHOOSE q \in Matches(m, n) : Configured(m, q)
                 r == [m[o] EXCEPT !.groups = Membership(m, n)]
                 e == [c \in Controllers |-> EntryFor(gm, r, c)]
      <3>1. o \in OIDs BY <2>2 DEF Matches
      <3>2. r.period \in Nat BY <3>1 DEF Cards, Record
      <3>3. e \in [Controllers -> Entry] BY <3>2, EntryForType
      <3>4. AclRow(m, gm, n) = [kind |-> "card", entry |-> e] BY <2>2 DEF AclRow
      <3>5. QED BY <3>3, <3>4 DEF Row
    <2>3. CASE Matches(m, n) # {} /\ ~(n # 0 /\ \E o \in Matches(m, n) : Configured(m, o))
      <3>1. AclRow(m, gm, n) = [NoRow EXCEPT !.kind = "blank"] BY <2>3 DEF AclRow
      <3>2. QED BY <3>1, NoRowType DEF Row
    <2>4. QED BY <2>1, <2>2, <2>3
  <1>2. QED BY <1>1 DEF Acl

LEMMA CompareType ==
    ASSUME NEW acl, NEW seen \in SUBSET Controllers, NEW blank \in SUBSET Controllers
    PROVE /\ Compare(acl, seen, blank).added \subseteq Controllers \X Numbers
          /\ Compare(acl, seen, blank).updated \subseteq Controllers \X Numbers
          /\ Compare(acl, seen, blank).deleted \subseteq Controllers \X (Numbers \cup {0})
  BY DEF Compare, Holds

LEMMA ReportedType ==
    ASSUME NEW acl, NEW rows \in SUBSET (Controllers \X (Numbers \cup {0}))
    PROVE DeletedNumbers(acl, rows) \subseteq Numbers \cup {0}
  BY DEF DeletedNumbers, Reported

LEMMA UpdatedNumbersType ==
    ASSUME NEW acl, NEW diff, diff.updated \subseteq Controllers \X Numbers
    PROVE UpdatedNumbers(acl, diff) \subseteq Numbers \cup {0}
  BY DEF UpdatedNumbers, Reported

LEMMA RestingType == Resting \in WorkerState
  BY NoRowType DEF Resting, WorkerState, NoAcl

LEMMA OutcomesType ==
    ASSUME cards \in Cards, NEW c, NEW n PROVE Outcomes(c, n) \subseteq Entry
  <1>1. NotHeld \in Entry BY DEF NotHeld, Entry
  <1>2. ASSUME NEW o \in Matches(cards, n) PROVE EntryFor(groups, cards[o], c) \in Entry
    BY EntryForType DEF Matches, Cards, Record
  <1>3. QED BY <1>1, <1>2 DEF Outcomes

-----------------------------------------------------------------------------
(* Type correctness. Inside a transaction at least one edit was counted,   *)
(* which makes its number a legal tag for the pushes.                      *)

TypeInv == TypeOK /\ (tx # "none" => edits >= 1)

LEMMA TypeInit == Init => TypeInv
  <1> SUFFICES ASSUME Init PROVE TypeInv OBVIOUS
  <1>1. cards \in Cards /\ groups \in LevelMap
    BY LoadedAssumption DEF Init
  <1>2. device \in [Controllers -> [Numbers -> Entry]]
    BY InputsAssumption, NotHeldType DEF Init
  <1>3. catalog \in [Levels -> {"none", "live", "deleted"}]
    BY DEF Init
  <1>4. shadow \in Cards /\ draft \in LevelMap
    BY NoCardType, NoLevelType DEF Init, NoCards, Cards, NoLevels, LevelMap
  <1>5. worker \in [Workers -> WorkerState]
    BY RestingType DEF Init
  <1>6. QED BY <1>1, <1>2, <1>3, <1>4, <1>5, InputsAssumption DEF Init, TypeInv, TypeOK

\* A step of one worker leaves it in a legal state.
LEMMA BecomeType ==
    ASSUME NEW w \in Workers, NEW state \in WorkerState, worker \in [Workers -> WorkerState],
           Become(w, state)
    PROVE worker' \in [Workers -> WorkerState]
  BY DEF Become

LEMMA EndTxType ==
    ASSUME TypeInv, EndTx
    PROVE /\ tx' = "none" /\ shadow' \in Cards /\ draft' \in LevelMap
          /\ updated' = {} /\ touched' = {} /\ ops' = 0 /\ edits' = edits
  BY NoCardType, NoLevelType DEF EndTx, NoCards, Cards, NoLevels, LevelMap

LEMMA PushesType ==
    ASSUME TypeInv, tx # "none", NEW ns \in SUBSET (Numbers \cup {0})
    PROVE Pushes(ns) \subseteq Push
  <1>1. edits \in 1..MaxEdits BY InputsAssumption DEF TypeInv, TypeOK
  <1>2. QED BY <1>1 DEF Pushes, Push

LEMMA TypeRequest == TypeInv /\ Request => TypeInv'
  <1> SUFFICES ASSUME TypeInv, Request PROVE TypeInv' OBVIOUS
  <1> USE InputsAssumption DEF TypeInv, TypeOK
  <1>1. CASE BeginCards BY <1>1 DEF BeginCards, pushVars
  <1>2. CASE BeginGroups BY <1>2 DEF BeginGroups, pushVars
  <1>3. ASSUME NEW o \in OIDs, AddCard(o) PROVE TypeInv'
    <2>1. [NoCard EXCEPT !.state = "live"] \in Record BY DEF NoCard, Record
    <2>2. shadow' \in Cards BY <1>3, <2>1, PutRecordType DEF AddCard
    <2>3. QED BY <1>3, <2>2 DEF AddCard, pushVars
  <1>4. ASSUME NEW o \in OIDs, RemoveCard(o) PROVE TypeInv'
    <2>1. shadow' \in Cards
      <3>1. shadow[o] \in Record BY DEF Cards
      <3>2. [shadow[o] EXCEPT !.state = "deleted"] \in Record BY <3>1 DEF Record
      <3>3. shadow' = [shadow EXCEPT ![o] = [shadow[o] EXCEPT !.state = "deleted"]]
        BY <1>4 DEF RemoveCard
      <3>4. QED BY <3>2, <3>3, PutRecordType
    <2>2. updated' \subseteq Numbers \cup {0} BY <1>4 DEF RemoveCard, Collected, Cards, Record
    <2>3. QED BY <1>4, <2>1, <2>2 DEF RemoveCard, pushVars
  <1>5. ASSUME NEW o \in OIDs, NEW n \in Numbers \cup {0}, NEW gs \in Memberships, NEW p \in Periods,
               SetCard(o, n, gs, p)
        PROVE TypeInv'
    <2>1. shadow' \in Cards
      <3> DEFINE r == [shadow[o] EXCEPT !.number = n, !.groups = gs, !.period = p,
                                        !.found = FALSE, !.incorrect = FALSE]
      <3>1. shadow[o] \in Record BY DEF Cards
      <3>2. gs \in SUBSET Groups /\ p \in Nat OBVIOUS
      <3>3. r \in Record BY <3>1, <3>2 DEF Record
      <3>4. shadow' = [shadow EXCEPT ![o] = r] BY <1>5 DEF SetCard
      <3>5. QED BY <3>3, <3>4, PutRecordType
    <2>2. updated' \subseteq Numbers \cup {0} BY <1>5 DEF SetCard, Collected, Cards, Record
    <2>3. QED BY <1>5, <2>1, <2>2 DEF SetCard, pushVars
  <1>6. ASSUME NEW g \in Levels, AddLevel(g) PROVE TypeInv'
    <2>1. [NoLevel EXCEPT !.state = "live"] \in Level BY DEF NoLevel, Level
    <2>2. draft' \in LevelMap BY <1>6, <2>1, PutLevelType DEF AddLevel
    <2>3. QED BY <1>6, <2>2 DEF AddLevel, pushVars
  <1>7. ASSUME NEW g \in Levels, RemoveLevel(g) PROVE TypeInv'
    <2>1. draft[g] \in Level BY DEF LevelMap
    <2>2. [draft[g] EXCEPT !.state = "deleted"] \in Level BY <2>1 DEF Level
    <2>3. draft' = [draft EXCEPT ![g] = [draft[g] EXCEPT !.state = "deleted"]]
      BY <1>7 DEF RemoveLevel
    <2>4. draft' \in LevelMap BY <2>2, <2>3, PutLevelType
    <2>5. QED BY <1>7, <2>4 DEF RemoveLevel, pushVars
  <1>8. ASSUME NEW g \in Levels, NEW ds \in LevelDoorSets, NEW timed \in Schedules, SetLevel(g, ds, timed)
        PROVE TypeInv'
    <2>1. draft[g] \in Level BY DEF LevelMap
    <2>2. [draft[g] EXCEPT !.doors = ds, !.timed = timed] \in Level BY <2>1 DEF Level
    <2>3. draft' = [draft EXCEPT ![g] = [draft[g] EXCEPT !.doors = ds, !.timed = timed]]
      BY <1>8 DEF SetLevel
    <2>4. draft' \in LevelMap BY <2>2, <2>3, PutLevelType
    <2>5. QED BY <1>8, <2>4 DEF SetLevel, pushVars
  <1>9. QED BY <1>1, <1>2, <1>3, <1>4, <1>5, <1>6, <1>7, <1>8 DEF Request

LEMMA TypeFinish == TypeInv /\ Finish => TypeInv'
  <1> SUFFICES ASSUME TypeInv, Finish PROVE TypeInv' OBVIOUS
  <1>1. CASE CommitCards
    <2>1. Pushes(updated) \subseteq Push BY <1>1, PushesType DEF CommitCards, TypeInv, TypeOK
    <2>2. QED BY <1>1, <2>1, EndTxType, InputsAssumption DEF CommitCards, TypeInv, TypeOK
  <1>2. CASE CommitGroups
    <2>1. Members(touched) \subseteq Numbers \cup {0} BY DEF Members, TypeInv, TypeOK, Cards, Record
    <2>2. Pushes(Members(touched)) \subseteq Push BY <1>2, <2>1, PushesType DEF CommitGroups
    <2>3. QED BY <1>2, <2>2, EndTxType, InputsAssumption DEF CommitGroups, TypeInv, TypeOK
  <1>3. CASE Refuse BY <1>3, EndTxType, InputsAssumption DEF Refuse, pushVars, TypeInv, TypeOK
  <1>4. QED BY <1>1, <1>2, <1>3 DEF Finish

LEMMA TypePushes == TypeInv /\ (Lookups \/ Writes) => TypeInv'
  <1> SUFFICES ASSUME TypeInv, Lookups \/ Writes PROVE TypeInv' OBVIOUS
  <1>1. ASSUME NEW p \in queued, PushLookup(p) PROVE TypeInv'
    <2>1. p \in Push BY DEF TypeInv, TypeOK
    <2>2. ASSUME NEW e \in Outcomes(p.controller, p.number)
          PROVE [edit |-> p.edit, controller |-> p.controller, number |-> p.number, entry |-> e] \in Write
      BY <2>1, OutcomesType, InputsAssumption DEF TypeInv, TypeOK, Push, Write
    <2>3. ready' \subseteq Write BY <1>1, <2>2 DEF PushLookup, TypeInv, TypeOK
    <2>4. QED BY <1>1, <2>3 DEF PushLookup, txVars, TypeInv, TypeOK
  <1>2. ASSUME NEW p \in ready, PushWrite(p) PROVE TypeInv'
    <2>1. p \in Write BY DEF TypeInv, TypeOK
    <2>2. device' \in [Controllers -> [Numbers -> Entry]]
      BY <1>2, <2>1 DEF PushWrite, Write, TypeInv, TypeOK
    <2>3. QED BY <1>2, <2>2 DEF PushWrite, txVars, TypeInv, TypeOK
  <1>3. ASSUME NEW p \in ready, PushFail(p) PROVE TypeInv'
    BY <1>3, InputsAssumption DEF PushFail, txVars, TypeInv, TypeOK
  <1>4. QED BY <1>1, <1>2, <1>3 DEF Lookups, Writes

LEMMA TypeSweep ==
    ASSUME TypeInv, NEW w \in Workers, Sweep(w) PROVE TypeInv'
  <1> USE DEF TypeInv, TypeOK
  <1>1. cards' \in Cards BY NoCardType DEF Sweep, Cards
  <1>2. groups' \in LevelMap
    <2>1. ASSUME NEW g \in Levels PROVE [groups[g] EXCEPT !.state = "swept"] \in Level
      <3>1. groups[g] \in Level BY DEF LevelMap
      <3>2. QED BY <3>1 DEF Level
    <2>2. QED BY <2>1 DEF Sweep, LevelMap
  <1>3. worker' \in [Workers -> WorkerState]
    <2>1. worker[w] \in WorkerState OBVIOUS
    <2>2. [worker[w] EXCEPT !.pc = "read"] \in WorkerState BY <2>1 DEF WorkerState
    <2>3. QED BY <2>2, BecomeType DEF Sweep, Go
  <1>4. QED BY <1>1, <1>2, <1>3 DEF Sweep, txVars, pushVars

\* What the other steps of a worker have in common: the rest is unchanged.
LEMMA TypeOfWorkerStep ==
    ASSUME TypeInv, NEW w \in Workers, worker' \in [Workers -> WorkerState],
           cards' \in Cards, device' \in [Controllers -> [Numbers -> Entry]],
           faults' \in 0..MaxFaults,
           UNCHANGED <<groups, catalog, txVars, pushVars>>
    PROVE TypeInv'
  BY DEF TypeInv, TypeOK, txVars, pushVars

LEMMA RestType ==
    ASSUME TypeInv, NEW w \in Workers, Rest(w) \/ AfterCompare(w)
    PROVE worker' \in [Workers -> WorkerState]
  <1>1. [Resting EXCEPT !.pc = "checkRead"] \in WorkerState BY RestingType DEF WorkerState
  <1>2. QED BY <1>1, RestingType, BecomeType DEF Rest, AfterCompare, TypeInv, TypeOK

LEMMA TypeReadAcl ==
    ASSUME TypeInv, NEW w \in Workers, ReadAcl(w) PROVE TypeInv'
  <1>1. ASSUME NEW from, NEW to \in {"diff", "checkDiff", "syncDiff"}, ReadRows(w, from, to)
        PROVE TypeInv'
    <2>1. worker[w] \in WorkerState BY DEF TypeInv, TypeOK
    <2>2. Acl(cards, groups) \in [Numbers \cup {0} -> Row] BY AclType DEF TypeInv, TypeOK
    <2>3. [worker[w] EXCEPT !.pc = to, !.acl = Acl(cards, groups)] \in WorkerState
      BY <2>1, <2>2 DEF WorkerState
    <2>4. worker' \in [Workers -> WorkerState]
      BY <1>1, <2>3, BecomeType DEF ReadRows, TypeInv, TypeOK
    <2>5. QED BY <1>1, <2>4, TypeOfWorkerStep DEF ReadRows, TypeInv, TypeOK
  <1>2. ASSUME NEW from, NoRows(w, from) PROVE TypeInv'
    <2>1. worker' \in [Workers -> WorkerState] BY <1>2, RestType DEF NoRows
    <2>2. QED BY <1>2, <2>1, TypeOfWorkerStep DEF NoRows, TypeInv, TypeOK
  <1>3. QED BY <1>1, <1>2 DEF ReadAcl

LEMMA ExchangeType ==
    ASSUME TypeInv, NEW seen, NEW blank, Exchange(seen, blank) PROVE faults' \in 0..MaxFaults
  BY InputsAssumption DEF Exchange, TypeInv, TypeOK

LEMMA FoundNumbersType ==
    ASSUME NEW acl, NEW seen \in SUBSET Controllers, NEW blank \in SUBSET Controllers
    PROVE FoundNumbers(Compare(acl, seen, blank)) \subseteq Numbers
  <1>1. Compare(acl, seen, blank).added \subseteq Controllers \X Numbers BY CompareType
  <1>2. ASSUME NEW x \in Compare(acl, seen, blank).added PROVE x[2] \in Numbers BY <1>1
  <1>3. QED BY <1>2 DEF FoundNumbers

LEMMA TypeCompareDiff ==
    ASSUME TypeInv, NEW w \in Workers, CompareDiff(w) PROVE TypeInv'
  <1>1. PICK seen \in SUBSET Controllers, blank \in SUBSET Controllers :
            /\ Exchange(seen, blank)
            /\ LET acl == worker[w].acl
                   diff == Compare(acl, seen, blank)
                   missing == {x \in diff.deleted : Dated(acl, x)}
               IN Become(w, [Cleared(w) EXCEPT !.pc = "scan", !.found = FoundNumbers(diff),
                       !.marks = {x[2] : x \in diff.added} \cup UpdatedNumbers(acl, diff)
                                    \cup DeletedNumbers(acl, missing)])
    BY DEF CompareDiff
  <1> DEFINE acl == worker[w].acl
             diff == Compare(acl, seen, blank)
             missing == {x \in diff.deleted : Dated(acl, x)}
             marks == {x[2] : x \in diff.added} \cup UpdatedNumbers(acl, diff) \cup DeletedNumbers(acl, missing)
  <1>2. FoundNumbers(diff) \subseteq Numbers BY FoundNumbersType
  <1>3. marks \subseteq Numbers \cup {0}
    <2>1. /\ diff.added \subseteq Controllers \X Numbers
          /\ diff.updated \subseteq Controllers \X Numbers
          /\ diff.deleted \subseteq Controllers \X (Numbers \cup {0})
      BY CompareType
    <2>2. missing \subseteq Controllers \X (Numbers \cup {0}) BY <2>1
    <2>3. DeletedNumbers(acl, missing) \subseteq Numbers \cup {0} BY <2>2, ReportedType
    <2>4. UpdatedNumbers(acl, diff) \subseteq Numbers \cup {0} BY <2>1, UpdatedNumbersType
    <2>5. {x[2] : x \in diff.added} \subseteq Numbers BY <2>1
    <2>6. QED BY <2>3, <2>4, <2>5
  <1> DEFINE F == FoundNumbers(diff)
  <1>4. Cleared(w) \in WorkerState
    BY RestingType DEF Cleared, WorkerState, TypeInv, TypeOK
  <1> HIDE DEF marks, F
  <1>5. [Cleared(w) EXCEPT !.pc = "scan", !.found = F, !.marks = marks] \in WorkerState
    BY <1>2, <1>3, <1>4 DEF WorkerState, F
  <1>6. worker' \in [Workers -> WorkerState]
    BY <1>1, <1>5, BecomeType DEF marks, F, TypeInv, TypeOK
  <1>7. QED BY <1>1, <1>6, ExchangeType, TypeOfWorkerStep DEF CompareDiff, TypeInv, TypeOK

LEMMA TypeFound ==
    ASSUME TypeInv, NEW w \in Workers, FoundScan(w) \/ FoundApply(w) \/ MarkIncorrect(w)
    PROVE TypeInv'
  <1> USE DEF TypeInv, TypeOK
  <1>1. CASE FoundScan(w)
    <2>1. PICK R \in Removals(worker[w].found) :
              Become(w, [worker[w] EXCEPT !.pc = "apply", !.remove = R,
                             !.add = {n \in worker[w].found : LiveIn(Matches(cards, n)) = {}}])
      BY <1>1 DEF FoundScan
    <2> DEFINE A == {n \in worker[w].found : LiveIn(Matches(cards, n)) = {}}
    <2>2. worker[w] \in WorkerState OBVIOUS
    <2>3. R \subseteq OIDs BY DEF Removals, FoundIn
    <2>4. A \subseteq Numbers BY <2>2 DEF WorkerState
    <2> HIDE DEF A
    <2>5. [worker[w] EXCEPT !.pc = "apply", !.remove = R, !.add = A] \in WorkerState
      BY <2>2, <2>3, <2>4 DEF WorkerState
    <2>6. worker' \in [Workers -> WorkerState] BY <2>1, <2>5, BecomeType DEF A
    <2>7. QED BY <1>1, <2>6, TypeOfWorkerStep DEF FoundScan
  <1>2. CASE FoundApply(w)
    <2>0. PICK new \in SUBSET worker[w].add : \E at \in [new -> Room] :
              cards' = [o \in OIDs |->
                   IF o \in worker[w].remove THEN NoCard
                   ELSE IF \E n \in new : at[n] = o
                   THEN [NoCard EXCEPT !.state = "live", !.found = TRUE,
                                       !.number = CHOOSE n \in new : at[n] = o]
                   ELSE cards[o]]
      BY <1>2 DEF FoundApply
    <2>1. PICK at \in [new -> Room] :
              cards' = [o \in OIDs |->
                   IF o \in worker[w].remove THEN NoCard
                   ELSE IF \E n \in new : at[n] = o
                   THEN [NoCard EXCEPT !.state = "live", !.found = TRUE,
                                       !.number = CHOOSE n \in new : at[n] = o]
                   ELSE cards[o]]
      BY <2>0
    <2>2. new \subseteq Numbers BY DEF WorkerState
    <2>3. ASSUME NEW o \in OIDs, \E n \in new : at[n] = o
          PROVE [NoCard EXCEPT !.state = "live", !.found = TRUE,
                               !.number = CHOOSE n \in new : at[n] = o] \in Record
      <3>1. (CHOOSE n \in new : at[n] = o) \in Numbers BY <2>2, <2>3
      <3>2. ASSUME NEW k \in Numbers
            PROVE [NoCard EXCEPT !.state = "live", !.found = TRUE, !.number = k] \in Record
        BY NoCardType DEF Record
      <3>3. QED BY <3>1, <3>2
    <2>4. cards' \in Cards BY <2>1, <2>3, NoCardType DEF Cards
    <2>5. [Cleared(w) EXCEPT !.pc = "mark", !.marks = worker[w].marks] \in WorkerState
      BY RestingType DEF Cleared, WorkerState
    <2>6. worker' \in [Workers -> WorkerState] BY <1>2, <2>5, BecomeType DEF FoundApply
    <2>7. QED BY <1>2, <2>4, <2>6, TypeOfWorkerStep DEF FoundApply
  <1>3. CASE MarkIncorrect(w)
    <2>1. ASSUME NEW o \in OIDs PROVE Marked(cards[o], worker[w].marks) \in Record
      <3>1. cards[o] \in Record BY DEF Cards
      <3>2. ASSUME NEW b \in BOOLEAN PROVE [cards[o] EXCEPT !.incorrect = b] \in Record
        BY <3>1 DEF Record
      <3>3. (cards[o].number \in worker[w].marks) \in BOOLEAN OBVIOUS
      <3>4. QED BY <3>2, <3>3, Zenon DEF Marked
    <2>2. cards' \in Cards BY <1>3, <2>1 DEF MarkIncorrect, Cards
    <2>3. worker' \in [Workers -> WorkerState] BY <1>3, RestType DEF MarkIncorrect
    <2>4. QED BY <1>3, <2>2, <2>3, TypeOfWorkerStep DEF MarkIncorrect
  <1>4. QED BY <1>1, <1>2, <1>3

LEMMA TypeSync ==
    ASSUME TypeInv, NEW w \in Workers,
           SyncCheck(w) \/ SyncProfiles(w) \/ SyncDiff(w) \/ SyncNext(w) \/ SyncSend(w) \/ SyncDone(w)
    PROVE TypeInv'
  <1> USE DEF TypeInv, TypeOK
  <1>0. worker[w] \in WorkerState OBVIOUS
  <1>1. CASE SyncCheck(w)
    <2>1. PICK seen \in SUBSET Controllers, blank \in SUBSET Controllers :
              /\ Exchange(seen, blank)
              /\ Become(w, [Resting EXCEPT !.pc = "profiles"]) \/ Rest(w)
      BY <1>1 DEF SyncCheck
    <2>2. [Resting EXCEPT !.pc = "profiles"] \in WorkerState BY RestingType DEF WorkerState
    <2>3. worker' \in [Workers -> WorkerState] BY <2>1, <2>2, BecomeType, RestType
    <2>4. QED BY <1>1, <2>1, <2>3, ExchangeType, TypeOfWorkerStep DEF SyncCheck
  <1>2. CASE SyncProfiles(w)
    <2>1. [worker[w] EXCEPT !.pc = "syncRead"] \in WorkerState BY <1>0 DEF WorkerState
    <2>2. worker' \in [Workers -> WorkerState] BY <1>2, <2>1, BecomeType, RestType DEF SyncProfiles, Go
    <2>3. faults' \in 0..MaxFaults BY <1>2, InputsAssumption DEF SyncProfiles
    <2>4. QED BY <1>2, <2>2, <2>3, TypeOfWorkerStep DEF SyncProfiles
  <1>3. CASE SyncDiff(w)
    <2>1. PICK seen \in SUBSET Controllers, blank \in SUBSET Controllers :
              /\ Exchange(seen, blank)
              /\ LET acl == worker[w].acl
                     diff == Compare(acl, seen, blank)
                     list == {x[2] : x \in diff.added} \cup UpdatedNumbers(acl, diff)
                               \cup DeletedNumbers(acl, diff.deleted) \cup LiveNumbers
                 IN Become(w, [Resting EXCEPT !.pc = "syncNext", !.todo = Controllers \X (list \ {0})])
      BY <1>3 DEF SyncDiff
    <2> DEFINE acl == worker[w].acl
               diff == Compare(acl, seen, blank)
               list == {x[2] : x \in diff.added} \cup UpdatedNumbers(acl, diff)
                         \cup DeletedNumbers(acl, diff.deleted) \cup LiveNumbers
    <2>2. list \subseteq Numbers \cup {0}
      <3>1. /\ diff.added \subseteq Controllers \X Numbers
            /\ diff.updated \subseteq Controllers \X Numbers
            /\ diff.deleted \subseteq Controllers \X (Numbers \cup {0})
        BY CompareType
      <3>2. DeletedNumbers(acl, diff.deleted) \subseteq Numbers \cup {0} BY <3>1, ReportedType
      <3>3. UpdatedNumbers(acl, diff) \subseteq Numbers \cup {0} BY <3>1, UpdatedNumbersType
      <3>4. {x[2] : x \in diff.added} \subseteq Numbers BY <3>1
      <3>5. LiveNumbers \subseteq Numbers \cup {0} BY DEF LiveNumbers, Cards, Record
      <3>6. QED BY <3>2, <3>3, <3>4, <3>5
    <2> DEFINE T == Controllers \X (list \ {0})
    <2>3. T \subseteq Controllers \X Numbers BY <2>2
    <2> HIDE DEF T
    <2>4. [Resting EXCEPT !.pc = "syncNext", !.todo = T] \in WorkerState
      BY <2>3, RestingType DEF WorkerState
    <2>5. worker' \in [Workers -> WorkerState] BY <2>1, <2>4, BecomeType DEF T
    <2>6. QED BY <1>3, <2>1, <2>5, ExchangeType, TypeOfWorkerStep DEF SyncDiff
  <1>4. CASE SyncNext(w)
    <2>1. PICK x \in worker[w].todo :
              LET rest == [worker[w] EXCEPT !.todo = @ \ {x}]
              IN \/ \E e \in Outcomes(x[1], x[2]) :
                       Become(w, [rest EXCEPT !.pc = "syncSend", !.writing =
                           {[edit |-> 0, controller |-> x[1], number |-> x[2], entry |-> e]}])
                 \/ MayRefuse(x[2]) /\ Become(w, [rest EXCEPT !.failed = TRUE])
      BY <1>4 DEF SyncNext
    <2>2. x[1] \in Controllers /\ x[2] \in Numbers BY <1>0 DEF WorkerState
    <2> DEFINE rest == [worker[w] EXCEPT !.todo = @ \ {x}]
    <2>3. rest \in WorkerState BY <1>0 DEF WorkerState
    <2> HIDE DEF rest
    <2>4. ASSUME NEW e \in Entry
          PROVE [rest EXCEPT !.pc = "syncSend", !.writing =
                    {[edit |-> 0, controller |-> x[1], number |-> x[2], entry |-> e]}] \in WorkerState
      <3> DEFINE p == [edit |-> 0, controller |-> x[1], number |-> x[2], entry |-> e]
      <3>1. p \in Write BY <2>2, InputsAssumption DEF Write
      <3> HIDE DEF p
      <3>2. [rest EXCEPT !.pc = "syncSend", !.writing = {p}] \in WorkerState
        BY <2>3, <3>1 DEF WorkerState
      <3>3. QED BY <3>2 DEF p
    <2>5. [rest EXCEPT !.failed = TRUE] \in WorkerState BY <2>3 DEF WorkerState
    <2>6. worker' \in [Workers -> WorkerState]
      BY <2>1, <2>4, <2>5, BecomeType, OutcomesType DEF rest
    <2>7. QED BY <1>4, <2>6, TypeOfWorkerStep DEF SyncNext
  <1>5. CASE SyncSend(w)
    <2>1. PICK p \in worker[w].writing :
              \/ /\ device' = [device EXCEPT ![p.controller][p.number] = p.entry]
                 /\ Become(w, [worker[w] EXCEPT !.pc = "syncNext", !.writing = {}])
                 /\ UNCHANGED faults
              \/ /\ faults < MaxFaults /\ faults' = faults + 1
                 /\ Become(w, [worker[w] EXCEPT !.pc = "syncNext", !.writing = {}, !.failed = TRUE])
                 /\ UNCHANGED device
      BY <1>5 DEF SyncSend
    <2>2. p \in Write BY <1>0 DEF WorkerState
    <2>3. device' \in [Controllers -> [Numbers -> Entry]] BY <2>1, <2>2 DEF Write
    <2>4. /\ [worker[w] EXCEPT !.pc = "syncNext", !.writing = {}] \in WorkerState
          /\ [worker[w] EXCEPT !.pc = "syncNext", !.writing = {}, !.failed = TRUE] \in WorkerState
      BY <1>0 DEF WorkerState
    <2>5. worker' \in [Workers -> WorkerState] BY <2>1, <2>4, BecomeType
    <2>6. faults' \in 0..MaxFaults BY <2>1, InputsAssumption
    <2>7. QED BY <1>5, <2>3, <2>5, <2>6, TypeOfWorkerStep DEF SyncSend
  <1>6. CASE SyncDone(w)
    <2>1. [Resting EXCEPT !.pc = "read", !.last = TRUE] \in WorkerState BY RestingType DEF WorkerState
    <2>2. worker' \in [Workers -> WorkerState] BY <1>6, <2>1, BecomeType, RestType DEF SyncDone
    <2>3. QED BY <1>6, <2>2, TypeOfWorkerStep DEF SyncDone
  <1>7. QED BY <1>1, <1>2, <1>3, <1>4, <1>5, <1>6

LEMMA TypeWorld ==
    ASSUME TypeInv,
           Expiry \/ \E c \in Controllers, n \in Numbers, e \in ForeignEntries \cup {NotHeld} :
                         ForeignWrite(c, n, e)
    PROVE TypeInv'
  <1> USE DEF TypeInv, TypeOK
  <1>1. ASSUME NEW o \in OIDs, ExpireCard(o) PROVE TypeInv'
    <2>1. ASSUME NEW r \in Record PROVE Expired(r) \in Record BY DEF Expired, Record
    <2>2. cards[o] \in Record /\ shadow[o] \in Record BY DEF Cards
    <2>3. Expired(cards[o]) \in Record /\ Expired(shadow[o]) \in Record BY <2>1, <2>2
    <2>4. /\ cards' = [cards EXCEPT ![o] = Expired(cards[o])]
          /\ shadow' = [shadow EXCEPT ![o] = Expired(shadow[o])]
      BY <1>1 DEF ExpireCard
    <2>5. cards' \in Cards /\ shadow' \in Cards BY <2>3, <2>4, PutRecordType
    <2>6. QED BY <1>1, <2>5 DEF ExpireCard, pushVars
  <1>2. ASSUME NEW g \in Levels, ExpireLevel(g) PROVE TypeInv'
    <2>1. ASSUME NEW v \in Level PROVE Expired(v) \in Level BY DEF Expired, Level
    <2>2. groups[g] \in Level /\ draft[g] \in Level BY DEF LevelMap
    <2>3. Expired(groups[g]) \in Level /\ Expired(draft[g]) \in Level BY <2>1, <2>2
    <2>4. /\ groups' = [groups EXCEPT ![g] = Expired(groups[g])]
          /\ draft' = [draft EXCEPT ![g] = Expired(draft[g])]
      BY <1>2 DEF ExpireLevel
    <2>5. groups' \in LevelMap /\ draft' \in LevelMap BY <2>3, <2>4, PutLevelType
    <2>6. QED BY <1>2, <2>5 DEF ExpireLevel, pushVars
  <1>3. ASSUME NEW c \in Controllers, NEW n \in Numbers, NEW e \in ForeignEntries \cup {NotHeld},
               ForeignWrite(c, n, e)
        PROVE TypeInv'
    <2>1. e \in Entry BY InputsAssumption, NotHeldType
    <2>2. device' \in [Controllers -> [Numbers -> Entry]] BY <1>3, <2>1 DEF ForeignWrite
    <2>3. QED BY <1>3, <2>2, InputsAssumption DEF ForeignWrite, txVars, pushVars
  <1>4. QED BY <1>1, <1>2, <1>3 DEF Expiry

LEMMA TypeStep == TypeInv /\ [Next]_vars => TypeInv'
  <1> SUFFICES ASSUME TypeInv, [Next]_vars PROVE TypeInv' OBVIOUS
  <1>1. CASE UNCHANGED vars BY <1>1 DEF vars, TypeInv, TypeOK
  <1>2. ASSUME NEW w \in Workers, Work(w) PROVE TypeInv'
    BY <1>2, TypeSweep, TypeReadAcl, TypeCompareDiff, TypeFound, TypeSync DEF Work
  <1>3. QED BY <1>1, <1>2, TypeRequest, TypeFinish, TypePushes, TypeWorld DEF Next

\* In every reachable state each variable keeps to its type and nothing collected
\* for a commit outlives its transaction (EndTx on every return of the handlers).
THEOREM TypeCorrect == Spec => []TypeOK
  <1>1. TypeInv => TypeOK BY DEF TypeInv
  <1>2. QED BY <1>1, TypeInit, TypeStep, PTL DEF Spec

-----------------------------------------------------------------------------
(* No two configured credentials share a card number. Only a commit brings *)
(* in configured records, and it validates all of them together; what the  *)
(* workers and the retention do to the live records configures none.       *)

Agree(r, s) ==
    /\ r.state = s.state /\ r.found = s.found /\ r.number = s.number
    /\ r.groups = s.groups /\ r.period = s.period

\* A step of the cards that is not a commit.
LEMMA NothingConfigured ==
    ASSUME TypeInv,
           \/ \E w \in Workers : Sweep(w) \/ FoundApply(w) \/ MarkIncorrect(w)
           \/ \E o \in OIDs : ExpireCard(o),
           NEW q \in OIDs, Configured(cards', q)
    PROVE Configured(cards, q) /\ Agree(cards'[q], cards[q])
  <1> USE DEF Configured, Live, Agree, TypeInv, TypeOK
  <1>1. ASSUME NEW w \in Workers, Sweep(w)
        PROVE Configured(cards, q) /\ Agree(cards'[q], cards[q])
    BY <1>1 DEF Sweep, NoCard
  <1>2. ASSUME NEW w \in Workers, FoundApply(w)
        PROVE Configured(cards, q) /\ Agree(cards'[q], cards[q])
    <2>1. \/ cards'[q] = NoCard
          \/ cards'[q] = cards[q]
          \/ \E k : cards'[q] = [NoCard EXCEPT !.state = "live", !.found = TRUE, !.number = k]
      BY <1>2 DEF FoundApply
    <2>2. ~\E k : cards'[q] = [NoCard EXCEPT !.state = "live", !.found = TRUE, !.number = k]
      BY DEF NoCard
    <2>3. cards'[q] # NoCard BY DEF NoCard
    <2>4. QED BY <2>1, <2>2, <2>3
  <1>3. ASSUME NEW w \in Workers, MarkIncorrect(w)
        PROVE Configured(cards, q) /\ Agree(cards'[q], cards[q])
    <2>1. cards[q] \in Record BY DEF Cards
    <2>2. cards'[q] = cards[q] \/ cards'[q] = Marked(cards[q], worker[w].marks)
      BY <1>3 DEF MarkIncorrect
    <2>3. QED BY <2>1, <2>2 DEF Marked, Record
  <1>4. ASSUME NEW o \in OIDs, ExpireCard(o)
        PROVE Configured(cards, q) /\ Agree(cards'[q], cards[q])
    <2>1. cards[q] \in Record BY DEF Cards
    <2>2. cards'[q] = cards[q] \/ cards'[q] = Expired(cards[q])
      BY <1>4 DEF ExpireCard, Cards
    <2>3. QED BY <2>1, <2>2 DEF Expired, Record
  <1>5. QED BY <1>1, <1>2, <1>3, <1>4

\* The steps that leave sys.cards alone.
LEMMA CardsUnchanged ==
    ASSUME [Next]_vars
    PROVE \/ CommitCards
          \/ \E w \in Workers : Sweep(w) \/ FoundApply(w) \/ MarkIncorrect(w)
          \/ \E o \in OIDs : ExpireCard(o)
          \/ cards' = cards
  <1>1. CASE Request
    BY <1>1 DEF Request, BeginCards, BeginGroups, AddCard, RemoveCard, SetCard, AddLevel, RemoveLevel, SetLevel
  <1>2. CASE Finish BY <1>2 DEF Finish, CommitGroups, Refuse
  <1>3. CASE Lookups \/ Writes BY <1>3 DEF Lookups, Writes, PushLookup, PushWrite, PushFail
  <1>4. ASSUME NEW w \in Workers, Work(w),
               ~(Sweep(w) \/ FoundApply(w) \/ MarkIncorrect(w))
        PROVE cards' = cards
    BY <1>4 DEF Work, ReadAcl, ReadRows, NoRows, CompareDiff, FoundScan,
                SyncCheck, SyncProfiles, SyncDiff, SyncNext, SyncSend, SyncDone
  <1>5. CASE Expiry BY <1>5 DEF Expiry, ExpireLevel
  <1>6. ASSUME NEW c \in Controllers, NEW n \in Numbers, NEW e, ForeignWrite(c, n, e) PROVE cards' = cards
    BY <1>6 DEF ForeignWrite
  <1>7. CASE UNCHANGED vars BY <1>7 DEF vars
  <1>8. QED BY <1>1, <1>2, <1>3, <1>4, <1>5, <1>6, <1>7 DEF Next

LEMMA UniqueStep == TypeInv /\ UniqueConfigured /\ [Next]_vars => UniqueConfigured'
  <1> SUFFICES ASSUME TypeInv, UniqueConfigured, [Next]_vars PROVE UniqueConfigured' OBVIOUS
  <1>1. CASE CommitCards
    BY <1>1 DEF CommitCards, Valid, UniqueConfigured, Configured, Live
  <1>2. CASE cards' = cards BY <1>2 DEF UniqueConfigured, Configured, Live
  <1>3. CASE \/ \E w \in Workers : Sweep(w) \/ FoundApply(w) \/ MarkIncorrect(w)
             \/ \E o \in OIDs : ExpireCard(o)
    <2>1. ASSUME NEW q \in OIDs, Configured(cards', q)
          PROVE Configured(cards, q) /\ cards'[q].number = cards[q].number
      BY <1>3, <2>1, NothingConfigured DEF Agree
    <2>2. QED BY <2>1 DEF UniqueConfigured, Configured, Live
  <1>4. QED BY <1>1, <1>2, <1>3, CardsUnchanged

\* Whatever the interleaving of edits, sweeps and discoveries, a card number
\* belongs to at most one configured credential (Cards.Validate under sys.Lock,
\* Cards.Found and Cards.Sweep outside it).
THEOREM NumbersStayUnique == Spec => []UniqueConfigured
  <1>1. Init => UniqueConfigured
    BY LoadedAssumption DEF Init, UniqueConfigured, Configured, Live, Valid
  <1>2. QED BY <1>1, TypeInit, TypeStep, UniqueStep, PTL DEF Spec

-----------------------------------------------------------------------------
(* A commit pushes what it changes. The invariant relates the clone of an  *)
(* edit to the live records, which the workers go on changing: they differ *)
(* only in what the edit collected for a push.                             *)

\* The configured records of a card number that was not collected.
CloneAgrees ==
    tx = "cards" =>
        /\ \A o \in OIDs :
            Configured(shadow, o) /\ shadow[o].number \in Numbers \ updated =>
                Configured(cards, o) /\ Agree(shadow[o], cards[o])
        /\ \A o \in OIDs :
            Configured(cards, o) /\ cards[o].number \in Numbers \ updated =>
                Configured(shadow, o) /\ Agree(shadow[o], cards[o])

\* Found cannot be about to remove a configured record during an edit: the edit
\* could not have cloned the records between the two halves of Found.
RemovalsUnconfigured ==
    tx = "cards" =>
        \A w \in Workers : At(w, "apply") =>
            \A o \in worker[w].remove : ~Configured(cards, o)

\* A level without a record has nothing to grant, in the clone or elsewhere.
AbsentLevelsEmpty ==
    \A g \in Levels :
        /\ catalog[g] = "none" => groups[g] = NoLevel /\ draft[g] = NoLevel
        /\ groups[g].state = "none" => groups[g] = NoLevel

\* Only a touched level opens other doors in the clone; a level that the clone
\* lacks is missing from the live levels as well.
DraftAgrees ==
    tx = "groups" =>
        \A g \in Levels :
            /\ g \notin touched => draft[g].doors = groups[g].doors /\ draft[g].timed = groups[g].timed
            /\ draft[g].state \in {"none", "swept"} => groups[g].state = draft[g].state
            /\ draft[g].state = "none" => draft[g] = NoLevel

PushInv == CloneAgrees /\ RemovalsUnconfigured /\ AbsentLevelsEmpty /\ DraftAgrees

\* The converse of NothingConfigured.
LEMMA ConfiguredKept ==
    ASSUME TypeInv, CloneAgrees, RemovalsUnconfigured, tx = "cards",
           \/ \E w \in Workers : Sweep(w) \/ FoundApply(w) \/ MarkIncorrect(w)
           \/ \E o \in OIDs : ExpireCard(o),
           NEW q \in OIDs, Configured(cards, q)
    PROVE Configured(cards', q) /\ Agree(cards'[q], cards[q])
  <1> USE DEF Configured, Live, Agree, TypeInv, TypeOK
  <1>1. ASSUME NEW w \in Workers, Sweep(w)
        PROVE Configured(cards', q) /\ Agree(cards'[q], cards[q])
    BY <1>1 DEF Sweep
  <1>2. ASSUME NEW w \in Workers, FoundApply(w)
        PROVE Configured(cards', q) /\ Agree(cards'[q], cards[q])
    <2>1. q \notin worker[w].remove BY <1>2 DEF FoundApply, RemovalsUnconfigured
    <2>2. q \notin Room BY DEF Room, Unused
    <2>3. PICK new \in SUBSET worker[w].add : \E at \in [new -> Room] :
              cards'[q] = IF q \in worker[w].remove THEN NoCard
                          ELSE IF \E n \in new : at[n] = q
                          THEN [NoCard EXCEPT !.state = "live", !.found = TRUE,
                                              !.number = CHOOSE n \in new : at[n] = q]
                          ELSE cards[q]
      BY <1>2 DEF FoundApply
    <2>4. cards'[q] = cards[q] BY <2>1, <2>2, <2>3
    <2>5. QED BY <2>4
  <1>3. ASSUME NEW w \in Workers, MarkIncorrect(w)
        PROVE Configured(cards', q) /\ Agree(cards'[q], cards[q])
    <2>1. cards[q] \in Record BY DEF Cards
    <2>2. cards'[q] = Marked(cards[q], worker[w].marks) BY <1>3 DEF MarkIncorrect
    <2>3. QED BY <2>1, <2>2 DEF Marked, Record
  <1>4. ASSUME NEW o \in OIDs, ExpireCard(o)
        PROVE Configured(cards', q) /\ Agree(cards'[q], cards[q])
    <2>1. cards'[q] = cards[q] BY <1>4 DEF ExpireCard, Cards
    <2>2. QED BY <2>1
  <1>5. QED BY <1>1, <1>2, <1>3, <1>4

\* Only FoundScan takes a worker to the second half of Found.
LEMMA ApplyFollowsScan ==
    ASSUME TypeInv, [Next]_vars, NEW v \in Workers, worker'[v].pc = "apply"
    PROVE FoundScan(v) \/ worker'[v] = worker[v]
  <1> USE DEF TypeInv, TypeOK
  <1>1. CASE Request
    BY <1>1 DEF Request, BeginCards, BeginGroups, AddCard, RemoveCard, SetCard, AddLevel, RemoveLevel, SetLevel
  <1>2. CASE Finish BY <1>2 DEF Finish, CommitCards, CommitGroups, Refuse
  <1>3. CASE Lookups \/ Writes BY <1>3 DEF Lookups, Writes, PushLookup, PushWrite, PushFail
  <1>4. ASSUME NEW w \in Workers, Work(w), ~FoundScan(w)
        PROVE worker'[v] = worker[v]
    <2> USE DEF Become
    <2>0. worker[w] \in WorkerState /\ Resting \in WorkerState /\ Cleared(w) \in WorkerState
      BY RestingType DEF Cleared, WorkerState
    <2>1. ASSUME Rest(w) \/ AfterCompare(w) PROVE worker'[w].pc # "apply"
      BY <2>1, <2>0 DEF Rest, AfterCompare, Resting
    <2>2. ASSUME Sweep(w) PROVE worker'[w].pc # "apply"
      BY <2>0, <2>2 DEF Sweep, Go, WorkerState
    <2>3. ASSUME ReadAcl(w) PROVE worker'[w].pc # "apply"
      <3>1. ASSUME NEW from, NEW to \in {"diff", "checkDiff", "syncDiff"}, ReadRows(w, from, to)
            PROVE worker'[w].pc # "apply"
        BY <2>0, <3>1 DEF ReadRows, WorkerState
      <3>2. ASSUME NEW from, NoRows(w, from) PROVE worker'[w].pc # "apply"
        BY <2>1, <3>2 DEF NoRows
      <3>3. QED BY <2>3, <3>1, <3>2 DEF ReadAcl
    <2>4. ASSUME CompareDiff(w) PROVE worker'[w].pc # "apply"
      BY <2>0, <2>4 DEF CompareDiff, WorkerState
    <2>5. ASSUME FoundApply(w) PROVE worker'[w].pc # "apply"
      BY <2>0, <2>5 DEF FoundApply, WorkerState
    <2>6. ASSUME MarkIncorrect(w) PROVE worker'[w].pc # "apply"
      BY <2>1, <2>6 DEF MarkIncorrect
    <2>7. ASSUME SyncCheck(w) \/ SyncProfiles(w) \/ SyncDone(w) PROVE worker'[w].pc # "apply"
      <3>1. CASE SyncCheck(w) BY <2>0, <2>1, <3>1 DEF SyncCheck, WorkerState
      <3>2. CASE SyncProfiles(w) BY <2>0, <2>1, <3>2 DEF SyncProfiles, Go, WorkerState
      <3>3. CASE SyncDone(w)
        <4>1. [Resting EXCEPT !.pc = "read", !.last = TRUE].pc = "read" BY <2>0 DEF WorkerState
        <4>2. QED BY <2>1, <3>3, <4>1 DEF SyncDone
      <3>4. QED BY <2>7, <3>1, <3>2, <3>3
    <2>8. ASSUME SyncDiff(w) PROVE worker'[w].pc # "apply"
      BY <2>0, <2>8 DEF SyncDiff, WorkerState
    <2>9. ASSUME SyncNext(w) PROVE worker'[w].pc # "apply"
      <3>1. worker[w].pc = "syncNext" BY <2>9 DEF SyncNext, At
      <3>2. PICK x \in worker[w].todo :
                LET rest == [worker[w] EXCEPT !.todo = @ \ {x}]
                IN \/ \E writing : Become(w, [rest EXCEPT !.pc = "syncSend", !.writing = writing])
                   \/ Become(w, [rest EXCEPT !.failed = TRUE])
        BY <2>9 DEF SyncNext
      <3> DEFINE rest == [worker[w] EXCEPT !.todo = @ \ {x}]
      <3>3. rest \in WorkerState /\ rest.pc = "syncNext" BY <2>0, <3>1 DEF WorkerState
      <3> HIDE DEF rest
      <3>4. [rest EXCEPT !.failed = TRUE].pc = "syncNext" BY <3>3 DEF WorkerState
      <3>5. ASSUME NEW writing PROVE [rest EXCEPT !.pc = "syncSend", !.writing = writing].pc = "syncSend"
        BY <3>3 DEF WorkerState
      <3>6. QED BY <3>2, <3>4, <3>5 DEF rest
    <2>10. ASSUME SyncSend(w) PROVE worker'[w].pc # "apply"
      <3>1. /\ [worker[w] EXCEPT !.pc = "syncNext", !.writing = {}].pc = "syncNext"
            /\ [worker[w] EXCEPT !.pc = "syncNext", !.writing = {}, !.failed = TRUE].pc = "syncNext"
        BY <2>0 DEF WorkerState
      <3>2. QED BY <2>10, <3>1 DEF SyncSend
    <2>11. v # w
      BY <1>4, <2>2, <2>3, <2>4, <2>5, <2>6, <2>7, <2>8, <2>9, <2>10 DEF Work
    <2>12. \E state : Become(w, state)
      BY <1>4 DEF Work, Sweep, ReadAcl, ReadRows, NoRows, CompareDiff, FoundApply, MarkIncorrect,
                  SyncCheck, SyncProfiles, SyncDiff, SyncNext, SyncSend, SyncDone, Go, Rest, AfterCompare
    <2>13. QED BY <2>11, <2>12
  <1>5. ASSUME NEW w \in Workers, FoundScan(w), v # w PROVE worker'[v] = worker[v]
    BY <1>5 DEF FoundScan, Become
  <1>6. CASE Expiry BY <1>6 DEF Expiry, ExpireCard, ExpireLevel
  <1>7. ASSUME NEW c \in Controllers, NEW n \in Numbers, NEW e, ForeignWrite(c, n, e)
        PROVE worker'[v] = worker[v]
    BY <1>7 DEF ForeignWrite
  <1>8. CASE UNCHANGED vars BY <1>8 DEF vars
  <1>9. QED BY <1>1, <1>2, <1>3, <1>4, <1>5, <1>6, <1>7, <1>8 DEF Next

LEMMA PushInit == Init => PushInv
  <1> SUFFICES ASSUME Init PROVE PushInv OBVIOUS
  <1>1. ASSUME NEW g \in Levels PROVE groups[g].state = "live" \/ groups[g] = NoLevel
    BY LoadedAssumption DEF Init
  <1>2. AbsentLevelsEmpty
    BY <1>1 DEF Init, AbsentLevelsEmpty, NoLevels, NoLevel
  <1>3. QED BY <1>2 DEF Init, PushInv, CloneAgrees, RemovalsUnconfigured, DraftAgrees

LEMMA PushRequest == TypeInv /\ PushInv /\ Request => PushInv'
  <1> SUFFICES ASSUME TypeInv, PushInv, Request PROVE PushInv' OBVIOUS
  <1> USE DEF TypeInv, TypeOK
  <1>1. CASE BeginCards
    <2>1. CloneAgrees' BY <1>1 DEF BeginCards, CloneAgrees, Agree, Configured, Live
    <2>2. RemovalsUnconfigured'
      BY <1>1 DEF BeginCards, GuardFree, RemovalsUnconfigured, At
    <2>3. AbsentLevelsEmpty' /\ DraftAgrees'
      BY <1>1 DEF BeginCards, PushInv, AbsentLevelsEmpty, DraftAgrees
    <2>4. QED BY <2>1, <2>2, <2>3 DEF PushInv
  <1>2. CASE BeginGroups
    <2>1. CloneAgrees' /\ RemovalsUnconfigured'
      BY <1>2 DEF BeginGroups, CloneAgrees, RemovalsUnconfigured
    <2>2. AbsentLevelsEmpty' /\ DraftAgrees'
      BY <1>2 DEF BeginGroups, PushInv, AbsentLevelsEmpty, DraftAgrees
    <2>3. QED BY <2>1, <2>2 DEF PushInv
  <1>3. ASSUME NEW o \in OIDs, NEW r, tx = "cards", shadow' = [shadow EXCEPT ![o] = r],
               \/ ~(r.state = "live" /\ ~r.found) \/ r.number \notin Numbers \ updated',
               \/ ~Configured(cards, o) \/ ~Configured(shadow, o)
                 \/ shadow[o].number \in updated',
               updated \subseteq updated',
               UNCHANGED <<cards, groups, catalog, tx, draft, touched, worker>>
        PROVE PushInv'
    <2>1. ASSUME NEW q \in OIDs, q # o PROVE shadow'[q] = shadow[q]
      BY <1>3, <2>1 DEF Cards
    <2>2. shadow'[o] = r BY <1>3 DEF Cards
    <2>3. ASSUME NEW q \in OIDs, Configured(shadow', q), shadow'[q].number \in Numbers \ updated'
          PROVE Configured(cards', q) /\ Agree(shadow'[q], cards'[q])
      <3>1. q # o BY <1>3, <2>2, <2>3 DEF Configured, Live
      <3>2. QED BY <1>3, <2>1, <2>3, <3>1 DEF PushInv, CloneAgrees, Configured, Live
    <2>4. ASSUME NEW q \in OIDs, Configured(cards', q), cards'[q].number \in Numbers \ updated'
          PROVE Configured(shadow', q) /\ Agree(shadow'[q], cards'[q])
      <3>1. Configured(shadow, q) /\ Agree(shadow[q], cards[q]) /\ Configured(cards, q)
        BY <1>3, <2>4 DEF PushInv, CloneAgrees, Configured, Live
      <3>2. q # o BY <1>3, <2>4, <3>1 DEF Agree
      <3>3. QED BY <1>3, <2>1, <3>1, <3>2 DEF Configured, Live
    <2>5. CloneAgrees' BY <2>3, <2>4 DEF CloneAgrees
    <2>6. RemovalsUnconfigured'
      BY <1>3 DEF PushInv, RemovalsUnconfigured, At, Configured, Live
    <2>7. AbsentLevelsEmpty' /\ DraftAgrees'
      BY <1>3 DEF PushInv, AbsentLevelsEmpty, DraftAgrees
    <2>8. QED BY <2>5, <2>6, <2>7 DEF PushInv
  <1>4. ASSUME NEW o \in OIDs, AddCard(o) PROVE PushInv'
    <2> DEFINE r == [NoCard EXCEPT !.state = "live"]
    <2>1. r.number \notin Numbers BY NumbersAssumption DEF NoCard
    <2>2. ~Configured(cards, o) BY <1>4 DEF AddCard, Unused, Configured, Live
    <2>3. shadow' = [shadow EXCEPT ![o] = r] BY <1>4 DEF AddCard
    <2> HIDE DEF r
    <2>4. QED BY <1>3, <1>4, <2>1, <2>2, <2>3 DEF AddCard
  <1>5. ASSUME NEW o \in OIDs, RemoveCard(o) PROVE PushInv'
    <2> DEFINE r == [shadow[o] EXCEPT !.state = "deleted"]
    <2>1. shadow[o] \in Record BY DEF Cards
    <2>2. r.state = "deleted" BY <2>1 DEF Record
    <2>3. shadow[o].number \in updated' /\ updated \subseteq updated'
      BY <1>5 DEF RemoveCard, Collected
    <2>4. shadow' = [shadow EXCEPT ![o] = r] BY <1>5 DEF RemoveCard
    <2> HIDE DEF r
    <2>5. QED BY <1>3, <1>5, <2>2, <2>3, <2>4 DEF RemoveCard
  <1>6. ASSUME NEW o \in OIDs, NEW n \in Numbers \cup {0}, NEW gs \in Memberships, NEW p \in Periods,
               SetCard(o, n, gs, p)
        PROVE PushInv'
    <2> DEFINE r == [shadow[o] EXCEPT !.number = n, !.groups = gs, !.period = p,
                                      !.found = FALSE, !.incorrect = FALSE]
    <2>1. shadow[o] \in Record BY DEF Cards
    <2>2. r.number = n BY <2>1 DEF Record
    <2>3. {n, shadow[o].number} \subseteq updated' /\ updated \subseteq updated'
      BY <1>6 DEF SetCard, Collected
    <2>4. shadow' = [shadow EXCEPT ![o] = r] BY <1>6 DEF SetCard
    <2> HIDE DEF r
    <2>5. QED BY <1>3, <1>6, <2>2, <2>3, <2>4 DEF SetCard
  <1>7. ASSUME NEW g \in Levels, AddLevel(g) PROVE PushInv'
    <2>1. CloneAgrees' /\ RemovalsUnconfigured'
      BY <1>7 DEF AddLevel, CloneAgrees, RemovalsUnconfigured
    <2>2. AbsentLevelsEmpty' BY <1>7 DEF AddLevel, PushInv, AbsentLevelsEmpty, LevelMap
    <2>3. draft[g] = NoLevel /\ groups[g] = NoLevel
      BY <1>7 DEF AddLevel, PushInv, AbsentLevelsEmpty
    <2>4. /\ draft'[g].doors = {} /\ draft'[g].timed = FALSE /\ draft'[g].state = "live"
          /\ groups[g].doors = {} /\ groups[g].timed = FALSE
      BY <1>7, <2>3 DEF AddLevel, LevelMap, NoLevel
    <2>5. ASSUME NEW h \in Levels, h # g PROVE draft'[h] = draft[h]
      BY <1>7, <2>5 DEF AddLevel, LevelMap
    <2>6. DraftAgrees' BY <1>7, <2>4, <2>5 DEF AddLevel, PushInv, DraftAgrees
    <2>7. QED BY <2>1, <2>2, <2>6 DEF PushInv
  <1>8. ASSUME NEW g \in Levels, tx = "groups", draft[g].state = "live",
               NEW v \in Level, draft' = [draft EXCEPT ![g] = v], v.state \in {"live", "deleted"},
               (v.doors = draft[g].doors /\ v.timed = draft[g].timed) \/ g \in touched',
               touched \subseteq touched', catalog'[g] # "none",
               \A h \in Levels : h # g => catalog'[h] = catalog[h],
               UNCHANGED <<cards, groups, tx, shadow, updated, worker>>
        PROVE PushInv'
    <2>1. CloneAgrees' /\ RemovalsUnconfigured'
      BY <1>8 DEF CloneAgrees, RemovalsUnconfigured
    <2>2. draft'[g] = v BY <1>8 DEF LevelMap
    <2>3. ASSUME NEW h \in Levels, h # g PROVE draft'[h] = draft[h]
      BY <1>8, <2>3 DEF LevelMap
    <2>4. AbsentLevelsEmpty' BY <1>8, <2>3 DEF PushInv, AbsentLevelsEmpty
    <2>5. DraftAgrees' BY <1>8, <2>2, <2>3 DEF PushInv, DraftAgrees
    <2>6. QED BY <2>1, <2>4, <2>5 DEF PushInv
  <1>9. ASSUME NEW g \in Levels, RemoveLevel(g) PROVE PushInv'
    <2> DEFINE v == [draft[g] EXCEPT !.state = "deleted"]
    <2>1. draft[g] \in Level BY DEF LevelMap
    <2>2. v \in Level /\ v.state = "deleted" /\ v.doors = draft[g].doors /\ v.timed = draft[g].timed
      BY <2>1 DEF Level
    <2>3. draft' = [draft EXCEPT ![g] = v] BY <1>9 DEF RemoveLevel
    <2> HIDE DEF v
    <2>4. catalog'[g] # "none" /\ \A h \in Levels : h # g => catalog'[h] = catalog[h]
      BY <1>9 DEF RemoveLevel
    <2>5. QED BY <1>8, <1>9, <2>2, <2>3, <2>4 DEF RemoveLevel
  <1>10. ASSUME NEW g \in Levels, NEW ds \in LevelDoorSets, NEW timed \in Schedules, SetLevel(g, ds, timed)
         PROVE PushInv'
    <2> DEFINE v == [draft[g] EXCEPT !.doors = ds, !.timed = timed]
    <2>1. draft[g] \in Level /\ draft[g].state = "live" BY <1>10 DEF LevelMap, SetLevel
    <2>2. ds \subseteq Doors /\ timed \in BOOLEAN BY InputsAssumption
    <2>3. v \in Level /\ v.state = "live" BY <2>1, <2>2 DEF Level
    <2>4. draft' = [draft EXCEPT ![g] = v] BY <1>10 DEF SetLevel
    <2> HIDE DEF v
    <2>5. catalog[g] # "none"
      BY <2>1 DEF PushInv, AbsentLevelsEmpty, NoLevel
    <2>6. QED BY <1>8, <1>10, <2>1, <2>3, <2>4, <2>5 DEF SetLevel
  <1>11. QED BY <1>1, <1>2, <1>4, <1>5, <1>6, <1>7, <1>9, <1>10 DEF Request

LEMMA PushFinish == TypeInv /\ PushInv /\ Finish => PushInv'
  <1> SUFFICES ASSUME TypeInv, PushInv, Finish PROVE PushInv' OBVIOUS
  <1>1. tx' = "none" /\ draft' = NoLevels /\ (groups' = draft \/ groups' = groups) /\ catalog' = catalog
    BY DEF Finish, CommitCards, CommitGroups, Refuse, EndTx
  <1>2. CloneAgrees' /\ RemovalsUnconfigured' /\ DraftAgrees'
    BY <1>1 DEF CloneAgrees, RemovalsUnconfigured, DraftAgrees
  <1>3. ASSUME NEW g \in Levels PROVE draft'[g] = NoLevel BY <1>1 DEF NoLevels
  <1>4. CASE groups' = groups BY <1>1, <1>3, <1>4, <1>2 DEF PushInv, AbsentLevelsEmpty
  <1>5. CASE CommitGroups
    <2>1. tx = "groups" /\ groups' = draft BY <1>5 DEF CommitGroups
    <2>2. QED BY <1>1, <1>2, <1>3, <2>1 DEF PushInv, AbsentLevelsEmpty, DraftAgrees
  <1>6. QED BY <1>4, <1>5 DEF Finish, CommitCards, Refuse

\* The steps of everyone else.
LEMMA PushOthers ==
    ASSUME TypeInv, PushInv, [Next]_vars, ~Request, ~Finish PROVE PushInv'
  <1> USE DEF TypeInv, TypeOK
  <1>1. UNCHANGED <<tx, updated, touched, catalog>>
    <2>1. UNCHANGED vars \/ Lookups \/ Writes => UNCHANGED <<tx, updated, touched, catalog>>
      BY DEF vars, Lookups, Writes, PushLookup, PushWrite, PushFail, txVars
    <2>2. ASSUME NEW w \in Workers, Work(w) PROVE UNCHANGED <<tx, updated, touched, catalog>>
      BY <2>2 DEF Work, Sweep, ReadAcl, ReadRows, NoRows, CompareDiff, FoundScan, FoundApply, MarkIncorrect,
                  SyncCheck, SyncProfiles, SyncDiff, SyncNext, SyncSend, SyncDone, txVars
    <2>3. Expiry => UNCHANGED <<tx, updated, touched, catalog>>
      BY DEF Expiry, ExpireCard, ExpireLevel
    <2>4. ASSUME NEW c \in Controllers, NEW n \in Numbers, NEW e, ForeignWrite(c, n, e)
          PROVE UNCHANGED <<tx, updated, touched, catalog>>
      BY <2>4 DEF ForeignWrite, txVars
    <2> QED BY <2>1, <2>2, <2>3, <2>4 DEF Next
  <1>2. ASSUME NEW q \in OIDs
        PROVE \/ shadow'[q] = shadow[q]
              \/ shadow[q].state = "deleted" /\ shadow'[q].state # "live"
    <2>1. CASE Lookups \/ Writes
      BY <2>1 DEF Lookups, Writes, PushLookup, PushWrite, PushFail, txVars
    <2>2. ASSUME NEW w \in Workers, Work(w) PROVE shadow' = shadow
      BY <2>2 DEF Work, Sweep, ReadAcl, ReadRows, NoRows, CompareDiff, FoundScan, FoundApply, MarkIncorrect,
                  SyncCheck, SyncProfiles, SyncDiff, SyncNext, SyncSend, SyncDone, txVars
    <2>3. ASSUME NEW o \in OIDs, ExpireCard(o)
          PROVE \/ shadow'[q] = shadow[q]
                \/ shadow[q].state = "deleted" /\ shadow'[q].state # "live"
      <3>1. shadow'[q] = shadow[q] \/ shadow'[q] = Expired(shadow[q])
        BY <2>3 DEF ExpireCard, Cards
      <3>2. shadow[q] \in Record BY DEF Cards
      <3>3. QED BY <3>1, <3>2 DEF Expired, Record
    <2>4. ASSUME NEW g \in Levels, ExpireLevel(g) PROVE shadow' = shadow BY <2>4 DEF ExpireLevel
    <2>5. ASSUME NEW c \in Controllers, NEW n \in Numbers, NEW e, ForeignWrite(c, n, e) PROVE shadow' = shadow
      BY <2>5 DEF ForeignWrite, txVars
    <2>6. CASE UNCHANGED vars BY <2>6 DEF vars
    <2>7. QED BY <2>1, <2>2, <2>3, <2>4, <2>5, <2>6 DEF Next, Expiry
  <1>3. ASSUME NEW q \in OIDs, Configured(shadow', q) PROVE shadow'[q] = shadow[q]
    BY <1>2, <1>3 DEF Configured, Live
  <1>4. ASSUME NEW q \in OIDs, Configured(shadow, q) PROVE shadow'[q] = shadow[q]
    BY <1>2, <1>4 DEF Configured, Live
  <1>5. \/ cards' = cards
        \/ \E w \in Workers : Sweep(w) \/ FoundApply(w) \/ MarkIncorrect(w)
        \/ \E o \in OIDs : ExpireCard(o)
    BY CardsUnchanged DEF Finish
  <1>6. ASSUME NEW q \in OIDs, Configured(cards', q)
        PROVE Configured(cards, q) /\ Agree(cards'[q], cards[q])
    BY <1>5, <1>6, NothingConfigured DEF Agree, Configured, Live
  <1>7. ASSUME tx = "cards", NEW q \in OIDs, Configured(cards, q)
        PROVE Configured(cards', q) /\ Agree(cards'[q], cards[q])
    BY <1>5, <1>7, ConfiguredKept DEF PushInv, Agree, Configured, Live
  <1>8. CloneAgrees'
    <2> SUFFICES ASSUME tx = "cards" PROVE CloneAgrees' BY <1>1 DEF CloneAgrees
    <2>1. ASSUME NEW q \in OIDs, Configured(shadow', q), shadow'[q].number \in Numbers \ updated'
          PROVE Configured(cards', q) /\ Agree(shadow'[q], cards'[q])
      <3>1. shadow'[q] = shadow[q] /\ Configured(shadow, q) BY <2>1, <1>3 DEF Configured, Live
      <3>2. Configured(cards, q) /\ Agree(shadow[q], cards[q])
        BY <1>1, <2>1, <3>1 DEF PushInv, CloneAgrees
      <3>3. Configured(cards', q) /\ Agree(cards'[q], cards[q]) BY <1>7, <3>2
      <3>4. QED BY <3>1, <3>2, <3>3 DEF Agree
    <2>2. ASSUME NEW q \in OIDs, Configured(cards', q), cards'[q].number \in Numbers \ updated'
          PROVE Configured(shadow', q) /\ Agree(shadow'[q], cards'[q])
      <3>1. Configured(cards, q) /\ Agree(cards'[q], cards[q]) BY <1>6, <2>2
      <3>2. Configured(shadow, q) /\ Agree(shadow[q], cards[q])
        BY <1>1, <2>2, <3>1 DEF PushInv, CloneAgrees, Agree
      <3>3. shadow'[q] = shadow[q] BY <1>4, <3>2
      <3>4. QED BY <3>1, <3>2, <3>3 DEF Agree, Configured, Live
    <2>3. QED BY <2>1, <2>2 DEF CloneAgrees
  <1>9. RemovalsUnconfigured'
    <2> SUFFICES ASSUME tx = "cards", NEW v \in Workers, worker'[v].pc = "apply",
                        NEW q \in worker'[v].remove, Configured(cards', q)
                 PROVE FALSE
      BY <1>1 DEF RemovalsUnconfigured, At
    <2>1. CASE FoundScan(v)
      <3>1. PICK R \in Removals(worker[v].found) :
                Become(v, [worker[v] EXCEPT !.pc = "apply", !.remove = R,
                               !.add = {n \in worker[v].found : LiveIn(Matches(cards, n)) = {}}])
        BY <2>1 DEF FoundScan
      <3>2. worker[v] \in WorkerState OBVIOUS
      <3>3. worker'[v].remove = R BY <3>1, <3>2 DEF Become, WorkerState
      <3>4. cards[q].found BY <3>3 DEF Removals, FoundIn
      <3>5. cards' = cards BY <2>1 DEF FoundScan
      <3>6. QED BY <3>4, <3>5 DEF Configured
    <2>2. CASE worker'[v] = worker[v]
      <3>1. q \in OIDs BY <2>2 DEF WorkerState
      <3>2. Configured(cards, q) BY <1>6, <3>1
      <3>3. QED BY <2>2, <3>2 DEF PushInv, RemovalsUnconfigured, At
    <2>3. QED BY <2>1, <2>2, ApplyFollowsScan
  <1>10. \/ groups' = groups /\ draft' = draft
         \/ \E w \in Workers : Sweep(w) /\ draft' = draft
         \/ \E g \in Levels : ExpireLevel(g)
    <2>1. UNCHANGED vars \/ Lookups \/ Writes => UNCHANGED <<groups, draft>>
      BY DEF vars, Lookups, Writes, PushLookup, PushWrite, PushFail, txVars
    <2>2. ASSUME NEW w \in Workers, Work(w)
          PROVE (groups' = groups \/ Sweep(w)) /\ draft' = draft
      BY <2>2 DEF Work, Sweep, ReadAcl, ReadRows, NoRows, CompareDiff, FoundScan, FoundApply, MarkIncorrect,
                  SyncCheck, SyncProfiles, SyncDiff, SyncNext, SyncSend, SyncDone, txVars
    <2>3. (\E o \in OIDs : ExpireCard(o)) => UNCHANGED <<groups, draft>>
      BY DEF ExpireCard
    <2>4. ASSUME NEW c \in Controllers, NEW n \in Numbers, NEW e, ForeignWrite(c, n, e)
          PROVE UNCHANGED <<groups, draft>>
      BY <2>4 DEF ForeignWrite, txVars
    <2> QED BY <2>1, <2>2, <2>3, <2>4 DEF Next, Expiry
  <1>11. ASSUME NEW g \in Levels
         PROVE /\ groups'[g].doors = groups[g].doors /\ groups'[g].timed = groups[g].timed
               /\ draft'[g].doors = draft[g].doors /\ draft'[g].timed = draft[g].timed
               /\ \/ groups'[g] = groups[g]
                  \/ /\ groups[g].state \in {"deleted", "expired"}
                     /\ groups'[g].state \in {"expired", "swept"}
               /\ \/ draft'[g] = draft[g]
                  \/ draft[g].state = "deleted" /\ draft'[g].state = "expired"
    <2>1. groups[g] \in Level /\ draft[g] \in Level BY DEF LevelMap
    <2>2. ASSUME NEW w \in Workers, Sweep(w), draft' = draft
          PROVE \/ groups'[g] = groups[g]
                \/ groups[g].state = "expired" /\ groups'[g] = [groups[g] EXCEPT !.state = "swept"]
      <3>1. groups'[g] = IF groups[g].state = "expired"
                         THEN [groups[g] EXCEPT !.state = "swept"] ELSE groups[g]
        BY <2>2 DEF Sweep
      <3>2. QED BY <3>1
    <2>3. ASSUME NEW h \in Levels, ExpireLevel(h)
          PROVE /\ groups'[g] = groups[g] \/ groups'[g] = Expired(groups[g])
                /\ draft'[g] = draft[g] \/ draft'[g] = Expired(draft[g])
      BY <2>3 DEF ExpireLevel, LevelMap
    <2>4. ASSUME NEW v \in Level
          PROVE /\ [v EXCEPT !.state = "swept"].doors = v.doors
                /\ [v EXCEPT !.state = "swept"].timed = v.timed
                /\ [v EXCEPT !.state = "swept"].state = "swept"
                /\ Expired(v).doors = v.doors /\ Expired(v).timed = v.timed
                /\ Expired(v) = v \/ (v.state = "deleted" /\ Expired(v).state = "expired")
      <3>1. ASSUME NEW x \in {"swept", "expired"}
            PROVE /\ [v EXCEPT !.state = x].doors = v.doors
                  /\ [v EXCEPT !.state = x].timed = v.timed
                  /\ [v EXCEPT !.state = x].state = x
        BY DEF Level
      <3>2. CASE v.state = "deleted" BY <3>1, <3>2 DEF Expired
      <3>3. CASE v.state # "deleted" BY <3>1, <3>3 DEF Expired
      <3>4. QED BY <3>2, <3>3
    <2>5. CASE groups' = groups /\ draft' = draft BY <2>5
    <2>6. CASE \E w \in Workers : Sweep(w) /\ draft' = draft
      <3>1. draft' = draft BY <2>6
      <3>2. \/ groups'[g] = groups[g]
            \/ groups[g].state = "expired" /\ groups'[g] = [groups[g] EXCEPT !.state = "swept"]
        BY <2>2, <2>6
      <3>3. CASE groups'[g] = groups[g] BY <3>1, <3>3
      <3>4. CASE groups[g].state = "expired" /\ groups'[g] = [groups[g] EXCEPT !.state = "swept"]
        <4> DEFINE v == [groups[g] EXCEPT !.state = "swept"]
        <4>1. v.doors = groups[g].doors /\ v.timed = groups[g].timed /\ v.state = "swept" BY <2>1, <2>4
        <4>2. groups'[g] = v BY <3>4
        <4> HIDE DEF v
        <4>3. QED BY <3>1, <3>4, <4>1, <4>2
      <3>5. QED BY <3>2, <3>3, <3>4
    <2>7. CASE \E h \in Levels : ExpireLevel(h) BY <2>1, <2>3, <2>4, <2>7
    <2>8. QED BY <1>10, <2>5, <2>6, <2>7
  <1>12. AbsentLevelsEmpty' BY <1>1, <1>11 DEF PushInv, AbsentLevelsEmpty, NoLevel
  <1>13. DraftAgrees' BY <1>1, <1>11 DEF PushInv, DraftAgrees
  <1>14. QED BY <1>8, <1>9, <1>12, <1>13 DEF PushInv

\* What a credential should hold depends on the agreeing fields only.
LEMMA AgreeingEntries ==
    ASSUME NEW gm, NEW r, NEW s, NEW c, Agree(r, s) PROVE EntryFor(gm, r, c) = EntryFor(gm, s, c)
  BY DEF Agree, EntryFor, Period

LEMMA CommitCardsPushes ==
    ASSUME TypeInv, PushInv, CommitCards, NEW c \in Controllers, NEW n \in Numbers,
           Intended(cards', groups', n, c) # Intended(cards, groups, n, c)
    PROVE [edit |-> edits, controller |-> c, number |-> n] \in queued'
  <1>1. cards' = shadow /\ groups' = groups /\ tx = "cards" BY DEF CommitCards
  <1>2. ASSUME n \notin updated PROVE FALSE
    <2>1. ConfiguredFor(shadow, n) = ConfiguredFor(cards, n)
      BY <1>1, <1>2 DEF ConfiguredFor, PushInv, CloneAgrees, Agree
    <2>2. CASE ConfiguredFor(cards, n) = {} BY <1>1, <2>1, <2>2 DEF Intended
    <2>3. CASE ConfiguredFor(cards, n) # {}
      <3> DEFINE o == CHOOSE o \in ConfiguredFor(cards, n) : TRUE
      <3>1. o \in ConfiguredFor(cards, n) BY <2>3
      <3>2. Agree(shadow[o], cards[o])
        BY <1>1, <1>2, <3>1 DEF ConfiguredFor, PushInv, CloneAgrees
      <3>3. EntryFor(groups, shadow[o], c) = EntryFor(groups, cards[o], c) BY <3>2, AgreeingEntries
      <3>4. QED BY <1>1, <2>1, <2>3, <3>3 DEF Intended
    <2>4. QED BY <2>2, <2>3
  <1>3. n # 0 BY NumbersAssumption
  <1>4. QED BY <1>2, <1>3 DEF CommitCards, Pushes

LEMMA CommitGroupsPushes ==
    ASSUME TypeInv, PushInv, CommitGroups, ~Restores, NEW c \in Controllers, NEW n \in Numbers,
           Intended(cards', groups', n, c) # Intended(cards, groups, n, c)
    PROVE [edit |-> edits, controller |-> c, number |-> n] \in queued'
  <1>1. cards' = cards /\ groups' = draft /\ tx = "groups" BY DEF CommitGroups
  <1> DEFINE o == CHOOSE o \in ConfiguredFor(cards, n) : TRUE
  <1>2. ConfiguredFor(cards, n) # {} BY <1>1 DEF Intended
  <1>3. o \in OIDs /\ cards[o].number = n BY <1>2 DEF ConfiguredFor
  <1>4. ASSUME cards[o].groups \cap touched = {} PROVE FALSE
    <2>1. ASSUME NEW g \in cards[o].groups, NEW d \in Doors
          PROVE /\ (LevelPresent(draft, g) /\ d \in LevelDoors(draft, g))
                      <=> (LevelPresent(groups, g) /\ d \in LevelDoors(groups, g))
                /\ LevelProfile(draft, g) = LevelProfile(groups, g)
      <3>1. CASE g \notin Levels BY <3>1 DEF LevelPresent, LevelDoors, LevelProfile
      <3>2. CASE g \in Levels
        <4>1. draft[g].doors = groups[g].doors /\ draft[g].timed = groups[g].timed
          BY <1>1, <1>4, <3>2 DEF PushInv, DraftAgrees
        <4>2. draft[g].state \in {"none", "swept"} => groups[g].state = draft[g].state
          BY <1>1, <3>2 DEF PushInv, DraftAgrees
        <4>3. groups[g].state = "swept" => draft[g].state = "swept"
          BY <1>1, <3>2 DEF Restores
        <4>4. groups[g].state = "none" => groups[g].doors = {}
          BY <3>2 DEF PushInv, AbsentLevelsEmpty, NoLevel
        <4>5. QED BY <3>2, <4>1, <4>2, <4>3, <4>4 DEF LevelPresent, LevelDoors, LevelProfile
      <3>3. QED BY <3>1, <3>2
    <2>2. ASSUME NEW d \in Doors
          PROVE Offered(draft, cards[o].groups, d) = Offered(groups, cards[o].groups, d)
      BY <2>1 DEF Offered
    <2>3. Access(draft, cards[o].groups, cards[o].number, c) = Access(groups, cards[o].groups, cards[o].number, c)
      <3>1. ASSUME NEW d \in Doors
            PROVE (CHOOSE p \in Offered(draft, cards[o].groups, d) : TRUE)
                    = (CHOOSE p \in Offered(groups, cards[o].groups, d) : TRUE)
        BY <2>2
      <3>2. QED BY <2>2, <3>1, Zenon DEF Access
    <2>4. EntryFor(draft, cards[o], c) = EntryFor(groups, cards[o], c) BY <2>3 DEF EntryFor
    <2>5. QED BY <1>1, <1>2, <2>4 DEF Intended
  <1>5. n \in Members(touched) BY <1>3, <1>4 DEF Members
  <1>6. n # 0 BY NumbersAssumption
  <1>7. QED BY <1>5, <1>6 DEF CommitGroups, Pushes

\* A commit that changes what a controller should hold for a card number starts a
\* push of it (dbc.Updated in Card.set, Card.delete and Group.set, system.Update),
\* although Found and Sweep change the live records while the edit works on its
\* clone.
THEOREM CommitsReachControllers == Spec => EditsReachControllers
  <1>1. TypeInv /\ PushInv /\ [Next]_vars => PushInv'
    BY PushRequest, PushFinish, PushOthers
  <1>2. TypeInv /\ PushInv => CommitsArePushed
    <2> SUFFICES ASSUME TypeInv, PushInv, Finish, ~Restores, NEW c \in Controllers, NEW n \in Numbers,
                        Intended(cards', groups', n, c) # Intended(cards, groups, n, c)
                 PROVE [edit |-> edits, controller |-> c, number |-> n] \in queued'
      BY DEF CommitsArePushed
    <2>1. CASE CommitCards BY <2>1, CommitCardsPushes
    <2>2. CASE CommitGroups BY <2>2, CommitGroupsPushes
    <2>3. CASE Refuse BY <2>3 DEF Refuse, Intended, ConfiguredFor, Configured, Live
    <2>4. QED BY <2>1, <2>2, <2>3 DEF Finish
  <1>3. QED BY <1>1, <1>2, TypeInit, TypeStep, PushInit, PTL DEF Spec, EditsReachControllers

=============================================================================
