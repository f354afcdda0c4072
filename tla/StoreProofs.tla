---------------------------- MODULE StoreProofs ----------------------------
(***************************************************************************)
(* Proofs about Store, for any kinds, records, requests and restarts.      *)
(***************************************************************************)
EXTENDS Store, TLAPS, WellFoundedInduction

-----------------------------------------------------------------------------
(* Lists of records.                                                       *)

\* A type for more records has every value of a type for fewer.
LEMMA RecordsGrow ==
    ASSUME NEW n \in Nat, NEW m \in Nat, n <= m
    PROVE  Record(n) \subseteq Record(m)
<1>1. Refs(n) \subseteq Refs(m)
  <2>1. 0..n \subseteq 0..m
    OBVIOUS
  <2>2. ASSUME NEW S \in SUBSET OIDs, NEW f \in [S -> 0..n] PROVE f \in [S -> 0..m]
    BY <2>1
  <2>3. QED BY <2>2 DEF Refs
<1>2. 1..n \subseteq 1..m
  OBVIOUS
<1>3. QED BY <1>1, <1>2 DEF Record

LEMMA ListsGrow ==
    ASSUME NEW n \in Nat, NEW m \in Nat, n <= m, NEW f, AreLists(f, n)
    PROVE  AreLists(f, m)
BY RecordsGrow DEF AreLists, IsList

LEMMA ListGrows ==
    ASSUME NEW n \in Nat, NEW m \in Nat, n <= m, NEW l, IsList(l, n)
    PROVE  IsList(l, m)
BY RecordsGrow DEF IsList

LEMMA EmptyLists == ASSUME NEW n \in Nat PROVE AreLists(Empty, n)
<1>1. IsList(<<>>, n)
  BY DEF IsList
<1>2. QED BY <1>1 DEF AreLists, Empty

LEMMA ListsUpdated ==
    ASSUME NEW n \in Nat, NEW f, AreLists(f, n), NEW k \in Kinds, NEW l, IsList(l, n)
    PROVE  AreLists([f EXCEPT ![k] = l], n)
BY DEF AreLists

LEMMA ListWith ==
    ASSUME NEW n \in Nat, NEW l, IsList(l, n), NEW o \in OIDs, NEW r \in Record(n)
    PROVE  IsList(With(l, o, r), n)
BY DEF IsList, With

LEMMA ListWithout ==
    ASSUME NEW n \in Nat, NEW l, IsList(l, n), NEW o
    PROVE  IsList(Without(l, o), n)
BY DEF IsList, Without

LEMMA RefsWith ==
    ASSUME NEW n \in Nat, NEW f \in Refs(n), NEW x \in OIDs, NEW m \in 0..n
    PROVE  With(f, x, m) \in Refs(n)
<1>1. PICK S \in SUBSET OIDs : f \in [S -> 0..n]
  BY DEF Refs
<1>2. With(f, x, m) \in [S \cup {x} -> 0..n]
  BY <1>1 DEF With
<1>3. QED BY <1>2 DEF Refs

LEMMA RefsWithin ==
    ASSUME NEW n \in Nat, NEW f \in Refs(n), NEW S \in SUBSET DOMAIN f
    PROVE  [x \in S |-> f[x]] \in Refs(n)
<1>1. PICK T \in SUBSET OIDs : f \in [T -> 0..n]
  BY DEF Refs
<1>2. [x \in S |-> f[x]] \in [S -> 0..n] /\ S \in SUBSET OIDs
  BY <1>1
<1>3. QED BY <1>2 DEF Refs

LEMMA RefsWithout ==
    ASSUME NEW n \in Nat, NEW f \in Refs(n), NEW o
    PROVE  Without(f, o) \in Refs(n)
BY RefsWithin DEF Without

LEMMA ListEdited ==
    ASSUME NEW n \in Nat, NEW l, IsList(l, n), NEW o \in DOMAIN l, NEW r \in Record(n)
    PROVE  IsList([l EXCEPT ![o] = r], n)
BY DEF IsList

LEMMA EmptyRefs == \A n : <<>> \in Refs(n)
<1>1. ASSUME NEW n PROVE <<>> \in [{} -> 0..n] /\ {} \in SUBSET OIDs
  OBVIOUS
<1>2. QED BY <1>1 DEF Refs

LEMMA BlankIsRecord ==
    ASSUME NEW n \in Nat, NEW b \in 1..n PROVE Blank(b) \in Record(n)
BY EmptyRefs DEF Blank, Record

\* What is saved of a list: a list, of records that are complete and not deleted.
LEMMA SavedIsList ==
    ASSUME NEW n \in Nat, NEW k, NEW l, IsList(l, n), NEW known
    PROVE  /\ IsList(Saved(k, l, known), n)
           /\ DOMAIN Saved(k, l, known) = {o \in DOMAIN l : l[o].complete /\ ~l[o].deleted}
           /\ \A o \in DOMAIN Saved(k, l, known) :
                LET s == Saved(k, l, known)[o]
                IN /\ s.complete = l[o].complete /\ s.deleted = l[o].deleted /\ s.born = l[o].born
                   /\ DOMAIN s.refs = {x \in DOMAIN l[o].refs :
                           Refers(k) => x \in DOMAIN known[Target(k)] /\ known[Target(k)][x]}
                   /\ \A x \in DOMAIN s.refs : s.refs[x] = l[o].refs[x]
<1> DEFINE kept == {o \in DOMAIN l : l[o].complete /\ ~l[o].deleted}
           there(o) == {x \in DOMAIN l[o].refs :
                           Refers(k) => x \in DOMAIN known[Target(k)] /\ known[Target(k)][x]}
           refs(o) == [x \in there(o) |-> l[o].refs[x]]
<1>1. Saved(k, l, known) = [o \in kept |-> [l[o] EXCEPT !.refs = refs(o)]]
  BY DEF Saved
<1>2. ASSUME NEW o \in kept PROVE l[o] \in Record(n) /\ refs(o) \in Refs(n)
  <2>1. l[o] \in Record(n)
    BY DEF IsList
  <2>2. l[o].refs \in Refs(n)
    BY <2>1 DEF Record
  <2>3. QED BY <2>1, <2>2, RefsWithin
<1> HIDE DEF there
<1>3. ASSUME NEW o \in kept
      PROVE  /\ [l[o] EXCEPT !.refs = refs(o)] \in Record(n)
             /\ [l[o] EXCEPT !.refs = refs(o)].refs = refs(o)
             /\ [l[o] EXCEPT !.refs = refs(o)].complete = l[o].complete
             /\ [l[o] EXCEPT !.refs = refs(o)].deleted = l[o].deleted
             /\ [l[o] EXCEPT !.refs = refs(o)].born = l[o].born
  <2> HIDE DEF refs, kept
  <2>1. l[o] \in Record(n) /\ refs(o) \in Refs(n)
    BY <1>2
  <2>2. QED BY <2>1 DEF Record
<1>4. IsList(Saved(k, l, known), n)
  BY <1>1, <1>3 DEF IsList
<1>5. ASSUME NEW o \in kept
      PROVE DOMAIN refs(o) = there(o) /\ \A x \in there(o) : refs(o)[x] = l[o].refs[x]
  OBVIOUS
<1> HIDE DEF refs, kept
<1>6. DOMAIN Saved(k, l, known) = kept
  BY <1>1
<1>7. ASSUME NEW o \in kept PROVE Saved(k, l, known)[o] = [l[o] EXCEPT !.refs = refs(o)]
  BY <1>1
<1>8. ASSUME NEW o \in DOMAIN Saved(k, l, known)
      PROVE  LET s == Saved(k, l, known)[o]
             IN /\ s.complete = l[o].complete /\ s.deleted = l[o].deleted /\ s.born = l[o].born
                /\ DOMAIN s.refs = there(o)
                /\ \A x \in DOMAIN s.refs : s.refs[x] = l[o].refs[x]
  <2>1. o \in kept
    BY <1>6
  <2>2. Saved(k, l, known)[o] = [l[o] EXCEPT !.refs = refs(o)]
    BY <1>7, <2>1
  <2>3. Saved(k, l, known)[o].refs = refs(o)
    BY <1>3, <2>1, <2>2
  <2>4. QED BY <1>3, <1>5, <2>1, <2>2, <2>3
<1>9. QED BY <1>4, <1>6, <1>8 DEF kept, there
-----------------------------------------------------------------------------
(* Types.                                                                  *)

\* What the actions have in common.
LEMMA TypedGrow ==
    ASSUME TypeOK, NEW n \in Nat, born <= n
    PROVE  /\ AreLists(live, n) /\ AreLists(files, n) /\ AreLists(shadow, n)
           /\ \A k \in DOMAIN job.copied : IsList(job.copied[k], n)
           /\ \A a \in archives : AreLists(a, n)
<1>1. born \in Nat
  BY BoundsAssumption DEF TypeOK
<1>2. QED BY <1>1, ListsGrow, ListGrows DEF TypeOK

LEMMA TypedRecords ==
    ASSUME NEW n \in Nat, NEW f, AreLists(f, n), NEW k \in Kinds, NEW o \in DOMAIN f[k]
    PROVE  /\ f[k][o] \in Record(n) /\ o \in OIDs
           /\ f[k][o].complete \in BOOLEAN /\ f[k][o].deleted \in BOOLEAN
           /\ f[k][o].born \in 1..n /\ f[k][o].refs \in Refs(n)
BY DEF AreLists, IsList, Record

\* A record that is added (Create, ImportLevel, ImportNew).
LEMMA AddTyped ==
    ASSUME TypeOK, NEW k \in Kinds, NEW r \in Record(born + 1), Add(k, r)
    PROVE  /\ AreLists(shadow', born') /\ born' \in 0..MaxRecords /\ born <= born'
           /\ DOMAIN entries' = Kinds
           /\ \A j \in Kinds : DOMAIN entries'[j] \subseteq OIDs /\ entries'[j] \in [DOMAIN entries'[j] -> BOOLEAN]
           /\ last' \in [Kinds -> 0..MaxOID]
<1> DEFINE o == NewOID(k)
<1> HIDE DEF o
<1>1. /\ o \in OIDs /\ born < MaxRecords /\ born' = born + 1
      /\ entries' = [entries EXCEPT ![k] = With(entries[k], o, TRUE)]
      /\ last' = [last EXCEPT ![k] = o]
      /\ shadow' = [shadow EXCEPT ![k] = With(shadow[k], o, r)]
  BY DEF Add, o
<1>2. born' \in 0..MaxRecords /\ born' \in Nat /\ born <= born'
  BY <1>1, BoundsAssumption DEF TypeOK
<1>3. AreLists(shadow, born')
  BY <1>2, TypedGrow
<1>4. IsList(With(shadow[k], o, r), born')
  BY <1>1, <1>2, <1>3, ListWith DEF AreLists
<1>5. AreLists(shadow', born')
  BY <1>1, <1>2, <1>3, <1>4, ListsUpdated
<1>6. DOMAIN entries' = Kinds /\ \A j \in Kinds : entries'[j] = IF j = k THEN With(entries[k], o, TRUE) ELSE entries[j]
  BY <1>1 DEF TypeOK
<1>7. DOMAIN With(entries[k], o, TRUE) \subseteq OIDs
      /\ With(entries[k], o, TRUE) \in [DOMAIN With(entries[k], o, TRUE) -> BOOLEAN]
  BY <1>1 DEF TypeOK, With
<1>8. last' \in [Kinds -> 0..MaxOID]
  BY <1>1, BoundsAssumption DEF TypeOK, OIDs
<1>9. QED
  <2>1. \A j \in Kinds : DOMAIN entries'[j] \subseteq OIDs /\ entries'[j] \in [DOMAIN entries'[j] -> BOOLEAN]
    BY <1>6, <1>7 DEF TypeOK
  <2>2. QED BY <1>2, <1>5, <1>6, <1>8, <2>1

LEMMA HighestTyped ==
    ASSUME NEW n \in Nat, NEW l, IsList(l, n) PROVE Highest(l) \in 0..MaxOID
BY BoundsAssumption DEF IsList, Highest, OIDs

LEMMA MeantTyped ==
    ASSUME TypeOK, NEW k \in Kinds, Refers(k), NEW x
    PROVE  Meant(k, x) \in 0..born
<1>1. born \in Nat /\ AreLists(live, born) /\ Target(k) \in Kinds
  BY BoundsAssumption DEF TypeOK, Refers
<1>2. CASE x \in DOMAIN live[Target(k)]
  BY <1>1, <1>2, TypedRecords DEF Meant
<1>3. CASE x \notin DOMAIN live[Target(k)]
  BY <1>1, <1>3 DEF Meant
<1>4. QED BY <1>2, <1>3

LEMMA EditTyped ==
    ASSUME TypeOK, NEW k \in Kinds, NEW o, NEW r, Edit(k, o, r),
           shadow[k][o] \in Record(born) => r \in Record(born)
    PROVE  AreLists(shadow', born)
<1>1. born \in Nat /\ AreLists(shadow, born)
  BY BoundsAssumption DEF TypeOK
<1>2. o \in DOMAIN shadow[k] /\ shadow' = [shadow EXCEPT ![k] = [shadow[k] EXCEPT ![o] = r]]
  BY <1>1 DEF Edit, AreLists
<1>3. IsList([shadow[k] EXCEPT ![o] = r], born)
  BY <1>1, <1>2, TypedRecords, ListEdited DEF AreLists
<1>4. QED BY <1>1, <1>2, <1>3, ListsUpdated

\* Kinds whose file comes next in a backup have not been dealt with.
LEMMA NextIsNew ==
    ASSUME NEW k, NEW S, IsNext(k, S) PROVE k \in Kinds /\ k \notin S
<1>1. PICK i \in DOMAIN Tags : Tags[i] = k /\ S = {Tags[j] : j \in 1..(i - 1)}
  BY DEF IsNext
<1>2. \A j \in 1..(i - 1) : j \in DOMAIN Tags /\ j # i
  BY <1>1, TagsAssumption
<1>3. QED BY <1>1, <1>2, TagsAssumption

LEMMA StraysTyped == \A f : [k \in Kinds |-> Strays(f, k)] \in [Kinds -> SUBSET OIDs]
BY DEF Strays

LEMMA InitTyped == Init => TypeOK
<1> SUFFICES ASSUME Init PROVE TypeOK
  OBVIOUS
<1>1. AreLists(InitialFiles, Existing) /\ \A a \in InitialArchives : AreLists(a, Existing)
  BY InitialAssumption
<1>2. Existing \in Nat /\ Existing \in 0..MaxRecords
  BY BoundsAssumption
<1>3. \A k \in Kinds : IsList(InitialFiles[k], Existing)
  BY <1>1 DEF AreLists
<1>4. \A k \in Kinds : Highest(InitialFiles[k]) \in 0..MaxOID
  BY <1>2, <1>3, HighestTyped
<1>5. \A k \in Kinds : /\ DOMAIN Catalogued(InitialFiles[k]) \subseteq OIDs
                       /\ Catalogued(InitialFiles[k]) \in [DOMAIN Catalogued(InitialFiles[k]) -> BOOLEAN]
  BY <1>3 DEF IsList, Catalogued
<1>6. AreLists(Empty, Existing)
  BY <1>2, EmptyLists
<1>a. AreLists(LevelsSaved(InitialFiles), Existing)
  <2>1. \A k \in Kinds : IsList(Saved(k, InitialFiles[k], Tables(InitialFiles)), Existing)
    BY <1>2, <1>3, SavedIsList
  <2>2. QED BY <1>3, <2>1 DEF AreLists, LevelsSaved
<1>7. /\ AreLists(live, born) /\ AreLists(files, born) /\ AreLists(shadow, born)
      /\ DOMAIN entries = Kinds /\ last \in [Kinds -> 0..MaxOID]
      /\ \A a \in archives : AreLists(a, born)
      /\ adrift \in [Kinds -> SUBSET OIDs] /\ undone \in [Kinds -> SUBSET OIDs]
  BY <1>1, <1>4, <1>6, <1>a, StraysTyped DEF Init, Tables
<1>8. \A k \in Kinds : DOMAIN entries[k] \subseteq OIDs /\ entries[k] \in [DOMAIN entries[k] -> BOOLEAN]
  BY <1>5 DEF Init, Tables
<1>9. /\ job = [what |-> job.what, copied |-> job.copied, from |-> job.from]
      /\ job.what = "none" /\ DOMAIN job.copied = {} /\ ~Copying
  BY DEF Init, NoJob, Copying
<1>10. /\ holder = "none" /\ editing = {} /\ done = {} /\ exiting = FALSE /\ unsaved = {}
       /\ born \in 0..MaxRecords
       /\ requests \in 0..MaxRequests /\ jobs \in 0..MaxJobs /\ restarts \in 0..MaxRestarts
  BY <1>2, BoundsAssumption DEF Init
<1>11. \A k \in DOMAIN job.copied : IsList(job.copied[k], born)
  BY <1>9
<1>12. QED
  BY <1>7, <1>8, <1>9, <1>10, <1>11 DEF TypeOK

LEMMA NextTyped == TypeOK /\ [Next]_vars => TypeOK'
<1> SUFFICES ASSUME TypeOK, [Next]_vars PROVE TypeOK'
  OBVIOUS
<1> USE DEF store, request, counts
<1>a. born \in Nat /\ born \in 0..MaxRecords
  BY BoundsAssumption DEF TypeOK
<1>b. AreLists(Empty, born)
  BY <1>a, EmptyLists
<1>1. ASSUME NEW k \in Kinds, Begin(k) PROVE TypeOK'
  BY <1>1, <1>a, BoundsAssumption DEF TypeOK, Begin, Free, Copying
<1>2. ASSUME NEW k \in Kinds, Create(k) PROVE TypeOK'
  <2>1. Blank(born + 1) \in Record(born + 1)
    BY <1>a, BlankIsRecord
  <2>2. Add(k, Blank(born + 1))
    BY <1>2 DEF Create
  <2>3. born' \in Nat /\ born <= born' /\ born' \in 0..MaxRecords
    BY <2>1, <2>2, AddTyped, BoundsAssumption
  <2>4. QED BY <1>2, <2>1, <2>2, <2>3, AddTyped, TypedGrow DEF TypeOK, Create, Copying
<1>3. ASSUME NEW k \in Kinds, Save(k) PROVE TypeOK'
  <2>1. IsList(Saved(k, shadow[k], entries), born)
    BY <1>a, SavedIsList DEF TypeOK, AreLists
  <2>2. AreLists(files', born)
    BY <1>3, <1>a, <2>1, ListsUpdated DEF Save, TypeOK
  <2>3. QED BY <1>3, <2>2 DEF TypeOK, Save, Copying
<1>4. ASSUME NEW k \in Kinds, Copy(k) PROVE TypeOK'
  <2> DEFINE copied == With(job.copied, k, files[k])
  <2>1. \A j \in DOMAIN copied : IsList(copied[j], born)
    BY <1>a DEF With, TypeOK, AreLists
  <2>2. DOMAIN copied = DOMAIN job.copied \cup {k} /\ DOMAIN copied \subseteq Kinds
    BY DEF With, TypeOK
  <2>3. Copying /\ holder = "none"
    BY <1>4, NextIsNew DEF Copy, Copying, TypeOK
  <2> HIDE DEF copied
  <2>4. CASE DOMAIN copied = Kinds
    <3>1. AreLists(copied, born)
      BY <2>1, <2>4 DEF AreLists
    <3>2. /\ archives' = archives \cup {copied}
          /\ job' = IF job.what = "backup" THEN NoJob ELSE [job EXCEPT !.copied = copied]
      BY <1>4, <2>4 DEF Copy, copied
    <3>3. \A j \in DOMAIN job'.copied : IsList(job'.copied[j], born)
      BY <2>1, <3>2 DEF TypeOK, NoJob
    <3>4. QED BY <1>4, <2>2, <2>3, <3>1, <3>2, <3>3 DEF TypeOK, Copy, Copying, NoJob
  <2>5. CASE DOMAIN copied # Kinds
    <3>1. job' = [job EXCEPT !.copied = copied] /\ archives' = archives
      BY <1>4, <2>5 DEF Copy, copied
    <3>2. QED BY <1>4, <2>1, <2>2, <2>3, <3>1 DEF TypeOK, Copy, Copying
  <2>6. QED BY <2>4, <2>5
<1>5. ASSUME NEW k \in Kinds, Restore(k) PROVE TypeOK'
  <2>1. AreLists(files', born)
    BY <1>5, <1>a, ListsUpdated DEF Restore, TypeOK, AreLists
  <2>2. k \in editing
    BY <1>5 DEF Restore, TypeOK
  <2>3. QED BY <1>5, <2>1, <2>2 DEF TypeOK, Restore, Copying
<1>6. ASSUME NEW k \in Kinds, NEW o \in OIDs, Complete(k, o) PROVE TypeOK'
  <2>1. AreLists(shadow', born)
    BY <1>6, EditTyped DEF Complete, Record
  <2>2. QED BY <1>6, <2>1 DEF TypeOK, Complete, Copying
<1>7. ASSUME NEW k \in Kinds, NEW o \in OIDs, Delete(k, o) PROVE TypeOK'
  <2>1. AreLists(shadow', born)
    BY <1>7, EditTyped DEF Delete, Record
  <2>2. \A j \in Kinds : /\ DOMAIN entries'[j] = DOMAIN entries[j]
                         /\ entries'[j] \in [DOMAIN entries[j] -> BOOLEAN]
    BY <1>7 DEF TypeOK, Delete
  <2>3. DOMAIN entries' = Kinds
    BY <1>7 DEF TypeOK, Delete
  <2>4. QED BY <1>7, <2>1, <2>2, <2>3 DEF TypeOK, Delete, Copying
<1>8. ASSUME NEW k \in Kinds, NEW o \in OIDs, Sweep(k, o) PROVE TypeOK'
  <2>1. AreLists(live', born)
    BY <1>8, <1>a, ListWithout, ListsUpdated DEF Sweep, TypeOK, AreLists
  <2>2. QED BY <1>8, <2>1 DEF TypeOK, Sweep, Copying
<1>9. ASSUME NEW k \in Kinds, NEW o \in OIDs, NEW x \in OIDs, Link(k, o, x) PROVE TypeOK'
  <2> DEFINE refs == With(shadow[k][o].refs, x, Meant(k, x))
  <2>1. ASSUME shadow[k][o] \in Record(born) PROVE [shadow[k][o] EXCEPT !.refs = refs] \in Record(born)
    <3>1. shadow[k][o].refs \in Refs(born)
      BY <2>1 DEF Record
    <3>2. refs \in Refs(born)
      BY <1>9, <1>a, <3>1, MeantTyped, RefsWith DEF Link
    <3> HIDE DEF refs
    <3>3. QED BY <2>1, <3>2 DEF Record
  <2>2. Edit(k, o, [shadow[k][o] EXCEPT !.refs = refs])
    BY <1>9 DEF Link
  <2> HIDE DEF refs
  <2>3. AreLists(shadow', born)
    BY <2>1, <2>2, EditTyped
  <2>4. QED BY <1>9, <2>3 DEF TypeOK, Link, Copying
<1>10. ASSUME NEW k \in Kinds, NEW o \in OIDs, NEW x \in OIDs, Unlink(k, o, x) PROVE TypeOK'
  <2> DEFINE refs == Without(shadow[k][o].refs, x)
  <2>1. ASSUME shadow[k][o] \in Record(born) PROVE [shadow[k][o] EXCEPT !.refs = refs] \in Record(born)
    <3>1. refs \in Refs(born)
      BY <1>a, <2>1, RefsWithout DEF Record
    <3> HIDE DEF refs
    <3>2. QED BY <2>1, <3>1 DEF Record
  <2>2. Edit(k, o, [shadow[k][o] EXCEPT !.refs = refs])
    BY <1>10 DEF Unlink
  <2> HIDE DEF refs
  <2>3. AreLists(shadow', born)
    BY <2>1, <2>2, EditTyped
  <2>4. QED BY <1>10, <2>3 DEF TypeOK, Unlink, Copying
<1>11. CASE BeginImport
  BY <1>11, <1>a DEF TypeOK, BeginImport, Free, Copying, NoJob
<1>12. CASE ImportLevel
  <2>1. PICK S \in SUBSET (IF Refers("groups") THEN DOMAIN entries["doors"] ELSE {}) :
            Add("groups", [complete |-> TRUE, deleted |-> FALSE, born |-> born + 1,
                           refs |-> [x \in S |-> Meant("groups", x)]])
    BY <1>12 DEF ImportLevel
  <2> DEFINE r == [complete |-> TRUE, deleted |-> FALSE, born |-> born + 1,
                   refs |-> [x \in S |-> Meant("groups", x)]]
  <2>2. "groups" \in Kinds
    BY <1>12 DEF ImportLevel, TypeOK
  <2>3. [x \in S |-> Meant("groups", x)] \in Refs(born + 1)
    <3>1. CASE Refers("groups")
      <4>1. S \subseteq OIDs
        BY <3>1 DEF TypeOK, Refers, Target
      <4>2. \A x \in S : Meant("groups", x) \in 0..(born + 1)
        BY <2>2, <3>1, <1>a, MeantTyped
      <4>3. QED BY <4>1, <4>2 DEF Refs
    <3>2. CASE ~Refers("groups")
      BY <3>2 DEF Refs
    <3>3. QED BY <3>1, <3>2
  <2>4. r \in Record(born + 1)
    BY <2>3, <1>a DEF Record
  <2>5. Add("groups", r)
    BY <2>1
  <2> HIDE DEF r
  <2>6. born' \in Nat /\ born <= born' /\ born' \in 0..MaxRecords
    BY <2>2, <2>4, <2>5, AddTyped, BoundsAssumption
  <2>7. QED BY <1>12, <2>2, <2>4, <2>5, <2>6, AddTyped, TypedGrow DEF TypeOK, ImportLevel, Copying
<1>13. ASSUME NEW x \in OIDs, ImportNew(x) PROVE TypeOK'
  <2> DEFINE r == [complete |-> TRUE, deleted |-> FALSE, born |-> born + 1,
                   refs |-> With(<<>>, x, MeantHere(x))]
  <2>1. {"groups", "cards"} \subseteq Kinds
    BY <1>13 DEF ImportNew, TypeOK
  <2>2. MeantHere(x) \in 0..(born + 1)
    BY <1>13, <1>a, <2>1, TypedRecords DEF ImportNew, Choices, MeantHere, TypeOK
  <2>3. With(<<>>, x, MeantHere(x)) \in Refs(born + 1)
    <3>1. <<>> \in Refs(born + 1)
      BY EmptyRefs
    <3>2. QED BY <3>1, <2>2, <1>a, RefsWith
  <2>4. r \in Record(born + 1)
    BY <2>3, <1>a DEF Record
  <2>5. Add("cards", r)
    BY <1>13 DEF ImportNew
  <2> HIDE DEF r
  <2>6. born' \in Nat /\ born <= born' /\ born' \in 0..MaxRecords
    BY <2>1, <2>4, <2>5, AddTyped, BoundsAssumption
  <2>7. QED BY <1>13, <2>1, <2>4, <2>5, <2>6, AddTyped, TypedGrow DEF TypeOK, ImportNew, Copying
<1>14. ASSUME NEW o \in OIDs, NEW x \in OIDs, ImportOver(o, x) PROVE TypeOK'
  <2> DEFINE refs == With(shadow["cards"][o].refs, x, MeantHere(x))
             r == [shadow["cards"][o] EXCEPT !.refs = refs, !.complete = TRUE]
  <2>1. {"groups", "cards"} \subseteq Kinds
    BY <1>14 DEF ImportOver, TypeOK
  <2>2. shadow["cards"][o] \in Record(born) /\ shadow["cards"][o].refs \in Refs(born) /\ o \in DOMAIN shadow["cards"]
    BY <1>14, <1>a, <2>1, TypedRecords DEF ImportOver, TypeOK
  <2>3. refs \in Refs(born)
    BY <1>14, <1>a, <2>1, <2>2, TypedRecords, RefsWith DEF ImportOver, Choices, MeantHere, TypeOK
  <2>4. shadow' = [shadow EXCEPT !["cards"] = [shadow["cards"] EXCEPT ![o] = r]]
    BY <1>14 DEF ImportOver, Merged
  <2>5. r \in Record(born)
    <3> HIDE DEF refs
    <3>1. QED BY <2>2, <2>3 DEF Record
  <2> HIDE DEF r
  <2>6. AreLists(shadow', born)
    BY <2>1, <2>2, <2>4, <2>5, <1>a, ListEdited, ListsUpdated DEF TypeOK, AreLists
  <2>7. QED BY <1>14, <2>6 DEF TypeOK, ImportOver, Copying
<1>15. CASE Commit
  <2>1. AreLists(live', born)
    BY <1>15 DEF Commit, TypeOK, AreLists
  <2>2. QED BY <1>15, <1>b, <2>1 DEF TypeOK, Commit, Copying
<1>16. CASE Refuse
  <2>1. undone' \in [Kinds -> SUBSET OIDs]
    <3>1. \A k \in Kinds : Deleted(shadow[k]) \subseteq OIDs
      BY DEF TypeOK, AreLists, IsList, Deleted
    <3>2. QED BY <1>16, <3>1 DEF TypeOK, Refuse
  <2>2. QED BY <1>16, <1>b, <2>1 DEF TypeOK, Refuse, Copying
<1>17. ASSUME NEW what \in {"backup", "restore", "import"}, NEW from \in archives \cup {<<>>},
              StartJob(what, from)
       PROVE  TypeOK'
  <2>1. job' = [what |-> what, copied |-> <<>>, from |-> from] /\ holder = "none"
    BY <1>17 DEF StartJob, Free
  <2>2. what = "restore" => from \in archives
    BY <1>17 DEF StartJob
  <2>3. /\ job' = [what |-> job'.what, copied |-> job'.copied, from |-> job'.from]
        /\ job'.what \in {"none", "backup", "restore", "import"} /\ DOMAIN job'.copied = {}
        /\ job'.what = "restore" => job'.from \in archives
    BY <2>1, <2>2
  <2>4. jobs' \in 0..MaxJobs
    BY <1>17, BoundsAssumption DEF StartJob, TypeOK
  <2>5. QED BY <1>17, <2>1, <2>3, <2>4 DEF TypeOK, StartJob
<1>18. CASE AbandonJob
  BY <1>18 DEF TypeOK, AbandonJob, Copying, NoJob
<1>19. CASE BeginRestore
  BY <1>19 DEF TypeOK, BeginRestore, Copying, NoJob
<1>20. CASE EndRestore
  BY <1>20, <1>b DEF TypeOK, EndRestore, Copying
<1>21. CASE Restart
  <2>1. \A k \in Kinds : IsList(files[k], born)
    BY DEF TypeOK, AreLists
  <2>2. AreLists(files', born)
    <3>1. \A k \in Kinds : IsList(Saved(k, files[k], Tables(files)), born)
      BY <1>a, <2>1, SavedIsList
    <3>2. QED BY <1>21, <2>1, <3>1 DEF Restart, AreLists, LevelsSaved
  <2>3. AreLists(live', born)
    BY <1>21 DEF Restart, TypeOK
  <2>4. last' \in [Kinds -> 0..MaxOID]
    BY <1>21, <1>a, <2>1, HighestTyped DEF Restart
  <2>5. \A k \in Kinds : DOMAIN entries'[k] \subseteq OIDs /\ entries'[k] \in [DOMAIN entries'[k] -> BOOLEAN]
    BY <1>21, <2>1 DEF Restart, Tables, Catalogued, IsList
  <2>6. DOMAIN entries' = Kinds /\ adrift' \in [Kinds -> SUBSET OIDs]
    BY <1>21, StraysTyped DEF Restart, Tables
  <2>7. /\ job' = [what |-> job'.what, copied |-> job'.copied, from |-> job'.from]
        /\ job'.what = "none" /\ DOMAIN job'.copied = {}
    BY <1>21 DEF Restart, NoJob
  <2>8. restarts' \in 0..MaxRestarts
    BY <1>21, BoundsAssumption DEF Restart, TypeOK
  <2>9. QED BY <1>21, <1>b, <2>2, <2>3, <2>4, <2>5, <2>6, <2>7, <2>8 DEF TypeOK, Restart
<1>22. CASE UNCHANGED vars
  BY <1>22 DEF TypeOK, vars, Copying
<1>23. QED
  BY <1>1, <1>2, <1>3, <1>4, <1>5, <1>6, <1>7, <1>8, <1>9, <1>10, <1>11, <1>12, <1>13, <1>14, <1>15,
     <1>16, <1>17, <1>18, <1>19, <1>20, <1>21, <1>22 DEF Next, Idle

\* In every behaviour every variable keeps to its type, and while a backup is
\* copied nobody holds sys.Lock to write (sys.RLock in CreateBackup).
THEOREM TypeCorrect == Spec => []TypeOK
<1>1. Init => TypeOK
  BY InitTyped
<1>2. TypeOK /\ [Next]_vars => TypeOK'
  BY NextTyped
<1>3. QED BY <1>1, <1>2, PTL DEF Spec
-----------------------------------------------------------------------------
(* A backup has the files of one moment.                                    *)

\* While the backup is being copied the files that have been copied stay.
CopiedStays == Copying => \A k \in DOMAIN job.copied : job.copied[k] = files[k]

LEMMA CopyFacts ==
    ASSUME TypeOK, CopiedStays, NEW k \in Kinds, Copy(k)
    PROVE  LET copied == With(job.copied, k, files[k])
           IN /\ holder = "none" /\ DOMAIN copied \subseteq Kinds
              /\ \A j \in DOMAIN copied : copied[j] = files[j]
<1>1. Copying /\ holder = "none"
  BY NextIsNew DEF Copy, Copying, TypeOK
<1>2. QED BY <1>1 DEF CopiedStays, With, TypeOK

LEMMA CopiedStaysNext == TypeOK /\ CopiedStays /\ [Next]_vars => CopiedStays'
<1> SUFFICES ASSUME TypeOK, CopiedStays, [Next]_vars, Copying' PROVE \A k \in DOMAIN job'.copied : job'.copied[k] = files'[k]
  BY DEF CopiedStays
<1> USE DEF store, request, counts
<1>1. ASSUME NEW k \in Kinds, Copy(k) PROVE \A j \in DOMAIN job'.copied : job'.copied[j] = files'[j]
  <2> DEFINE copied == With(job.copied, k, files[k])
  <2>1. \A j \in DOMAIN copied : copied[j] = files[j]
    BY <1>1, CopyFacts
  <2> HIDE DEF copied
  <2>2. job' = [job EXCEPT !.copied = copied] /\ files' = files
    BY <1>1 DEF Copy, copied, Copying, NoJob
  <2>3. QED BY <2>1, <2>2 DEF TypeOK
<1>2. ASSUME NEW what \in {"backup", "restore", "import"}, NEW from \in archives \cup {<<>>},
             StartJob(what, from)
      PROVE  \A j \in DOMAIN job'.copied : job'.copied[j] = files'[j]
  BY <1>2 DEF StartJob
<1>3. CASE BeginImport \/ AbandonJob \/ BeginRestore \/ Restart
  BY <1>3 DEF BeginImport, AbandonJob, BeginRestore, Restart, Copying, NoJob
<1>4. CASE job' = job /\ files' = files
  BY <1>4 DEF Copying, CopiedStays
<1>5. CASE job' = job /\ holder # "none"
  BY <1>5 DEF Copying, TypeOK
<1>6. ASSUME NEW k \in Kinds, Begin(k) \/ Create(k) \/ Save(k) \/ Restore(k)
      PROVE  job' = job /\ (files' = files \/ holder # "none")
  BY <1>6 DEF Begin, Create, Save, Restore
<1>7. ASSUME NEW k \in Kinds, NEW o \in OIDs, Complete(k, o) \/ Delete(k, o) \/ Sweep(k, o)
      PROVE  job' = job /\ files' = files
  BY <1>7 DEF Complete, Delete, Sweep
<1>8. ASSUME NEW k \in Kinds, NEW o \in OIDs, NEW x \in OIDs, Link(k, o, x) \/ Unlink(k, o, x)
      PROVE  job' = job /\ files' = files
  BY <1>8 DEF Link, Unlink
<1>9. ASSUME NEW o \in OIDs, NEW x \in OIDs, ImportLevel \/ ImportNew(x) \/ ImportOver(o, x)
      PROVE  job' = job /\ files' = files
  BY <1>9 DEF ImportLevel, ImportNew, ImportOver
<1>10. CASE ImportLevel \/ Commit \/ Refuse \/ EndRestore \/ UNCHANGED vars
  <2>1. job' = job /\ files' = files
    BY <1>10 DEF ImportLevel, Commit, Refuse, EndRestore, vars
  <2>2. QED BY <2>1, <1>4
<1>11. QED
  BY <1>1, <1>2, <1>3, <1>4, <1>5, <1>6, <1>7, <1>8, <1>9, <1>10 DEF Next, Idle

\* A backup has the files of all kinds as they were together at one moment:
\* CreateBackup copies them one by one under sys.RLock.
THEOREM BackupsAreCuts == Spec => BackupIsACut
<1>1. Init => CopiedStays
  <2>1. Init => job.what = "none"
    BY DEF Init, NoJob
  <2>2. QED BY <2>1 DEF CopiedStays, Copying
<1>2. TypeOK /\ CopiedStays /\ [Next]_vars =>
        [\A a \in archives' \ archives : \A k \in Kinds : a[k] = files[k]]_vars
  <2> SUFFICES ASSUME TypeOK, CopiedStays, Next, NEW a \in archives' \ archives, NEW k \in Kinds
               PROVE  a[k] = files[k]
    OBVIOUS
  <2> USE DEF store, request, counts
  <2>1. PICK j \in Kinds : Copy(j)
    BY DEF Next, Idle, Begin, Create, Save, Restore, Complete, Delete, Sweep, Link, Unlink, BeginImport,
       ImportLevel, ImportNew, ImportOver, Commit, Refuse, StartJob, AbandonJob, BeginRestore,
       EndRestore, Restart, vars
  <2> DEFINE copied == With(job.copied, j, files[j])
  <2>2. \A i \in DOMAIN copied : copied[i] = files[i]
    BY <2>1, CopyFacts
  <2> HIDE DEF copied
  <2>3. archives' = archives \cup {copied} /\ DOMAIN copied = Kinds
    BY <2>1 DEF Copy, copied
  <2>4. QED BY <2>2, <2>3
<1>3. QED
  BY <1>1, <1>2, CopiedStaysNext, TypeCorrect, PTL DEF Spec, BackupIsACut

-----------------------------------------------------------------------------
(* The files have what was acknowledged. The invariant says why the parts   *)
(* of a request, which are done one at a time, cannot part them:            *)
(*  - Tidy: nothing deleted or incomplete is ever in a file;                *)
(*  - Catalogue: what a save keeps of the references is what is in use in   *)
(*    the list that is being edited, except where a refused request left    *)
(*    the catalogue behind;                                                 *)
(*  - Copies: a copy that is swapped in has every record of the list with   *)
(*    its identity, and nobody refers to what is only in the copy;          *)
(*  - Ordered: an edit has one list in hand, an import saves the levels     *)
(*    before the credentials that refer to them.                            *)

InHand(k) == holder \in {"edit", "import"} /\ k \in editing
Working(k) == IF InHand(k) THEN shadow[k] ELSE live[k]

Tidied(list) == \A o \in DOMAIN list : list[o].complete /\ ~list[o].deleted

Tidy ==
    /\ \A k \in Kinds : Tidied(files[k])
    /\ \A a \in archives : \A k \in Kinds : Tidied(a[k])
    /\ \A k \in DOMAIN job.copied : Tidied(job.copied[k])
    /\ holder = "restore" => \A k \in Kinds : Tidied(shadow[k])

Catalogue ==
    \A k \in Kinds : \A o \in DOMAIN Working(k) :
        ~Working(k)[o].deleted /\ o \notin undone[k] => InUse(k, o)

\* No record of a list that refers to this kind means this one.
Unmeant(k, o, n) ==
    \A h \in Kinds : Target(h) = k => \A i \in DOMAIN live[h] :
        o \in DOMAIN live[h][i].refs => live[h][i].refs[o] # n

IsCopy(k) ==
    /\ DOMAIN live[k] \subseteq DOMAIN shadow[k]
    /\ \A o \in DOMAIN live[k] :
          /\ shadow[k][o].born = live[k][o].born
          /\ live[k][o].deleted => shadow[k][o].deleted
    /\ \A o \in DOMAIN shadow[k] \ DOMAIN live[k] :
          shadow[k][o].deleted \/ Unmeant(k, o, shadow[k][o].born)

Copies == \A k \in Kinds : InHand(k) => IsCopy(k)

Ordered ==
    /\ holder = "edit" => \E k \in Kinds : editing = {k}
    /\ holder = "import" /\ "cards" \in done => "groups" \in done

Inv == TypeOK /\ Tidy /\ Catalogue /\ Copies /\ Ordered /\ SavedAsAcknowledged

\* A step after which the program goes by the same lists and the files are the same.
LEMMA SavedStays ==
    ASSUME SavedAsAcknowledged, files' = files, undone' = undone, unsaved \subseteq unsaved',
           \A k \in Kinds : Current(k)' = Current(k)
    PROVE  SavedAsAcknowledged'
BY DEF SavedAsAcknowledged, Faithful, Sound, Refers

\* A request edits its copies before it saves any of them: nothing else changes.
LEMMA EditingKeeps ==
    ASSUME SavedAsAcknowledged, Tidy, Ordered, holder \in {"edit", "import"}, done = {},
           UNCHANGED <<live, files, holder, editing, done, job, archives, undone, unsaved>>
    PROVE  SavedAsAcknowledged' /\ Tidy' /\ Ordered'
<1>1. \A k \in Kinds : Current(k)' = Current(k)
  BY DEF Current
<1>2. SavedAsAcknowledged'
  BY <1>1, SavedStays
<1>3. Tidy'
  BY DEF Tidy, Tidied
<1>4. QED BY <1>2, <1>3 DEF Ordered

\* A record is added to a copy.
LEMMA AddKeeps ==
    ASSUME TypeOK, Catalogue, Copies, NEW k \in Kinds, InHand(k), NEW r,
           Add(k, r), r.born = born + 1,
           UNCHANGED <<live, holder, editing, undone>>
    PROVE  Catalogue' /\ Copies'
<1>0. PICK o : o = NewOID(k)
  OBVIOUS
<1>1. /\ o \in OIDs /\ o \notin DOMAIN shadow[k]
      /\ entries' = [entries EXCEPT ![k] = With(entries[k], o, TRUE)]
      /\ shadow' = [shadow EXCEPT ![k] = With(shadow[k], o, r)]
  BY <1>0 DEF Add
<1>2. born \in Nat
  BY BoundsAssumption DEF TypeOK
<1>3. \A j \in Kinds : shadow'[j] = IF j = k THEN With(shadow[k], o, r) ELSE shadow[j]
  BY <1>1 DEF TypeOK, AreLists
<1>4. \A j \in Kinds : entries'[j] = IF j = k THEN With(entries[k], o, TRUE) ELSE entries[j]
  BY <1>1 DEF TypeOK
<1>5. ASSUME NEW j \in Kinds, NEW x, InUse(j, x) PROVE InUse(j, x)'
  <2>1. x \in DOMAIN entries[j] /\ entries[j][x]
    BY <1>5 DEF InUse, Known
  <2>2. CASE j = k
    <3>1. x \in DOMAIN With(entries[k], o, TRUE) /\ With(entries[k], o, TRUE)[x]
      BY <2>1, <2>2 DEF With
    <3> QED  BY <1>4, <2>2, <3>1 DEF InUse, Known
  <2>3. CASE j # k
    BY <1>4, <2>1, <2>3 DEF InUse, Known
  <2> QED  BY <2>2, <2>3
<1>6. InUse(k, o)'
  <2>1. entries'[k] = With(entries[k], o, TRUE)
    BY <1>4
  <2>2. o \in DOMAIN With(entries[k], o, TRUE) /\ With(entries[k], o, TRUE)[o] = TRUE
    BY DEF With
  <2>3. QED BY <2>1, <2>2, Zenon DEF InUse, Known
<1>7. DOMAIN shadow'[k] = DOMAIN shadow[k] \cup {o} /\ shadow'[k][o] = r
  BY <1>3 DEF With
<1>8. \A x \in DOMAIN shadow'[k] : x = o \/ (x \in DOMAIN shadow[k] /\ shadow'[k][x] = shadow[k][x])
  <2>1. \A x \in DOMAIN shadow[k] : x # o => With(shadow[k], o, r)[x] = shadow[k][x]
    BY DEF With
  <2>2. QED BY <1>3, <1>7, <2>1
<1>9. Catalogue'
  <2> SUFFICES ASSUME NEW j \in Kinds, NEW x \in DOMAIN Working(j)',
                      ~Working(j)'[x].deleted, x \notin undone[j]
               PROVE  InUse(j, x)'
    BY DEF Catalogue
  <2>1. CASE j = k
    BY <1>5, <1>6, <1>8, <2>1 DEF Catalogue, Working, InHand
  <2>2. CASE j # k
    BY <1>3, <1>5, <2>2 DEF Catalogue, Working, InHand
  <2>3. QED BY <2>1, <2>2
<1>10. Unmeant(k, o, r.born)
  <2> SUFFICES ASSUME NEW h \in Kinds, NEW i \in DOMAIN live[h], o \in DOMAIN live[h][i].refs
               PROVE  live[h][i].refs[o] # r.born
    BY DEF Unmeant
  <2>1. live[h][i].refs \in Refs(born)
    BY <1>2, TypedRecords DEF TypeOK
  <2>2. live[h][i].refs[o] \in 0..born
    BY <2>1 DEF Refs
  <2>3. QED BY <1>2, <2>2
<1>11. Copies'
  <2> SUFFICES ASSUME NEW j \in Kinds, InHand(j) PROVE IsCopy(j)'
    BY DEF Copies, InHand
  <2>1. IsCopy(j)
    BY DEF Copies
  <2>2. CASE j = k
    <3>1. \A x \in DOMAIN live[k] : x # o /\ x \in DOMAIN shadow[k]
      BY <1>1, <2>1, <2>2 DEF IsCopy
    <3>2. QED BY <1>7, <1>8, <1>10, <2>1, <2>2, <3>1 DEF IsCopy, Unmeant
  <2>3. CASE j # k
    BY <1>3, <2>1, <2>3 DEF IsCopy, Unmeant
  <2>4. QED BY <2>2, <2>3
<1>12. QED BY <1>9, <1>11

\* A record of a copy is changed; if it is deleted the catalogue may be told.
LEMMA EditKeeps ==
    ASSUME TypeOK, Catalogue, Copies, NEW k \in Kinds, InHand(k), NEW o \in DOMAIN shadow[k], NEW r,
           shadow' = [shadow EXCEPT ![k] = [shadow[k] EXCEPT ![o] = r]],
           r.born = shadow[k][o].born, shadow[k][o].deleted => r.deleted,
           \A j \in Kinds : \A x : InUse(j, x) => InUse(j, x)' \/ (j = k /\ x = o /\ r.deleted),
           UNCHANGED <<live, holder, editing, undone>>
    PROVE  Catalogue' /\ Copies'
<1>1. \A j \in Kinds : shadow'[j] = IF j = k THEN [shadow[k] EXCEPT ![o] = r] ELSE shadow[j]
  BY DEF TypeOK, AreLists
<1>2. DOMAIN shadow'[k] = DOMAIN shadow[k]
      /\ \A x \in DOMAIN shadow[k] : shadow'[k][x] = IF x = o THEN r ELSE shadow[k][x]
  BY <1>1
<1>3. Catalogue'
  <2> SUFFICES ASSUME NEW j \in Kinds, NEW x \in DOMAIN Working(j)',
                      ~Working(j)'[x].deleted, x \notin undone[j]
               PROVE  InUse(j, x)'
    BY DEF Catalogue
  <2>1. CASE j = k
    BY <1>2, <2>1 DEF Catalogue, Working, InHand
  <2>2. CASE j # k
    BY <1>1, <2>2 DEF Catalogue, Working, InHand
  <2>3. QED BY <2>1, <2>2
<1>4. Copies'
  <2> SUFFICES ASSUME NEW j \in Kinds, InHand(j) PROVE IsCopy(j)'
    BY DEF Copies, InHand
  <2>1. IsCopy(j)
    BY DEF Copies
  <2>2. CASE j = k
    BY <1>2, <2>1, <2>2 DEF IsCopy, Unmeant
  <2>3. CASE j # k
    BY <1>1, <2>1, <2>3 DEF IsCopy, Unmeant
  <2>4. QED BY <2>2, <2>3
<1>5. QED BY <1>3, <1>4

\* What a save drops of the references is not in use in the catalogue.
LEMMA SavedRefs ==
    ASSUME NEW n \in Nat, NEW k, NEW l, IsList(l, n), NEW o \in DOMAIN Saved(k, l, entries)
    PROVE  /\ Saved(k, l, entries)[o].complete = l[o].complete
           /\ Saved(k, l, entries)[o].deleted = l[o].deleted
           /\ Saved(k, l, entries)[o].born = l[o].born
           /\ DOMAIN Saved(k, l, entries)[o].refs \subseteq DOMAIN l[o].refs
           /\ \A x \in DOMAIN l[o].refs \ DOMAIN Saved(k, l, entries)[o].refs : Refers(k) /\ ~InUse(Target(k), x)
<1>1. PICK there : there = {x \in DOMAIN l[o].refs : Refers(k) => InUse(Target(k), x)}
  OBVIOUS
<1>2. o \in DOMAIN l /\ Saved(k, l, entries)[o] = [l[o] EXCEPT !.refs = [x \in there |-> l[o].refs[x]]]
  BY <1>1, Zenon DEF Saved, InUse, Known
<1>3. l[o] \in Record(n)
  BY <1>2 DEF IsList
<1>4. /\ Saved(k, l, entries)[o].refs = [x \in there |-> l[o].refs[x]]
      /\ Saved(k, l, entries)[o].complete = l[o].complete
      /\ Saved(k, l, entries)[o].deleted = l[o].deleted
      /\ Saved(k, l, entries)[o].born = l[o].born
  BY <1>2, <1>3 DEF Record
<1>5. DOMAIN Saved(k, l, entries)[o].refs = there
  BY <1>4
<1>6. QED BY <1>1, <1>4, <1>5

\* A list is saved: what a reference loses was not sound.
LEMMA SaveKeeps ==
    ASSUME Inv, NEW k \in Kinds, Save(k)
    PROVE  Tidy' /\ Catalogue' /\ Copies' /\ Ordered' /\ SavedAsAcknowledged'
<1> USE DEF store, counts
<1>s. PICK saved : saved = Saved(k, shadow[k], entries)
  OBVIOUS
<1>a. born \in Nat /\ AreLists(shadow, born) /\ AreLists(live, born) /\ AreLists(files, born)
  BY BoundsAssumption DEF Inv, TypeOK
<1>b. /\ DOMAIN saved = {o \in DOMAIN shadow[k] : shadow[k][o].complete /\ ~shadow[k][o].deleted}
      /\ \A o \in DOMAIN saved :
            /\ saved[o].complete = shadow[k][o].complete /\ saved[o].deleted = shadow[k][o].deleted
            /\ saved[o].born = shadow[k][o].born
            /\ DOMAIN saved[o].refs \subseteq DOMAIN shadow[k][o].refs
            /\ \A x \in DOMAIN shadow[k][o].refs \ DOMAIN saved[o].refs : Refers(k) /\ ~InUse(Target(k), x)
  <2>1. IsList(shadow[k], born)
    BY <1>a DEF AreLists
  <2>2. DOMAIN saved = {o \in DOMAIN shadow[k] : shadow[k][o].complete /\ ~shadow[k][o].deleted}
    BY <1>s DEF Saved
  <2>3. ASSUME NEW o \in DOMAIN saved
        PROVE  /\ saved[o].complete = shadow[k][o].complete /\ saved[o].deleted = shadow[k][o].deleted
               /\ saved[o].born = shadow[k][o].born
               /\ DOMAIN saved[o].refs \subseteq DOMAIN shadow[k][o].refs
               /\ \A x \in DOMAIN shadow[k][o].refs \ DOMAIN saved[o].refs : Refers(k) /\ ~InUse(Target(k), x)
    BY <1>a, <1>s, <2>1, SavedRefs
  <2>4. QED BY <2>2, <2>3
<1>c. /\ holder \in {"edit", "import"} /\ k \in editing \ done
      /\ k = "cards" /\ "groups" \in editing => "groups" \in done
      /\ files' = [files EXCEPT ![k] = saved] /\ done' = done \cup {k} /\ unsaved' = unsaved \ {k}
      /\ UNCHANGED <<live, entries, holder, editing, shadow, job, archives, undone>>
  BY <1>s DEF Save
<1>d. \A j \in Kinds : files'[j] = IF j = k THEN saved ELSE files[j]
  BY <1>a, <1>c DEF AreLists
<1>1. Tidy'
  <2>1. Tidied(saved)
    BY <1>b DEF Tidied
  <2>2. \A j \in Kinds : Tidied(files'[j])
    BY <1>d, <2>1 DEF Inv, Tidy
  <2>3. QED BY <1>c, <2>2 DEF Inv, Tidy, Tidied
<1>2. Catalogue' /\ Copies'
  BY <1>c DEF Inv, Catalogue, Copies, InHand, Working, InUse, Known, IsCopy, Unmeant
<1>3. Ordered'
  BY <1>c DEF Inv, Ordered, TypeOK
<1>4. \A j \in Kinds : j # k => Current(j)' = Current(j)
  BY <1>c DEF Current
<1>5. Current(k)' = shadow[k] /\ Current(k) = live[k]
  BY <1>c DEF Current
<1>6. Faithful(k)'
  <2>1. ASSUME NEW o \in DOMAIN saved, NEW x \in DOMAIN shadow[k][o].refs \ DOMAIN saved[o].refs, NEW ref
        PROVE  ~Sound(k, ref, x)'
    <3>1. Refers(k) /\ ~InUse(Target(k), x)
      BY <1>b
    <3>2. Target(k) \in Kinds /\ Target(k) # k
      BY <3>1, KindsAssumption DEF Refers, Target
    <3>3. Current(Target(k)) = Working(Target(k))
      BY <1>c, <3>2 DEF Current, Working, InHand, Target, Inv, Ordered, TypeOK
    <3>4. Current(Target(k))' = Working(Target(k))
      BY <1>4, <3>2, <3>3
    <3>5. x \in DOMAIN Working(Target(k)) /\ ~Working(Target(k))[x].deleted => x \in undone[Target(k)]
      BY <3>1, <3>2 DEF Inv, Catalogue
    <3>6. QED BY <1>c, <3>1, <3>4, <3>5 DEF Sound
  <2>2. files'[k] = saved
    BY <1>d
  <2>3. \A o \in DOMAIN saved : \A x \in DOMAIN shadow[k][o].refs \ DOMAIN saved[o].refs : \A ref : ~Sound(k, ref, x)'
    BY <2>1
  <2>4. \A o \in DOMAIN saved : DOMAIN saved[o].refs \subseteq DOMAIN shadow[k][o].refs
    BY <1>b
  <2>5. QED BY <1>b, <1>5, <2>2, <2>3, <2>4 DEF Faithful
<1>7. ASSUME NEW j \in Kinds \ unsaved, j # k PROVE Faithful(j)'
  <2>1. Faithful(j) /\ files'[j] = files[j] /\ Current(j)' = Current(j)
    BY <1>4, <1>7, <1>d DEF Inv, SavedAsAcknowledged
  <2>2. CASE Refers(j) /\ Target(j) = k
    <3>1. Current(j) = live[j]
      BY <1>c, <2>2 DEF Current, Target, Inv, Ordered, TypeOK
    <3>2. IsCopy(k)
      BY <1>c DEF Inv, Copies, InHand
    <3>3. ASSUME NEW o \in DOMAIN live[j], NEW x \in DOMAIN live[j][o].refs, NEW ref,
                 ref = live[j][o].refs[x], Sound(j, ref, x)'
          PROVE  Sound(j, ref, x)
      <4>1. x \in DOMAIN shadow[k] /\ ~shadow[k][x].deleted /\ shadow[k][x].born = ref
            /\ x \notin undone[k]
        BY <1>c, <1>5, <2>2, <3>3 DEF Sound
      <4>2. x \in DOMAIN live[k]
        BY <2>2, <3>2, <3>3, <4>1 DEF IsCopy, Unmeant
      <4>3. ~live[k][x].deleted /\ live[k][x].born = ref
        BY <3>2, <4>1, <4>2 DEF IsCopy
      <4>4. QED BY <1>5, <2>2, <4>1, <4>2, <4>3 DEF Sound
    <3>4. \A o \in DOMAIN live[j] : \A x \in DOMAIN live[j][o].refs : \A ref :
             ref = live[j][o].refs[x] /\ Sound(j, ref, x)' => Sound(j, ref, x)
      BY <3>3
    <3>5. QED BY <2>1, <3>1, <3>4 DEF Faithful
  <2>3. CASE ~(Refers(j) /\ Target(j) = k)
    <3>1. \A ref, x : Sound(j, ref, x)' = Sound(j, ref, x)
      BY <1>c, <1>4, <2>3 DEF Sound, Refers
    <3>2. QED BY <2>1, <3>1 DEF Faithful
  <2>4. QED BY <2>2, <2>3
<1>8. SavedAsAcknowledged'
  BY <1>c, <1>6, <1>7 DEF SavedAsAcknowledged
<1>9. QED BY <1>1, <1>2, <1>3, <1>8

\* The copies are swapped in.
LEMMA CommitKeeps ==
    ASSUME Inv, Commit
    PROVE  Tidy' /\ Catalogue' /\ Copies' /\ Ordered' /\ SavedAsAcknowledged'
<1> USE DEF store, counts
<1>1. \A k \in Kinds : live'[k] = Working(k) /\ Current(k)' = Current(k) /\ Working(k)' = Working(k)
  BY DEF Commit, Current, Working, InHand
<1>2. SavedAsAcknowledged'
  BY <1>1, SavedStays DEF Commit, Inv
<1>3. Catalogue'
  BY <1>1 DEF Commit, Inv, Catalogue, InUse, Known
<1>4. Tidy' /\ Copies' /\ Ordered'
  BY DEF Commit, Inv, Tidy, Tidied, Copies, InHand, Ordered
<1>5. QED BY <1>2, <1>3, <1>4

\* The copies are dropped: what the catalogue lost with them is remembered in undone.
LEMMA RefuseKeeps ==
    ASSUME Inv, Refuse
    PROVE  Tidy' /\ Catalogue' /\ Copies' /\ Ordered' /\ SavedAsAcknowledged'
<1> USE DEF store, counts
<1>a. /\ holder \in {"edit", "import"} /\ done # editing /\ holder' = "none"
      /\ unsaved' = unsaved \cup done
      /\ UNCHANGED <<live, files, entries, job, archives>>
      /\ \A k \in Kinds : undone'[k] = IF k \in editing
                                       THEN undone[k] \cup (Deleted(shadow[k]) \ Deleted(live[k]))
                                       ELSE undone[k]
  BY DEF Refuse
<1>b. \A k \in Kinds : Working(k)' = live[k] /\ Current(k)' = live[k]
  BY <1>a DEF Working, InHand, Current
<1>c. ASSUME NEW k \in Kinds, k \in editing, NEW o \in DOMAIN live[k], ~live[k][o].deleted, o \notin undone'[k]
      PROVE  /\ o \in DOMAIN shadow[k] /\ ~shadow[k][o].deleted
             /\ shadow[k][o].born = live[k][o].born /\ o \notin undone[k]
  <2>1. IsCopy(k)
    BY <1>a, <1>c DEF Inv, Copies, InHand
  <2>2. QED BY <1>a, <1>c, <2>1 DEF IsCopy, Deleted
<1>1. Catalogue'
  <2> SUFFICES ASSUME NEW k \in Kinds, NEW o \in DOMAIN live[k], ~live[k][o].deleted, o \notin undone'[k]
               PROVE  InUse(k, o)
    BY <1>a, <1>b DEF Catalogue, InUse, Known
  <2>1. CASE k \in editing
    BY <1>a, <1>c, <2>1 DEF Inv, Catalogue, Working, InHand
  <2>2. CASE k \notin editing
    BY <1>a, <2>2 DEF Inv, Catalogue, Working, InHand
  <2>3. QED BY <2>1, <2>2
<1>2. ASSUME NEW k \in Kinds \ (unsaved \cup done) PROVE Faithful(k)'
  <2>1. Faithful(k) /\ Current(k) = live[k] /\ Current(k)' = live[k] /\ files' = files
    BY <1>a, <1>b, <1>2 DEF Inv, SavedAsAcknowledged, Current
  <2>2. ASSUME NEW ref, NEW x, Refers(k), Sound(k, ref, x)' PROVE Sound(k, ref, x)
    <3>1. Target(k) \in Kinds
      BY <2>2 DEF Refers
    <3>2. /\ x \in DOMAIN live[Target(k)] /\ ~live[Target(k)][x].deleted
          /\ live[Target(k)][x].born = ref /\ x \notin undone'[Target(k)]
      BY <1>b, <2>2, <3>1 DEF Sound
    <3>3. CASE Target(k) \in editing
      BY <1>c, <3>1, <3>2, <3>3 DEF Sound, Current
    <3>4. CASE Target(k) \notin editing
      BY <1>a, <3>1, <3>2, <3>4 DEF Sound, Current, Inv, TypeOK
    <3>5. QED BY <3>3, <3>4
  <2>3. \A ref, x : Sound(k, ref, x)' => Sound(k, ref, x)
    BY <2>2 DEF Sound
  <2>4. QED BY <2>1, <2>3 DEF Faithful
<1>3. SavedAsAcknowledged'
  BY <1>a, <1>2 DEF SavedAsAcknowledged
<1>4. Tidy' /\ Copies' /\ Ordered'
  BY <1>a DEF Inv, Tidy, Tidied, Copies, InHand, Ordered
<1>5. QED BY <1>1, <1>3, <1>4

\* A request takes the lock and copies the lists.
LEMMA BeginKeeps ==
    ASSUME Inv, (\E k \in Kinds : Begin(k)) \/ BeginImport
    PROVE  Tidy' /\ Catalogue' /\ Copies' /\ Ordered' /\ SavedAsAcknowledged'
<1> USE DEF store
<1>a. /\ holder = "none" /\ holder' \in {"edit", "import"} /\ shadow' = live /\ done' = {}
      /\ UNCHANGED <<live, files, entries, archives, undone, unsaved>>
  BY DEF Begin, BeginImport, Free
<1>1. job' = job \/ DOMAIN job'.copied = {}
  BY DEF Begin, BeginImport, NoJob
<1>2. Tidy'
  BY <1>a, <1>1 DEF Inv, Tidy, Tidied
<1>3. \A k \in Kinds : Working(k)' = Working(k) /\ Current(k)' = Current(k)
  BY <1>a DEF Working, InHand, Current
<1>4. Catalogue'
  BY <1>a, <1>3 DEF Inv, Catalogue, InUse, Known
<1>5. Copies'
  BY <1>a DEF Copies, IsCopy
<1>6. Ordered'
  BY DEF Begin, BeginImport, Ordered
<1>7. SavedAsAcknowledged'
  BY <1>a, <1>3, SavedStays DEF Inv
<1>8. QED BY <1>2, <1>4, <1>5, <1>6, <1>7

\* The worker takes a deleted record out of a list.
LEMMA SweepKeeps ==
    ASSUME Inv, NEW k \in Kinds, NEW o \in OIDs, Sweep(k, o)
    PROVE  Tidy' /\ Catalogue' /\ Copies' /\ Ordered' /\ SavedAsAcknowledged'
<1> USE DEF request, counts
<1>a. /\ o \in DOMAIN live[k] /\ live[k][o].deleted
      /\ UNCHANGED <<files, entries, holder, editing, shadow, done, job, archives, undone, unsaved>>
  BY DEF Sweep, Deleted
<1>b. \A j \in Kinds : j # k => live'[j] = live[j]
  BY DEF Sweep, Inv, TypeOK, AreLists
<1>c. DOMAIN live'[k] = DOMAIN live[k] \ {o} /\ \A x \in DOMAIN live'[k] : live'[k][x] = live[k][x]
  BY DEF Sweep, Inv, TypeOK, AreLists, Without
<1>d. \A j \in Kinds : \A x \in DOMAIN live'[j] : x \in DOMAIN live[j] /\ live'[j][x] = live[j][x]
  BY <1>b, <1>c
<1>1. Tidy' /\ Ordered'
  BY <1>a DEF Inv, Tidy, Tidied, Ordered
<1>2. Catalogue'
  BY <1>a, <1>d DEF Inv, Catalogue, Working, InHand, InUse, Known
<1>3. Copies'
  <2> SUFFICES ASSUME NEW j \in Kinds, InHand(j) PROVE IsCopy(j)'
    BY <1>a DEF Copies, InHand
  <2>1. IsCopy(j)
    BY DEF Inv, Copies
  <2>2. ASSUME NEW x, NEW n, Unmeant(j, x, n) PROVE Unmeant(j, x, n)'
    BY <1>d, <2>2 DEF Unmeant
  <2>3. ASSUME NEW x \in DOMAIN shadow[j] \ DOMAIN live'[j]
        PROVE  shadow[j][x].deleted \/ Unmeant(j, x, shadow[j][x].born)
    BY <1>a, <1>b, <1>c, <2>1, <2>3 DEF IsCopy
  <2>4. ASSUME NEW x \in DOMAIN shadow[j] \ DOMAIN live'[j], NEW n, n = shadow[j][x].born
        PROVE  shadow[j][x].deleted \/ Unmeant(j, x, n)'
    BY <2>2, <2>3, <2>4
  <2>5. QED BY <1>a, <1>d, <2>1, <2>4 DEF IsCopy
<1>4. ASSUME NEW j \in Kinds \ unsaved PROVE Faithful(j)'
  <2>1. Faithful(j)
    BY <1>4 DEF Inv, SavedAsAcknowledged
  <2>2. \A h \in Kinds : \A x \in DOMAIN Current(h)' : x \in DOMAIN Current(h) /\ Current(h)'[x] = Current(h)[x]
    BY <1>a, <1>d DEF Current
  <2>3. \A h \in Kinds : \A x \in DOMAIN Current(h) \ DOMAIN Current(h)' : Current(h)[x].deleted
    BY <1>a, <1>b, <1>c DEF Current
  <2>4. \A ref, x : Sound(j, ref, x)' => Sound(j, ref, x)
    BY <1>a, <2>2 DEF Sound, Refers
  <2>5. DOMAIN files'[j] = {x \in DOMAIN Current(j)' : Current(j)'[x].complete /\ ~Current(j)'[x].deleted}
    BY <1>a, <2>1, <2>2, <2>3 DEF Faithful
  <2>6. QED BY <1>a, <2>1, <2>2, <2>4, <2>5 DEF Faithful
<1>5. SavedAsAcknowledged'
  BY <1>a, <1>4 DEF SavedAsAcknowledged
<1>6. QED BY <1>1, <1>2, <1>3, <1>5

\* The process starts, from the files f of at most n records.
Started(n, f) ==
    /\ AreLists(f, n) /\ \A k \in Kinds : Tidied(f[k])
    /\ live = f /\ files = LevelsSaved(f) /\ entries = Tables(f) /\ holder = "none"

StartsWell ==
    \A n \in Nat : \A f :
        Started(n, f) => (\A k \in Kinds : Tidied(files[k])) /\ Catalogue /\ \A k \in Kinds : Faithful(k)

LEMMA LoadedIsTidy == StartsWell
<1> SUFFICES ASSUME NEW n \in Nat, NEW f, Started(n, f)
             PROVE  (\A k \in Kinds : Tidied(files[k])) /\ Catalogue /\ \A k \in Kinds : Faithful(k)
  BY DEF StartsWell
<1> USE DEF Started
<1>1. \A k \in Kinds : IsList(f[k], n)
  BY DEF AreLists
<1>2. \A k \in Kinds : Working(k) = f[k] /\ Current(k) = f[k]
  BY DEF Working, InHand, Current
<1>3. \A k \in Kinds : DOMAIN entries[k] = DOMAIN f[k] /\ \A o \in DOMAIN f[k] : entries[k][o]
  BY DEF Tables, Catalogued
<1>4. Catalogue
  BY <1>2, <1>3 DEF Catalogue, InUse, Known
<1>5. ASSUME NEW k \in Kinds
      PROVE  /\ DOMAIN files[k] = DOMAIN f[k]
             /\ \A o \in DOMAIN f[k] :
                   /\ files[k][o].complete = f[k][o].complete /\ files[k][o].deleted = f[k][o].deleted
                   /\ files[k][o].born = f[k][o].born
                   /\ DOMAIN files[k][o].refs \subseteq DOMAIN f[k][o].refs
                   /\ \A x \in DOMAIN f[k][o].refs \ DOMAIN files[k][o].refs :
                         Refers(k) /\ x \notin DOMAIN f[Target(k)]
  <2>1. CASE k # "groups"
    BY <2>1 DEF LevelsSaved
  <2>2. CASE k = "groups"
    <3>1. files[k] = Saved(k, f[k], Tables(f))
      BY <2>2 DEF LevelsSaved
    <3>2. DOMAIN files[k] = DOMAIN f[k]
      BY <3>1 DEF Saved, Tidied
    <3>3. ASSUME NEW o \in DOMAIN f[k]
          PROVE  /\ files[k][o].complete = f[k][o].complete /\ files[k][o].deleted = f[k][o].deleted
                 /\ files[k][o].born = f[k][o].born
                 /\ DOMAIN files[k][o].refs \subseteq DOMAIN f[k][o].refs
                 /\ \A x \in DOMAIN f[k][o].refs \ DOMAIN files[k][o].refs :
                       Refers(k) /\ x \notin DOMAIN f[Target(k)]
      <4>1. PICK there : there = {x \in DOMAIN f[k][o].refs :
                Refers(k) => x \in DOMAIN Tables(f)[Target(k)] /\ Tables(f)[Target(k)][x]}
        OBVIOUS
      <4>2. files[k][o] = [f[k][o] EXCEPT !.refs = [x \in there |-> f[k][o].refs[x]]]
        BY <3>1, <3>2, <4>1, Zenon DEF Saved
      <4>3. f[k][o] \in Record(n)
        BY <1>1 DEF IsList
      <4>4. /\ files[k][o].complete = f[k][o].complete /\ files[k][o].deleted = f[k][o].deleted
            /\ files[k][o].born = f[k][o].born
            /\ files[k][o].refs = [x \in there |-> f[k][o].refs[x]]
        BY <4>2, <4>3 DEF Record
      <4>5. ASSUME Refers(k), NEW x \in DOMAIN f[Target(k)]
            PROVE  x \in DOMAIN Tables(f)[Target(k)] /\ Tables(f)[Target(k)][x]
        BY <4>5 DEF Refers, Tables, Catalogued
      <4>6. \A x \in DOMAIN f[k][o].refs \ there : Refers(k) /\ x \notin DOMAIN f[Target(k)]
        BY <4>1, <4>5
      <4>7. DOMAIN files[k][o].refs = there
        BY <4>4
      <4>8. QED BY <4>1, <4>4, <4>6, <4>7
    <3>4. QED BY <3>2, <3>3
  <2>3. QED BY <2>1, <2>2
<1>6. \A k \in Kinds : Tidied(files[k])
  BY <1>5 DEF Tidied
<1>7. ASSUME NEW k \in Kinds PROVE Faithful(k)
  <2>1. \A x : Refers(k) /\ x \notin DOMAIN f[Target(k)] => \A ref : ~Sound(k, ref, x)
    BY <1>2 DEF Sound, Refers
  <2>2. \A o \in DOMAIN f[k] : f[k][o].complete /\ ~f[k][o].deleted
    BY DEF Tidied
  <2>3. QED BY <1>2, <1>5, <2>1, <2>2 DEF Faithful
<1>8. QED BY <1>4, <1>6, <1>7

LEMMA RestartKeeps ==
    ASSUME Inv, Restart
    PROVE  Tidy' /\ Catalogue' /\ Copies' /\ Ordered' /\ SavedAsAcknowledged'
<1>1. PICK f : f = files
  OBVIOUS
<1>2. born \in Nat /\ AreLists(f, born) /\ \A k \in Kinds : Tidied(f[k])
  BY <1>1, BoundsAssumption DEF Inv, TypeOK, Tidy
<1>3. live' = f /\ files' = LevelsSaved(f) /\ entries' = Tables(f) /\ holder' = "none"
  BY <1>1 DEF Restart
<1>4. (\A k \in Kinds : Tidied(files'[k])) /\ Catalogue' /\ \A k \in Kinds : Faithful(k)'
  <2>1. StartsWell'
    BY LoadedIsTidy, PTL
  <2>2. Started(born, f)'
    BY <1>2, <1>3 DEF Started, Restart
  <2>3. born' \in Nat
    BY <1>2 DEF Restart
  <2>4. QED BY <2>1, <2>2, <2>3 DEF StartsWell
<1>5. Tidy'
  <2>1. \A k \in DOMAIN job'.copied : Tidied(job'.copied[k])
    BY DEF Restart, NoJob
  <2>2. archives' = archives /\ holder' # "restore"
    BY <1>3 DEF Restart
  <2>3. QED BY <1>4, <2>1, <2>2 DEF Inv, Tidy, Tidied
<1>6. Copies' /\ Ordered' /\ SavedAsAcknowledged'
  BY <1>3, <1>4 DEF Copies, InHand, Ordered, SavedAsAcknowledged
<1>7. QED BY <1>4, <1>5, <1>6

LEMMA InitKeeps ==
    ASSUME Init PROVE Tidy /\ Catalogue /\ Copies /\ Ordered /\ SavedAsAcknowledged
<1>1. AreLists(InitialFiles, Existing) /\ \A k \in Kinds : Tidied(InitialFiles[k])
  BY InitialAssumption DEF Tidied
<1>2. Started(Existing, InitialFiles) /\ Existing \in Nat
  BY <1>1, BoundsAssumption DEF Init, Started
<1>3. (\A k \in Kinds : Tidied(files[k])) /\ Catalogue /\ \A k \in Kinds : Faithful(k)
  BY <1>2, LoadedIsTidy DEF StartsWell
<1>4. \A a \in archives : \A k \in Kinds : Tidied(a[k])
  BY InitialAssumption DEF Init, Tidied
<1>5. holder = "none" /\ DOMAIN job.copied = {}
  BY DEF Init, NoJob
<1>6. QED BY <1>3, <1>4, <1>5 DEF Tidy, Copies, InHand, Ordered, SavedAsAcknowledged

\* A request edits its copies.
LEMMA RequestKeeps ==
    ASSUME Inv,
           NEW k \in Kinds, NEW o \in OIDs, NEW x \in OIDs,
           \/ Create(k) \/ Complete(k, o) \/ Delete(k, o) \/ Link(k, o, x) \/ Unlink(k, o, x)
           \/ ImportLevel \/ ImportNew(x) \/ ImportOver(o, x)
    PROVE  Tidy' /\ Catalogue' /\ Copies' /\ Ordered' /\ SavedAsAcknowledged'
<1> USE DEF store, counts
<1>a. /\ holder \in {"edit", "import"} /\ done = {}
      /\ UNCHANGED <<live, files, holder, editing, done, job, archives, undone, unsaved>>
  BY DEF Create, Complete, Delete, Link, Unlink, ImportLevel, ImportNew, ImportOver, Edit
<1>b. Tidy' /\ Ordered' /\ SavedAsAcknowledged'
  BY <1>a, EditingKeeps DEF Inv
<1>c. born \in Nat /\ TypeOK /\ Catalogue /\ Copies
  BY BoundsAssumption DEF Inv, TypeOK
<1>1. CASE Create(k)
  <2>1. Blank(born + 1) \in Record(born + 1) /\ Blank(born + 1).born = born + 1
    BY <1>c, BlankIsRecord DEF Blank
  <2>2. Add(k, Blank(born + 1)) /\ InHand(k)
    BY <1>1 DEF Create, InHand
  <2>3. QED BY <1>a, <1>b, <1>c, <2>1, <2>2, AddKeeps
<1>2. ASSUME NEW r, Edit(k, o, r), r.born = shadow[k][o].born, shadow[k][o].deleted => r.deleted,
             \A j \in Kinds : \A y : InUse(j, y) => InUse(j, y)' \/ (j = k /\ y = o /\ r.deleted)
      PROVE  Catalogue' /\ Copies'
  <2>1. InHand(k) /\ o \in DOMAIN shadow[k] /\ shadow' = [shadow EXCEPT ![k] = [shadow[k] EXCEPT ![o] = r]]
    BY <1>c, <1>2 DEF Edit, InHand, TypeOK, AreLists
  <2>2. QED BY <1>a, <1>c, <1>2, <2>1, EditKeeps
<1>e. ASSUME o \in DOMAIN shadow[k]
      PROVE  shadow[k][o] \in Record(born)
  BY <1>c, <1>e, TypedRecords DEF TypeOK
<1>3. CASE Complete(k, o)
  <2> DEFINE r == [shadow[k][o] EXCEPT !.complete = TRUE]
  <2>1. Edit(k, o, r) /\ entries' = entries
    BY <1>3 DEF Complete
  <2>2. r.born = shadow[k][o].born /\ r.deleted = shadow[k][o].deleted
    BY <1>e, <2>1 DEF Record, Edit
  <2>3. \A j \in Kinds : \A y : InUse(j, y) => InUse(j, y)'
    BY <2>1 DEF InUse, Known
  <2> HIDE DEF r
  <2>4. QED BY <1>b, <1>2, <2>1, <2>2, <2>3
<1>4. CASE Delete(k, o)
  <2> DEFINE r == [shadow[k][o] EXCEPT !.deleted = TRUE]
  <2>1. Edit(k, o, r)
    BY <1>4 DEF Delete
  <2>2. r.born = shadow[k][o].born /\ r.deleted
    BY <1>e, <2>1 DEF Record, Edit
  <2>3. \A j \in Kinds : \A y : (j # k \/ y # o) => (InUse(j, y) => InUse(j, y)')
    BY <1>4, <1>c DEF Delete, InUse, Known, TypeOK
  <2> HIDE DEF r
  <2>4. QED BY <1>b, <1>2, <2>1, <2>2, <2>3
<1>5. CASE Link(k, o, x) \/ Unlink(k, o, x)
  <2>1. PICK refs : Edit(k, o, [shadow[k][o] EXCEPT !.refs = refs]) /\ entries' = entries
    BY <1>5 DEF Link, Unlink
  <2> DEFINE r == [shadow[k][o] EXCEPT !.refs = refs]
  <2>2. r.born = shadow[k][o].born /\ r.deleted = shadow[k][o].deleted
    BY <1>e, <2>1 DEF Record, Edit
  <2>3. \A j \in Kinds : \A y : InUse(j, y) => InUse(j, y)'
    BY <2>1 DEF InUse, Known
  <2>4. Edit(k, o, r)
    BY <2>1
  <2> HIDE DEF r
  <2>5. QED BY <1>b, <1>2, <2>2, <2>3, <2>4
<1>i. ASSUME holder = "import"
      PROVE  {"groups", "cards"} \subseteq Kinds /\ InHand("groups") /\ InHand("cards")
  BY <1>c, <1>i DEF TypeOK, InHand
<1>6. CASE ImportLevel
  <2>1. PICK refs : Add("groups", [complete |-> TRUE, deleted |-> FALSE, born |-> born + 1, refs |-> refs])
    BY <1>6 DEF ImportLevel
  <2> DEFINE r == [complete |-> TRUE, deleted |-> FALSE, born |-> born + 1, refs |-> refs]
  <2>2. Add("groups", r) /\ r.born = born + 1
    BY <2>1
  <2> HIDE DEF r
  <2>3. InHand("groups") /\ "groups" \in Kinds
    BY <1>i, <1>6 DEF ImportLevel
  <2>4. QED BY <1>a, <1>b, <1>c, <2>2, <2>3, AddKeeps
<1>7. CASE ImportNew(x)
  <2> DEFINE r == [complete |-> TRUE, deleted |-> FALSE, born |-> born + 1, refs |-> With(<<>>, x, MeantHere(x))]
  <2>1. Add("cards", r) /\ r.born = born + 1
    BY <1>7 DEF ImportNew
  <2> HIDE DEF r
  <2>2. InHand("cards") /\ "cards" \in Kinds
    BY <1>i, <1>7 DEF ImportNew
  <2>3. QED BY <1>a, <1>b, <1>c, <2>1, <2>2, AddKeeps
<1>8. CASE ImportOver(o, x)
  <2>1. "cards" \in Kinds /\ InHand("cards") /\ o \in DOMAIN shadow["cards"] /\ entries' = entries
    BY <1>i, <1>8 DEF ImportOver
  <2>2. shadow["cards"][o] \in Record(born)
    BY <1>c, <2>1, TypedRecords DEF TypeOK
  <2>3. PICK r : r = Merged(shadow["cards"][o], x)
    OBVIOUS
  <2>4. r.born = shadow["cards"][o].born /\ r.deleted = shadow["cards"][o].deleted
    BY <2>2, <2>3 DEF Merged, Record
  <2>5. shadow' = [shadow EXCEPT !["cards"] = [shadow["cards"] EXCEPT ![o] = r]]
    BY <1>8, <2>3 DEF ImportOver
  <2>6. \A j \in Kinds : \A y : InUse(j, y) => InUse(j, y)'
    BY <2>1 DEF InUse, Known
  <2>7. QED BY <1>a, <1>b, <1>c, <2>1, <2>4, <2>5, <2>6, EditKeeps
<1>9. QED
  BY <1>1, <1>3, <1>4, <1>5, <1>6, <1>7, <1>8

\* Backups and restores.
LEMMA JobKeeps ==
    ASSUME Inv,
           \/ \E k \in Kinds : Copy(k) \/ Restore(k)
           \/ AbandonJob \/ BeginRestore \/ EndRestore \/ UNCHANGED vars
           \/ \E what \in {"backup", "restore", "import"} : \E from \in archives \cup {<<>>} : StartJob(what, from)
    PROVE  Tidy' /\ Catalogue' /\ Copies' /\ Ordered' /\ SavedAsAcknowledged'
<1> USE DEF store, request, counts
<1>a. UNCHANGED <<live, entries, undone>> /\ unsaved \subseteq unsaved'
  BY DEF Copy, Restore, AbandonJob, BeginRestore, EndRestore, StartJob, vars
<1>b. \/ UNCHANGED <<holder, editing, shadow, done>>
      \/ holder \in {"none", "restore"} /\ holder' \in {"none", "restore"}
  BY DEF Copy, Restore, AbandonJob, BeginRestore, EndRestore, StartJob, vars, Free
<1>1. \A j \in Kinds : Working(j)' = Working(j) /\ Current(j)' = Current(j) /\ InHand(j)' = InHand(j)
  BY <1>b, <1>a DEF Working, InHand, Current
<1>2. Catalogue'
  BY <1>a, <1>1 DEF Inv, Catalogue, InUse, Known
<1>3. Copies'
  BY <1>a, <1>b DEF Inv, Copies, InHand, IsCopy, Unmeant
<1>4. Ordered'
  BY <1>b DEF Inv, Ordered
<1>5. ASSUME NEW k \in Kinds, Restore(k)
      PROVE  Tidy' /\ Catalogue' /\ Copies' /\ Ordered' /\ SavedAsAcknowledged'
  <2>1. /\ holder = "restore" /\ unsaved' = unsaved \cup {k} /\ files' = [files EXCEPT ![k] = shadow[k]]
        /\ UNCHANGED <<holder, shadow, job, archives>>
    BY <1>5 DEF Restore
  <2>2. \A j \in Kinds : files'[j] = IF j = k THEN shadow[k] ELSE files[j]
    BY <2>1 DEF Inv, TypeOK, AreLists
  <2>3. Tidy'
    BY <2>1, <2>2 DEF Inv, Tidy, Tidied
  <2>4. ASSUME NEW j \in Kinds \ unsaved, j # k PROVE Faithful(j)'
    <3>1. Faithful(j) /\ files'[j] = files[j] /\ Current(j)' = Current(j)
      BY <1>1, <2>2, <2>4 DEF Inv, SavedAsAcknowledged
    <3>2. \A ref, x : Sound(j, ref, x)' = Sound(j, ref, x)
      BY <1>a, <1>1 DEF Sound, Refers
    <3>3. QED BY <3>1, <3>2 DEF Faithful
  <2>5. SavedAsAcknowledged'
    BY <2>1, <2>4 DEF SavedAsAcknowledged
  <2>6. QED BY <1>2, <1>3, <1>4, <2>3, <2>5
<1>6. ASSUME files' = files PROVE SavedAsAcknowledged'
  BY <1>a, <1>1, <1>6, SavedStays DEF Inv
<1>7. ASSUME NEW k \in Kinds, Copy(k)
      PROVE  Tidy' /\ Catalogue' /\ Copies' /\ Ordered' /\ SavedAsAcknowledged'
  <2>1. PICK copied : copied = With(job.copied, k, files[k])
    OBVIOUS
  <2>2. \A j \in DOMAIN copied : Tidied(copied[j])
    BY <2>1 DEF With, Inv, Tidy
  <2>3. \/ /\ DOMAIN copied = Kinds /\ archives' = archives \cup {copied}
           /\ job' = NoJob \/ job' = [job EXCEPT !.copied = copied]
        \/ archives' = archives /\ job' = [job EXCEPT !.copied = copied]
    BY <1>7, <2>1 DEF Copy
  <2>4. DOMAIN job'.copied = {} \/ job'.copied = copied
    BY <2>3 DEF NoJob, Inv, TypeOK
  <2>5. \A a \in archives' : \A j \in Kinds : Tidied(a[j])
    BY <2>2, <2>3 DEF Inv, Tidy
  <2>6. files' = files /\ holder' = holder /\ shadow' = shadow
    BY <1>7 DEF Copy
  <2>7. Tidy'
    BY <2>2, <2>4, <2>5, <2>6 DEF Inv, Tidy, Tidied
  <2>8. QED BY <1>2, <1>3, <1>4, <1>6, <2>6, <2>7
<1>8. CASE BeginRestore
  <2>1. /\ shadow' = job.from /\ job.from \in archives /\ DOMAIN job'.copied = {}
        /\ UNCHANGED <<files, archives>>
    BY <1>8 DEF BeginRestore, NoJob, Inv, TypeOK
  <2>2. Tidy'
    BY <2>1 DEF Inv, Tidy, Tidied
  <2>3. QED BY <1>2, <1>3, <1>4, <1>6, <2>1, <2>2
<1>9. CASE \/ AbandonJob \/ EndRestore \/ UNCHANGED vars
           \/ \E what \in {"backup", "restore", "import"} : \E from \in archives \cup {<<>>} : StartJob(what, from)
  <2>1. /\ UNCHANGED <<files, archives>>
        /\ job' = job \/ DOMAIN job'.copied = {}
        /\ holder' = "none" \/ UNCHANGED <<holder, shadow>>
    BY <1>9 DEF AbandonJob, EndRestore, StartJob, vars, NoJob
  <2>a. \A j \in DOMAIN job'.copied : job' = job
    BY <2>1
  <2>2. Tidy'
    BY <2>1, <2>a DEF Inv, Tidy, Tidied
  <2>3. QED BY <1>2, <1>3, <1>4, <1>6, <2>1, <2>2
<1>10. QED BY <1>5, <1>7, <1>8, <1>9

LEMMA InvInit == Init => Inv
  BY InitKeeps, InitTyped DEF Inv

LEMMA InvNext == Inv /\ [Next]_vars => Inv'
<1> SUFFICES ASSUME Inv, [Next]_vars PROVE Inv'
  OBVIOUS
<1>1. TypeOK'
  BY NextTyped DEF Inv
<1> DEFINE Rest == Tidy /\ Catalogue /\ Copies /\ Ordered /\ SavedAsAcknowledged
<1>2. ASSUME NEW k \in Kinds, Begin(k) \/ Save(k) \/ Copy(k) \/ Restore(k) PROVE Rest'
  BY <1>2, BeginKeeps, SaveKeeps, JobKeeps
<1>3. ASSUME NEW k \in Kinds, NEW o \in OIDs, NEW x \in OIDs,
             \/ Create(k) \/ Complete(k, o) \/ Delete(k, o) \/ Link(k, o, x) \/ Unlink(k, o, x)
             \/ ImportLevel \/ ImportNew(x) \/ ImportOver(o, x)
      PROVE  Rest'
  BY <1>3, RequestKeeps
<1>4. ASSUME ImportLevel PROVE Rest'
  <2>1. "groups" \in Kinds
    BY <1>4 DEF ImportLevel, Inv, TypeOK
  <2>2. NewOID("groups") \in OIDs
    BY <1>4 DEF ImportLevel, Add
  <2>3. QED BY <1>3, <1>4, <2>1, <2>2
<1>5. ASSUME NEW o \in OIDs, NEW x \in OIDs, ImportNew(x) \/ ImportOver(o, x) PROVE Rest'
  <2>1. "cards" \in Kinds
    BY <1>5 DEF ImportNew, ImportOver, Inv, TypeOK
  <2>2. QED BY <1>3, <1>5, <2>1
<1>6. ASSUME NEW k \in Kinds, Create(k) PROVE Rest'
  <2>1. NewOID(k) \in OIDs
    BY <1>6 DEF Create, Add
  <2>2. QED BY <1>3, <1>6, <2>1
<1>7. ASSUME NEW k \in Kinds, NEW o \in OIDs, Complete(k, o) \/ Delete(k, o) PROVE Rest'
  BY <1>3, <1>7
<1>8. ASSUME NEW k \in Kinds, NEW o \in OIDs, Sweep(k, o) PROVE Rest'
  BY <1>8, SweepKeeps
<1>9. ASSUME BeginImport \/ Commit \/ Refuse \/ Restart PROVE Rest'
  BY <1>9, BeginKeeps, CommitKeeps, RefuseKeeps, RestartKeeps
<1>10. ASSUME \/ AbandonJob \/ BeginRestore \/ EndRestore \/ UNCHANGED vars
             \/ \E what \in {"backup", "restore", "import"} : \E from \in archives \cup {<<>>} : StartJob(what, from)
      PROVE  Rest'
  BY <1>10, JobKeeps
<1>11. Rest'
  <2> HIDE DEF Rest
  <2>1. QED BY <1>2, <1>3, <1>4, <1>5, <1>6, <1>7, <1>8, <1>9, <1>10 DEF Next, Idle
<1>12. QED BY <1>1, <1>11 DEF Inv

\* A restart at any moment brings back what was acknowledged (UpdateDoors,
\* UpdateGroups, UpdateCards and ApplyControllerImport save before they commit), for
\* any lists and any number of requests, imports, backups, restores and restarts.
THEOREM FilesFollow == Spec => []SavedAsAcknowledged
<1>1. Init => Inv
  BY InvInit
<1>2. Inv /\ [Next]_vars => Inv'
  BY InvNext
<1>3. Inv => SavedAsAcknowledged
  BY DEF Inv
<1>4. QED BY <1>1, <1>2, <1>3, PTL DEF Spec

-----------------------------------------------------------------------------
(* References keep their target: while the program runs the catalogue never *)
(* forgets an OID, so a new record gets one that nothing refers to.         *)

Below == {ss \in Nat \X Nat : ss[1] < ss[2]}

LEMMA LeastNatural ==
    ASSUME NEW S \in SUBSET Nat, S # {}
    PROVE  \E x \in S : \A y \in S : x <= y
<1>1. IsWellFoundedOn(Below, Nat)
  BY NatLessThanWellFounded DEF OpToRel, Below
<1>2. PICK x \in S : \A y \in S : ~(<<y, x>> \in Below)
  BY <1>1, WFMin
<1>3. ASSUME NEW y \in S, y < x PROVE FALSE
  <2>1. <<y, x>> \in Nat \X Nat /\ <<y, x>>[1] < <<y, x>>[2]
    BY <1>3
  <2>2. <<y, x>> \in Below
    BY <2>1 DEF Below
  <2>3. QED BY <1>2, <2>2
<1>4. \A y \in S : x <= y
  BY <1>3
<1>5. QED BY <1>4

\* table.New hands out an OID that the table has not known since the start.
LEMMA NewOIDIsUnknown ==
    ASSUME TypeOK, NEW k \in Kinds PROVE ~Known(k, NewOID(k))
<1> DEFINE free == {o \in (last[k] + 1)..(MaxOID + 1) : ~Known(k, o)}
           least(o) == ~Known(k, o) /\ \A x \in (last[k] + 1)..(o - 1) : Known(k, x)
<1>1. last[k] \in 0..MaxOID /\ MaxOID \in Nat /\ DOMAIN entries[k] \subseteq 1..MaxOID
  BY BoundsAssumption DEF TypeOK, OIDs
<1>2. MaxOID + 1 \in free
  BY <1>1 DEF Known
<1>3. free \in SUBSET Nat /\ free # {}
  BY <1>1, <1>2
<1>4. PICK o \in free : \A y \in free : o <= y
  BY <1>3, LeastNatural
<1>5. o \in (last[k] + 1)..(MaxOID + 1) /\ least(o)
  <2>1. ASSUME NEW x \in (last[k] + 1)..(o - 1), ~Known(k, x) PROVE FALSE
    <3>1. x \in free /\ x < o
      BY <1>1, <2>1
    <3>2. QED BY <1>1, <1>4, <3>1
  <2>2. QED BY <2>1
<1>6. NewOID(k) = CHOOSE o1 \in (last[k] + 1)..(MaxOID + 1) : least(o1)
  BY DEF NewOID
<1> HIDE DEF least
<1>7. least(NewOID(k))
  BY <1>5, <1>6
<1>8. QED BY <1>7 DEF least

\* These references are to OIDs that the catalogue knows, and where a list or its
\* copy has the record it is the one that was meant.
Good(k, refs) ==
    Refers(k) => \A x \in DOMAIN refs \ adrift[Target(k)] :
        /\ Known(Target(k), x)
        /\ x \in DOMAIN live[Target(k)] => live[Target(k)][x].born = refs[x]
        /\ x \in DOMAIN Working(Target(k)) => Working(Target(k))[x].born = refs[x]

\* What holds of each record of a list or its copy.
Settled(k, o, r) == Known(k, o) /\ Good(k, r.refs)

Targets ==
    \A k \in Kinds : /\ \A o \in DOMAIN live[k] : Settled(k, o, live[k][o])
                     /\ \A o \in DOMAIN Working(k) : Settled(k, o, Working(k)[o])

Inv2 == Inv /\ Targets

\* Is the record r with the OID o one of the list or of its copy?
Has(k, o, r) ==
    \/ o \in DOMAIN live[k] /\ r = live[k][o]
    \/ o \in DOMAIN Working(k) /\ r = Working(k)[o]

\* Steps that move records between a list and its copy, or lose some.
LEMMA MovesKeep ==
    ASSUME Targets, entries' = entries, adrift' = adrift,
           \A k \in Kinds : /\ \A o \in DOMAIN live'[k] : Has(k, o, live'[k][o])
                            /\ \A o \in DOMAIN Working(k)' : Has(k, o, Working(k)'[o])
    PROVE  Targets'
<1>1. ASSUME NEW k \in Kinds, NEW o, NEW r, Settled(k, o, r) PROVE Settled(k, o, r)'
  <2>1. Known(k, o)'
    BY <1>1 DEF Settled, Known
  <2>2. Good(k, r.refs)'
    <3> SUFFICES ASSUME Refers(k), NEW x \in DOMAIN r.refs \ adrift[Target(k)]
                 PROVE  /\ Known(Target(k), x)'
                        /\ x \in DOMAIN live'[Target(k)] => live'[Target(k)][x].born = r.refs[x]
                        /\ x \in DOMAIN Working(Target(k))' => Working(Target(k))'[x].born = r.refs[x]
      BY DEF Good, Refers
    <3>1. Target(k) \in Kinds
      BY DEF Refers
    <3>2. /\ Known(Target(k), x)
          /\ x \in DOMAIN live[Target(k)] => live[Target(k)][x].born = r.refs[x]
          /\ x \in DOMAIN Working(Target(k)) => Working(Target(k))[x].born = r.refs[x]
      BY <1>1 DEF Settled, Good
    <3>3. QED BY <3>1, <3>2 DEF Has, Known
  <2>3. QED BY <2>1, <2>2 DEF Settled
<1>2. ASSUME NEW k \in Kinds, NEW o, NEW r, Has(k, o, r) PROVE Settled(k, o, r)
  BY <1>2 DEF Has, Targets
<1>3. ASSUME NEW k \in Kinds, NEW o, NEW r, Has(k, o, r) PROVE Settled(k, o, r)'
  BY <1>1, <1>2, <1>3
<1>4. ASSUME NEW k \in Kinds, NEW o \in DOMAIN live'[k] PROVE Settled(k, o, live[k][o])'
  <2>1. PICK r : r = live'[k][o]
    OBVIOUS
  <2>2. Settled(k, o, r)'
    BY <1>3, <2>1
  <2>3. QED BY <2>1, <2>2 DEF Settled, Good
<1>5. ASSUME NEW k \in Kinds, NEW o \in DOMAIN Working(k)' PROVE Settled(k, o, Working(k)[o])'
  <2>1. PICK r : r = Working(k)'[o]
    OBVIOUS
  <2>2. Settled(k, o, r)'
    BY <1>3, <2>1
  <2>3. QED BY <2>1, <2>2 DEF Settled, Good
<1>6. QED BY <1>4, <1>5 DEF Targets

\* A copy gets a new record, or one of its records is changed: r is put at o.
LEMMA PutKeeps ==
    ASSUME Targets, NEW j \in Kinds, NEW o, NEW r, Good(j, r.refs),
           DOMAIN Working(j)' = DOMAIN Working(j) \cup {o}, Working(j)'[o] = r,
           \A x \in DOMAIN Working(j) : x # o => Working(j)'[x] = Working(j)[x],
           \A k \in Kinds : k # j => Working(k)' = Working(k),
           o \in DOMAIN Working(j) => r.born = Working(j)[o].born,
           o \notin DOMAIN Working(j) => ~Known(j, o),
           \A k \in Kinds : \A x : Known(k, x) => Known(k, x)',
           Known(j, o)',
           live' = live, adrift' = adrift
    PROVE  Targets'
<1>1. ASSUME NEW k \in Kinds, NEW refs, Good(k, refs) PROVE Good(k, refs)'
  <2> SUFFICES ASSUME Refers(k), NEW x \in DOMAIN refs \ adrift[Target(k)]
               PROVE  /\ Known(Target(k), x)'
                      /\ x \in DOMAIN live[Target(k)] => live[Target(k)][x].born = refs[x]
                      /\ x \in DOMAIN Working(Target(k))' => Working(Target(k))'[x].born = refs[x]
    BY DEF Good, Refers
  <2>1. Target(k) \in Kinds
    BY DEF Refers
  <2>2. /\ Known(Target(k), x)
        /\ x \in DOMAIN live[Target(k)] => live[Target(k)][x].born = refs[x]
        /\ x \in DOMAIN Working(Target(k)) => Working(Target(k))[x].born = refs[x]
    BY <1>1 DEF Good
  <2>3. CASE Target(k) = j
    BY <2>1, <2>2, <2>3
  <2>4. CASE Target(k) # j
    BY <2>1, <2>2, <2>4
  <2>5. QED BY <2>3, <2>4
<1>2. ASSUME NEW k \in Kinds, NEW x, NEW q, Settled(k, x, q) PROVE Settled(k, x, q)'
  BY <1>1, <1>2 DEF Settled
<1>3. Settled(j, o, r)'
  BY <1>1 DEF Settled
<1>4. ASSUME NEW k \in Kinds, NEW x \in DOMAIN live[k] PROVE Settled(k, x, live[k][x])'
  <2>1. PICK q : q = live[k][x]
    OBVIOUS
  <2>2. Settled(k, x, q)'
    BY <1>2, <2>1 DEF Targets
  <2>3. QED BY <2>1, <2>2 DEF Settled, Good
<1>5. ASSUME NEW k \in Kinds, NEW x \in DOMAIN Working(k)' PROVE Settled(k, x, Working(k)[x])'
  <2>1. PICK q : q = Working(k)'[x]
    OBVIOUS
  <2>2. Settled(k, x, q)'
    <3>1. CASE k = j /\ x = o
      BY <1>3, <2>1, <3>1
    <3>2. CASE ~(k = j /\ x = o)
      <4>1. x \in DOMAIN Working(k) /\ q = Working(k)[x]
        BY <2>1, <3>2
      <4>2. QED BY <1>2, <4>1 DEF Targets
    <3>3. QED BY <3>1, <3>2
  <2>3. QED BY <2>1, <2>2 DEF Settled, Good
<1>6. QED BY <1>4, <1>5 DEF Targets

\* A new record.
LEMMA AddTargets ==
    ASSUME Inv2, NEW j \in Kinds, InHand(j), NEW r, Good(j, r.refs), Add(j, r),
           UNCHANGED <<live, holder, editing, adrift>>
    PROVE  Targets'
<1>1. PICK o : o = NewOID(j)
  OBVIOUS
<1>2. ~Known(j, o)
  BY <1>1, NewOIDIsUnknown DEF Inv2, Inv
<1>3. /\ entries' = [entries EXCEPT ![j] = With(entries[j], o, TRUE)]
      /\ shadow' = [shadow EXCEPT ![j] = With(shadow[j], o, r)]
      /\ o \notin DOMAIN shadow[j]
  BY <1>1 DEF Add
<1>4. \A k \in Kinds : shadow'[k] = IF k = j THEN With(shadow[j], o, r) ELSE shadow[k]
  BY <1>3 DEF Inv2, Inv, TypeOK, AreLists
<1>5. \A k \in Kinds : entries'[k] = IF k = j THEN With(entries[j], o, TRUE) ELSE entries[k]
  BY <1>3 DEF Inv2, Inv, TypeOK
<1>6. Working(j) = shadow[j] /\ Working(j)' = With(shadow[j], o, r)
  BY <1>4 DEF Working, InHand
<1>7. /\ DOMAIN Working(j)' = DOMAIN Working(j) \cup {o} /\ Working(j)'[o] = r
      /\ \A x \in DOMAIN Working(j) : x # o => Working(j)'[x] = Working(j)[x]
  BY <1>6 DEF With
<1>8. \A k \in Kinds : k # j => Working(k)' = Working(k)
  BY <1>4 DEF Working, InHand
<1>9. \A k \in Kinds : DOMAIN entries'[k] = IF k = j THEN DOMAIN entries[j] \cup {o} ELSE DOMAIN entries[k]
  BY <1>5 DEF With
<1>10. (\A k \in Kinds : \A x : Known(k, x) => Known(k, x)') /\ Known(j, o)'
  BY <1>9 DEF Known
<1>11. QED BY <1>2, <1>3, <1>6, <1>7, <1>8, <1>10, PutKeeps DEF Inv2

\* A change of a record.
LEMMA EditTargets ==
    ASSUME Inv2, NEW j \in Kinds, InHand(j), NEW o \in DOMAIN shadow[j], NEW r, Good(j, r.refs),
           shadow' = [shadow EXCEPT ![j] = [shadow[j] EXCEPT ![o] = r]],
           r.born = shadow[j][o].born,
           \A k \in Kinds : DOMAIN entries'[k] = DOMAIN entries[k],
           UNCHANGED <<live, holder, editing, adrift>>
    PROVE  Targets'
<1>1. \A k \in Kinds : shadow'[k] = IF k = j THEN [shadow[j] EXCEPT ![o] = r] ELSE shadow[k]
  BY DEF Inv2, Inv, TypeOK, AreLists
<1>2. Working(j) = shadow[j] /\ Working(j)' = [shadow[j] EXCEPT ![o] = r]
  BY <1>1 DEF Working, InHand
<1>3. /\ DOMAIN Working(j)' = DOMAIN Working(j) \cup {o} /\ Working(j)'[o] = r
      /\ \A x \in DOMAIN Working(j) : x # o => Working(j)'[x] = Working(j)[x]
  BY <1>2
<1>4. \A k \in Kinds : k # j => Working(k)' = Working(k)
  BY <1>1 DEF Working, InHand
<1>5. (\A k \in Kinds : \A x : Known(k, x) => Known(k, x)') /\ Known(j, o)'
  BY <1>2 DEF Known, Inv2, Targets, Settled
<1>6. QED BY <1>2, <1>3, <1>4, <1>5, PutKeeps DEF Inv2

\* The references an edit or an import makes are good.
LEMMA LinkedIsGood ==
    ASSUME Inv2, NEW k \in Kinds, NEW refs, Good(k, refs), NEW x, NEW n,
           Refers(k) => /\ Known(Target(k), x)
                        /\ x \in DOMAIN live[Target(k)] => live[Target(k)][x].born = n
                        /\ x \in DOMAIN Working(Target(k)) => Working(Target(k))[x].born = n
    PROVE  Good(k, With(refs, x, n))
<1>1. DOMAIN With(refs, x, n) = DOMAIN refs \cup {x} /\ With(refs, x, n)[x] = n
      /\ \A y \in DOMAIN refs : y # x => With(refs, x, n)[y] = refs[y]
  BY DEF With
<1>2. PICK more : more = With(refs, x, n)
  OBVIOUS
<1>3. Good(k, more)
  <2> SUFFICES ASSUME Refers(k), NEW y \in DOMAIN more \ adrift[Target(k)]
               PROVE  /\ Known(Target(k), y)
                      /\ y \in DOMAIN live[Target(k)] => live[Target(k)][y].born = more[y]
                      /\ y \in DOMAIN Working(Target(k)) => Working(Target(k))[y].born = more[y]
    BY DEF Good
  <2>1. CASE y = x
    BY <1>1, <1>2, <2>1
  <2>2. CASE y # x
    BY <1>1, <1>2, <2>2 DEF Good
  <2>3. QED BY <2>1, <2>2
<1>4. QED BY <1>2, <1>3

\* An edit of one kind has the list itself, and no copy, of the kind it refers to.
LEMMA OtherIsLive ==
    ASSUME Inv, NEW k \in Kinds, holder = "edit", k \in editing, Refers(k)
    PROVE  Working(Target(k)) = live[Target(k)]
<1>1. Target(k) # k
  BY KindsAssumption DEF Refers, Target
<1>2. Target(k) \notin editing
  BY <1>1 DEF Inv, Ordered
<1>3. QED BY <1>2 DEF Working, InHand

LEMMA MeantIsGood ==
    ASSUME Inv2, NEW k \in Kinds, holder = "edit", k \in editing, NEW refs, Good(k, refs),
           NEW x, Refers(k), Known(Target(k), x)
    PROVE  Good(k, With(refs, x, Meant(k, x)))
<1>1. PICK n : n = Meant(k, x)
  OBVIOUS
<1>2. Working(Target(k)) = live[Target(k)]
  BY OtherIsLive DEF Inv2
<1>3. x \in DOMAIN live[Target(k)] => live[Target(k)][x].born = n
  BY <1>1 DEF Meant
<1>4. Good(k, With(refs, x, n))
  BY <1>2, <1>3, LinkedIsGood
<1>5. QED BY <1>1, <1>4

LEMMA MeantHereIsGood ==
    ASSUME Inv2, holder = "import", NEW refs, Good("cards", refs), NEW x \in Choices
    PROVE  Good("cards", With(refs, x, MeantHere(x)))
<1>1. PICK n : n = MeantHere(x)
  OBVIOUS
<1>2. /\ {"groups", "cards"} \subseteq Kinds /\ editing = {"groups", "cards"}
      /\ Target("cards") = "groups" /\ InHand("groups") /\ Working("groups") = shadow["groups"]
  BY DEF Inv2, Inv, TypeOK, Target, InHand, Working
<1>3. x \in DOMAIN shadow["groups"] /\ n = shadow["groups"][x].born
  BY <1>1 DEF Choices, MeantHere
<1>4. Known("groups", x)
  BY <1>2, <1>3 DEF Inv2, Targets, Settled
<1>5. x \in DOMAIN live["groups"] => live["groups"][x].born = n
  BY <1>2, <1>3 DEF Inv2, Inv, Copies, IsCopy
<1>6. Good("cards", With(refs, x, n))
  BY <1>2, <1>3, <1>4, <1>5, LinkedIsGood
<1>7. QED BY <1>1, <1>6

\* A request edits its copies.
LEMMA CreateTargets == ASSUME Inv2, NEW k \in Kinds, Create(k) PROVE Targets'
<1>1. PICK r : r = Blank(born + 1)
  OBVIOUS
<1>2. Add(k, r) /\ InHand(k) /\ UNCHANGED <<live, holder, editing, adrift>>
  BY <1>1 DEF Create, InHand
<1>3. Good(k, r.refs)
  BY <1>1 DEF Good, Blank
<1>4. QED BY <1>2, <1>3, AddTargets

LEMMA SetTargets ==
    ASSUME Inv2, NEW k \in Kinds, NEW o \in OIDs, NEW x \in OIDs,
           Complete(k, o) \/ Delete(k, o) \/ Link(k, o, x) \/ Unlink(k, o, x)
    PROVE  Targets'
<1> USE DEF store, counts
<1>a. /\ holder = "edit" /\ k \in editing /\ o \in DOMAIN shadow[k]
      /\ UNCHANGED <<live, holder, editing, adrift>>
  BY DEF Complete, Delete, Link, Unlink, Edit
<1>b. born \in Nat /\ AreLists(shadow, born)
  BY BoundsAssumption DEF Inv2, Inv, TypeOK
<1>c. PICK q : q = shadow[k][o]
  OBVIOUS
<1>d. q \in Record(born) /\ InHand(k) /\ Good(k, q.refs)
  BY <1>a, <1>b, <1>c, TypedRecords DEF Inv2, Targets, Settled, Working, InHand
<1>e. \A j \in Kinds : DOMAIN entries'[j] = DOMAIN entries[j]
  BY DEF Complete, Delete, Link, Unlink, Inv2, Inv, TypeOK
<1>f. ASSUME NEW r, Edit(k, o, r), r.born = q.born, Good(k, r.refs) PROVE Targets'
  <2>1. shadow' = [shadow EXCEPT ![k] = [shadow[k] EXCEPT ![o] = r]]
    BY <1>b, <1>f DEF Edit, AreLists
  <2>2. QED BY <1>a, <1>c, <1>d, <1>e, <1>f, <2>1, EditTargets
<1>1. CASE Complete(k, o) \/ Delete(k, o)
  <2>1. PICK r : /\ Edit(k, o, r)
                 /\ r = [q EXCEPT !.complete = TRUE] \/ r = [q EXCEPT !.deleted = TRUE]
    BY <1>1, <1>c DEF Complete, Delete
  <2>2. r.born = q.born /\ r.refs = q.refs
    BY <1>d, <2>1 DEF Record
  <2>3. QED BY <1>d, <1>f, <2>1, <2>2
<1>2. CASE Link(k, o, x)
  <2>1. PICK refs : refs = With(q.refs, x, Meant(k, x))
    OBVIOUS
  <2>2. PICK r : r = [q EXCEPT !.refs = refs]
    OBVIOUS
  <2>3. Edit(k, o, r) /\ Refers(k) /\ Offered(k, x)
    BY <1>2, <1>c, <2>1, <2>2 DEF Link
  <2>4. Known(Target(k), x)
    BY <2>3 DEF Offered, InUse, Target
  <2>5. Good(k, refs)
    BY <1>a, <1>d, <2>1, <2>3, <2>4, MeantIsGood
  <2>6. r.born = q.born /\ r.refs = refs
    BY <1>d, <2>2 DEF Record
  <2>7. QED BY <1>f, <2>3, <2>5, <2>6
<1>3. CASE Unlink(k, o, x)
  <2>1. PICK refs : refs = Without(q.refs, x)
    OBVIOUS
  <2>2. PICK r : r = [q EXCEPT !.refs = refs]
    OBVIOUS
  <2>3. Edit(k, o, r)
    BY <1>3, <1>c, <2>1, <2>2 DEF Unlink
  <2>4. DOMAIN refs \subseteq DOMAIN q.refs /\ \A y \in DOMAIN refs : refs[y] = q.refs[y]
    BY <2>1 DEF Without
  <2>5. Good(k, refs)
    BY <1>d, <2>4 DEF Good
  <2>6. r.born = q.born /\ r.refs = refs
    BY <1>d, <2>2 DEF Record
  <2>7. QED BY <1>f, <2>3, <2>5, <2>6
<1>4. QED BY <1>1, <1>2, <1>3

LEMMA ImportLevelTargets == ASSUME Inv2, ImportLevel PROVE Targets'
<1>1. /\ {"groups", "cards"} \subseteq Kinds /\ editing = {"groups", "cards"} /\ InHand("groups")
      /\ UNCHANGED <<live, holder, editing, adrift>>
  BY DEF ImportLevel, Inv2, Inv, TypeOK, InHand
<1>2. PICK S \in SUBSET (IF Refers("groups") THEN DOMAIN entries["doors"] ELSE {}) :
          Add("groups", [complete |-> TRUE, deleted |-> FALSE, born |-> born + 1,
                         refs |-> [x \in S |-> Meant("groups", x)]])
  BY DEF ImportLevel
<1>3. PICK refs : refs = [x \in S |-> Meant("groups", x)]
  OBVIOUS
<1>4. Good("groups", refs)
  <2> SUFFICES ASSUME Refers("groups"), NEW x \in S
               PROVE  /\ Known("doors", x)
                      /\ x \in DOMAIN live["doors"] => live["doors"][x].born = refs[x]
                      /\ x \in DOMAIN Working("doors") => Working("doors")[x].born = refs[x]
    BY <1>3 DEF Good, Target
  <2>1. Target("groups") = "doors"
    BY DEF Target
  <2>2. Working("doors") = live["doors"]
    BY <1>1 DEF Working, InHand
  <2>3. x \in DOMAIN entries["doors"] /\ refs[x] = Meant("groups", x)
    BY <1>3
  <2>4. QED BY <2>1, <2>2, <2>3 DEF Known, Meant
<1>5. PICK r : r = [complete |-> TRUE, deleted |-> FALSE, born |-> born + 1, refs |-> refs]
  OBVIOUS
<1>6. Add("groups", r) /\ r.refs = refs
  BY <1>2, <1>3, <1>5
<1>7. QED BY <1>1, <1>4, <1>6, AddTargets

LEMMA ImportNewTargets == ASSUME Inv2, NEW x \in OIDs, ImportNew(x) PROVE Targets'
<1>1. /\ {"groups", "cards"} \subseteq Kinds /\ editing = {"groups", "cards"} /\ InHand("cards")
      /\ holder = "import" /\ x \in Choices
      /\ UNCHANGED <<live, holder, editing, adrift>>
  BY DEF ImportNew, Inv2, Inv, TypeOK, InHand
<1>2. PICK refs : refs = With(<<>>, x, MeantHere(x))
  OBVIOUS
<1>3. Good("cards", <<>>)
  BY DEF Good
<1>4. Good("cards", refs)
  BY <1>1, <1>2, <1>3, MeantHereIsGood
<1>5. PICK r : r = [complete |-> TRUE, deleted |-> FALSE, born |-> born + 1, refs |-> refs]
  OBVIOUS
<1>6. Add("cards", r) /\ r.refs = refs
  BY <1>2, <1>5 DEF ImportNew
<1>7. QED BY <1>1, <1>4, <1>6, AddTargets

LEMMA ImportOverTargets == ASSUME Inv2, NEW o \in OIDs, NEW x \in OIDs, ImportOver(o, x) PROVE Targets'
<1> USE DEF store
<1>1. /\ {"groups", "cards"} \subseteq Kinds /\ editing = {"groups", "cards"} /\ InHand("cards")
      /\ holder = "import" /\ x \in Choices /\ o \in DOMAIN shadow["cards"]
      /\ UNCHANGED <<live, entries, holder, editing, adrift>>
  BY DEF ImportOver, Inv2, Inv, TypeOK, InHand
<1>2. PICK q : q = shadow["cards"][o]
  OBVIOUS
<1>3. q \in Record(born) /\ Good("cards", q.refs)
  BY <1>1, <1>2, TypedRecords, BoundsAssumption DEF Inv2, Inv, TypeOK, Targets, Settled, Working
<1>4. PICK refs : refs = With(q.refs, x, MeantHere(x))
  OBVIOUS
<1>5. Good("cards", refs)
  BY <1>1, <1>3, <1>4, MeantHereIsGood
<1>6. PICK r : r = [q EXCEPT !.refs = refs, !.complete = TRUE]
  OBVIOUS
<1>7. r.born = q.born /\ r.refs = refs
  BY <1>3, <1>6 DEF Record
<1>8. shadow' = [shadow EXCEPT !["cards"] = [shadow["cards"] EXCEPT ![o] = r]]
  BY <1>2, <1>4, <1>6 DEF ImportOver, Merged
<1>9. QED BY <1>1, <1>2, <1>5, <1>7, <1>8, EditTargets

\* Everything that moves records between the lists, their copies and the files.
LEMMA OthersTargets ==
    ASSUME Inv2,
           \/ \E k \in Kinds : Begin(k) \/ Save(k) \/ Copy(k) \/ Restore(k)
           \/ \E k \in Kinds : \E o \in OIDs : Sweep(k, o)
           \/ BeginImport \/ Commit \/ Refuse \/ AbandonJob \/ BeginRestore \/ EndRestore \/ UNCHANGED vars
           \/ \E what \in {"backup", "restore", "import"} : \E from \in archives \cup {<<>>} : StartJob(what, from)
    PROVE  Targets'
<1> USE DEF store, request, counts
<1>a. entries' = entries /\ adrift' = adrift
  BY DEF Begin, Save, Copy, Restore, Sweep, BeginImport, Commit, Refuse, AbandonJob, BeginRestore,
         EndRestore, StartJob, vars
<1>b. ASSUME \A k \in Kinds : /\ \A o \in DOMAIN live'[k] : Has(k, o, live'[k][o])
                              /\ \A o \in DOMAIN Working(k)' : Has(k, o, Working(k)'[o])
      PROVE  Targets'
  BY <1>a, <1>b, MovesKeep DEF Inv2
<1>c. ASSUME \A k \in Kinds : /\ live'[k] = live[k] \/ live'[k] = Working(k)
                              /\ Working(k)' = live[k] \/ Working(k)' = Working(k)
      PROVE  Targets'
  BY <1>b, <1>c DEF Has
<1>1. ASSUME NEW k \in Kinds, Begin(k) \/ Save(k) PROVE Targets'
  <2>1. live' = live /\ (shadow' = live \/ UNCHANGED <<holder, editing, shadow>>)
    BY <1>1 DEF Begin, Save
  <2>2. QED BY <1>c, <2>1 DEF Working, InHand
<1>2. ASSUME NEW k \in Kinds, Copy(k) \/ Restore(k) PROVE Targets'
  <2>1. UNCHANGED <<live, holder, editing, shadow>>
    BY <1>2 DEF Copy, Restore
  <2>2. QED BY <1>c, <2>1 DEF Working, InHand
<1>3. CASE BeginImport \/ Refuse \/ AbandonJob \/ BeginRestore \/ EndRestore \/ UNCHANGED vars
  <2>1. live' = live /\ (shadow' = live \/ holder' \in {"none", "restore"} \/ UNCHANGED <<holder, editing, shadow>>)
    BY <1>3 DEF BeginImport, Refuse, AbandonJob, BeginRestore, EndRestore, vars, Free
  <2>2. QED BY <1>c, <2>1 DEF Working, InHand
<1>4. CASE Commit
  <2>1. \A k \in Kinds : live'[k] = Working(k) /\ Working(k)' = Working(k)
    BY <1>4 DEF Commit, Working, InHand
  <2>2. QED BY <1>c, <2>1
<1>5. ASSUME NEW what \in {"backup", "restore", "import"}, NEW from \in archives \cup {<<>>}, StartJob(what, from)
      PROVE  Targets'
  <2>1. UNCHANGED <<live, holder, editing, shadow>>
    BY <1>5 DEF StartJob
  <2>2. QED BY <1>c, <2>1 DEF Working, InHand
<1>6. ASSUME NEW j \in Kinds, NEW o \in OIDs, Sweep(j, o) PROVE Targets'
  <2>1. UNCHANGED <<holder, editing, shadow>>
    BY <1>6 DEF Sweep
  <2>2. \A k \in Kinds : \A x \in DOMAIN live'[k] : x \in DOMAIN live[k] /\ live'[k][x] = live[k][x]
    BY <1>6 DEF Sweep, Without, Inv2, Inv, TypeOK, AreLists
  <2>3. \A k \in Kinds : \A x \in DOMAIN Working(k)' : Has(k, x, Working(k)'[x])
    BY <2>1, <2>2 DEF Working, InHand, Has
  <2>4. QED BY <1>b, <2>2, <2>3 DEF Has
<1>7. QED BY <1>1, <1>2, <1>3, <1>4, <1>5, <1>6

\* The process starts: what it loads refers to what it means, or is adrift.
Loaded(n, f) == Started(n, f) /\ adrift = [k \in Kinds |-> Strays(f, k)]

StartsOnTarget == \A n \in Nat : \A f : Loaded(n, f) => Targets

LEMMA LoadedIsOnTarget == StartsOnTarget
<1> SUFFICES ASSUME NEW n \in Nat, NEW f, Loaded(n, f) PROVE Targets
  BY DEF StartsOnTarget
<1> USE DEF Loaded, Started
<1>1. \A k \in Kinds : Working(k) = f[k] /\ live[k] = f[k]
  BY DEF Working, InHand
<1>2. \A k \in Kinds : DOMAIN entries[k] = DOMAIN f[k]
  BY DEF Tables, Catalogued
<1>3. ASSUME NEW k \in Kinds, NEW o \in DOMAIN f[k] PROVE Settled(k, o, f[k][o])
  <2>1. PICK refs : refs = f[k][o].refs
    OBVIOUS
  <2>2. DOMAIN refs \subseteq OIDs
    <3>1. f[k][o] \in Record(n)
      BY DEF AreLists, IsList
    <3>2. refs \in Refs(n)
      BY <2>1, <3>1 DEF Record
    <3>3. QED BY <3>2 DEF Refs
  <2>3. ASSUME Refers(k), NEW x \in DOMAIN refs \ adrift[Target(k)]
        PROVE  x \in DOMAIN f[Target(k)] /\ f[Target(k)][x].born = refs[x]
    <3>1. Target(k) \in Kinds /\ x \notin Strays(f, Target(k))
      BY <2>3 DEF Refers
    <3>2. x \in OIDs
      BY <2>2, <2>3
    <3>3. QED BY <2>1, <2>3, <3>1, <3>2 DEF Strays
  <2>4. Good(k, refs)
    BY <1>1, <1>2, <2>3 DEF Good, Known, Refers
  <2>5. QED BY <1>2, <2>1, <2>4 DEF Settled, Known
<1>4. QED BY <1>1, <1>3 DEF Targets

LEMMA RestartTargets == ASSUME Inv2, Restart PROVE Targets'
<1>1. PICK f : f = files
  OBVIOUS
<1>2. born \in Nat /\ AreLists(f, born) /\ \A k \in Kinds : Tidied(f[k])
  BY <1>1, BoundsAssumption DEF Inv2, Inv, TypeOK, Tidy
<1>3. /\ live' = f /\ files' = LevelsSaved(f) /\ entries' = Tables(f) /\ holder' = "none"
      /\ adrift' = [k \in Kinds |-> Strays(f, k)]
  BY <1>1 DEF Restart
<1>4. StartsOnTarget'
  BY LoadedIsOnTarget, PTL
<1>5. Loaded(born, f)' /\ born' \in Nat
  BY <1>2, <1>3 DEF Loaded, Started, Restart
<1>6. QED BY <1>4, <1>5 DEF StartsOnTarget

LEMMA InitTargets == ASSUME Init PROVE Targets
<1>1. AreLists(InitialFiles, Existing) /\ \A k \in Kinds : Tidied(InitialFiles[k])
  BY InitialAssumption DEF Tidied
<1>2. Loaded(Existing, InitialFiles) /\ Existing \in Nat
  BY <1>1, BoundsAssumption DEF Init, Loaded, Started
<1>3. QED BY <1>2, LoadedIsOnTarget DEF StartsOnTarget

\* Who is a member of an access level, or which door it opens, stays what was meant
\* from one start of the program to the next: catalog.table.New never hands out an
\* OID that it has known, and an import looks up its levels in its own copies. For any
\* lists and any number of requests, imports and restarts.
THEOREM OIDsAreNotReused == Spec => []ReferencesKeepTheirTarget
<1>1. Init => Inv2
  BY InvInit, InitTargets DEF Inv2
<1>2. Inv2 /\ [Next]_vars => Inv2'
  <2> SUFFICES ASSUME Inv2, [Next]_vars PROVE Inv2'
    OBVIOUS
  <2>1. Inv'
    BY InvNext DEF Inv2
  <2>2. ASSUME NEW k \in Kinds, Create(k) PROVE Targets'
    BY <2>2, CreateTargets
  <2>3. ASSUME NEW k \in Kinds, NEW o \in OIDs, NEW x \in OIDs,
               Complete(k, o) \/ Delete(k, o) \/ Link(k, o, x) \/ Unlink(k, o, x)
        PROVE  Targets'
    BY <2>3, SetTargets
  <2>4. ASSUME NEW o \in OIDs, NEW x \in OIDs, ImportNew(x) \/ ImportOver(o, x) PROVE Targets'
    BY <2>4, ImportNewTargets, ImportOverTargets
  <2>5. ASSUME ImportLevel \/ Restart PROVE Targets'
    BY <2>5, ImportLevelTargets, RestartTargets
  <2>6. ASSUME NEW k \in Kinds, Begin(k) \/ Save(k) \/ Copy(k) \/ Restore(k) PROVE Targets'
    BY <2>6, OthersTargets
  <2>7. ASSUME NEW k \in Kinds, NEW o \in OIDs, Sweep(k, o) PROVE Targets'
    BY <2>7, OthersTargets
  <2>8. ASSUME \/ BeginImport \/ Commit \/ Refuse \/ AbandonJob \/ BeginRestore \/ EndRestore \/ UNCHANGED vars
               \/ \E what \in {"backup", "restore", "import"} : \E from \in archives \cup {<<>>} : StartJob(what, from)
        PROVE  Targets'
    BY <2>8, OthersTargets
  <2>9. Targets'
    BY <2>2, <2>3, <2>4, <2>5, <2>6, <2>7, <2>8 DEF Next, Idle
  <2>10. QED BY <2>1, <2>9 DEF Inv2
<1>3. Inv2 => ReferencesKeepTheirTarget
  BY DEF Inv2, Targets, Settled, Good, ReferencesKeepTheirTarget
<1>4. QED BY <1>1, <1>2, <1>3, PTL DEF Spec

=============================================================================
