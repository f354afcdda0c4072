--------------------------- MODULE AdminProofs ------------------------------
(***************************************************************************)
(* Proofs about Feed, Accounts, Password, Maintenance, SignIn and OneTime, *)
(* for any entries, accounts, consoles, passwords, credentials,            *)
(* controllers, backups, tabs, sessions, secrets, times and requests, and  *)
(* about all of MCAdmin.                                                   *)
(***************************************************************************)
EXTENDS MCAdmin, ListProofs

-----------------------------------------------------------------------------
(* Feed.  How the entries are sorted. *)

At(t, i) == {e \in Entries : t[e] = i}

\* What has been sorted with the entries of one second after the other.
IsSorting(f, s, t, m) == f = [i \in 0..m |-> IF i = 0 THEN <<>> ELSE Among(s, At(t, i)) \o f[i - 1]]

LEMMA SortingExists ==
    ASSUME NEW s, NEW t, NEW n \in Nat
    PROVE  \E f : IsSorting(f, s, t, n)
<1> DEFINE T == {m \in Nat : ~\E f : IsSorting(f, s, t, m)}
<1> SUFFICES ASSUME T # {} PROVE FALSE
  OBVIOUS
<1>1. PICK m \in T : \A k \in T : m <= k
  <2>1. T \subseteq Nat
    OBVIOUS
  <2> HIDE DEF T
  <2> QED  BY <2>1, LeastNumber
<1>2. m # 0
  <2>1. IsSorting([i \in 0..0 |-> <<>>], s, t, 0)
    BY DEF IsSorting
  <2> QED  BY <2>1
<1>3. m - 1 \in Nat /\ m - 1 \notin T
  BY <1>1, <1>2
<1>4. PICK f : IsSorting(f, s, t, m - 1)
  BY <1>3
<1>5. PICK last : last = Among(s, At(t, m)) \o f[m - 1]
  OBVIOUS
<1>6. PICK g : g = [i \in 0..m |-> IF i # m THEN f[i] ELSE last]
  OBVIOUS
<1>7. IsSorting(g, s, t, m)
  <2>1. \A i \in 0..m - 1 : f[i] = IF i = 0 THEN <<>> ELSE Among(s, At(t, i)) \o f[i - 1]
    <3>1. PICK k : k = m - 1
      OBVIOUS
    <3>2. f = [i \in 0..k |-> IF i = 0 THEN <<>> ELSE Among(s, At(t, i)) \o f[i - 1]]
      BY <1>4, <3>1 DEF IsSorting
    <3> QED  BY <3>1, <3>2
  <2>2. \A i \in 0..m : g[i] = IF i = 0 THEN <<>> ELSE Among(s, At(t, i)) \o g[i - 1]
    <3> SUFFICES ASSUME NEW i \in 0..m PROVE g[i] = IF i = 0 THEN <<>> ELSE Among(s, At(t, i)) \o g[i - 1]
      OBVIOUS
    <3>1. CASE i = m
      <4>1. g[i] = last /\ g[i - 1] = f[m - 1]
        BY <3>1, <1>2, <1>6
      <4> QED  BY <3>1, <1>2, <1>5, <4>1
    <3>2. CASE i # m
      <4>1. i \in 0..m - 1 /\ g[i] = f[i] /\ (i # 0 => g[i - 1] = f[i - 1])
        BY <3>2, <1>3, <1>6
      <4> QED  BY <4>1, <2>1
    <3> QED  BY <3>1, <3>2
  <2> QED  BY <2>2, <1>6 DEF IsSorting
<1> QED  BY <1>7

LEMMA NewestFirstIs ==
    ASSUME NEW s, NEW t
    PROVE  \E f : IsSorting(f, s, t, MaxSeconds) /\ NewestFirst(s, t) = f[MaxSeconds]
<1>1. PICK f : f = CHOOSE g : IsSorting(g, s, t, MaxSeconds)
  OBVIOUS
<1>2. IsSorting(f, s, t, MaxSeconds)
  BY <1>1, SortingExists, FeedAssumption
<1>3. NewestFirst(s, t) = f[MaxSeconds]
  BY <1>1 DEF NewestFirst, IsSorting, At, Entries
<1> QED  BY <1>2, <1>3

\* The entries of the first n seconds are in the order of their times, the last one first.
Sorted(r, s, t, n) ==
    /\ r \in Seq(Entries)
    /\ Range(r) = {e \in Range(s) : t[e] \in 1..n}
    /\ IsInjective(s) => IsInjective(r)
    /\ \A a, b \in DOMAIN r : a < b => t[r[a]] >= t[r[b]]

LEMMA SortingSorts ==
    ASSUME NEW s \in Seq(Entries), NEW t \in [Entries -> Nat], NEW f, IsSorting(f, s, t, MaxSeconds), NEW n \in 0..MaxSeconds
    PROVE  Sorted(f[n], s, t, n)
<1> DEFINE T == {i \in 0..MaxSeconds : ~Sorted(f[i], s, t, i)}
<1>0. MaxSeconds \in Nat
  BY FeedAssumption
<1> SUFFICES ASSUME T # {} PROVE FALSE
  OBVIOUS
<1>1. PICK m \in T : \A i \in T : m <= i
  <2>1. T \subseteq Nat
    BY <1>0
  <2> HIDE DEF T
  <2> QED  BY <2>1, LeastNumber
<1>2. \A i \in 0..MaxSeconds : f[i] = IF i = 0 THEN <<>> ELSE Among(s, At(t, i)) \o f[i - 1]
  BY DEF IsSorting
<1>3. Sorted(f[0], s, t, 0)
  <2>1. f[0] = <<>>
    BY <1>0, <1>2
  <2>2. Sorted(<<>>, s, t, 0)
    BY DEF Sorted, Range, IsInjective
  <2> QED  BY <2>1, <2>2
<1>4. m \in 1..MaxSeconds /\ m - 1 \in 0..MaxSeconds /\ m - 1 \notin T
  BY <1>0, <1>1, <1>3
<1>5. PICK k, u, c : k = Among(s, At(t, m)) /\ u = f[m - 1] /\ c = f[m]
  OBVIOUS
<1>6. Sorted(u, s, t, m - 1)
  BY <1>4, <1>5
<1>7. /\ k \in Seq(Entries) /\ Range(k) = Range(s) \cap At(t, m)
      /\ IsInjective(s) => IsInjective(k)
  BY <1>5, AmongKeeps DEF Sieved
<1>8. c = k \o u
  <2>1. m \in 0..MaxSeconds /\ m # 0
    BY <1>0, <1>4
  <2>2. f[m] = IF m = 0 THEN <<>> ELSE Among(s, At(t, m)) \o f[m - 1]
    BY <1>2, <2>1, Zenon
  <2>3. f[m] = Among(s, At(t, m)) \o f[m - 1]
    BY <2>1, <2>2, Zenon
  <2> QED  BY <1>5, <2>3, Zenon
<1>9. u \in Seq(Entries)
  BY <1>6 DEF Sorted
<1>10. c \in Seq(Entries) /\ Joined(c, k, u)
  <2>1. k \in Seq(Entries)
    BY <1>7
  <2> QED  BY <2>1, <1>8, <1>9, BehindKeeps, Zenon
<1>11. \A e \in Range(k) : e \in Entries /\ e \in Range(s) /\ t[e] = m
  BY <1>7 DEF At
<1>12. \A e \in Range(u) : e \in Range(s) /\ t[e] \in 1..m - 1
  BY <1>6 DEF Sorted
<1>13. \A e \in Range(s) : e \in Entries
  BY LenProperties, ElementOfSeq DEF Range
<1>14. Range(c) = {e \in Range(s) : t[e] \in 1..m}
  <2>1. \A e \in Range(s) : t[e] = m => e \in Range(k)
    BY <1>7, <1>13 DEF At
  <2>2. \A e \in Range(s) : t[e] \in 1..m - 1 => e \in Range(u)
    BY <1>6 DEF Sorted
  <2>3. \A x \in Nat : x \in 1..m <=> x = m \/ x \in 1..m - 1
    BY <1>4
  <2>4. Range(c) = Range(k) \cup Range(u)
    BY <1>10 DEF Joined
  <2> QED  BY <1>11, <1>12, <1>13, <2>1, <2>2, <2>3, <2>4
<1>15. IsInjective(s) => IsInjective(c)
  <2>1. Range(k) \cap Range(u) = {}
    BY <1>4, <1>11, <1>12
  <2> QED  BY <1>6, <1>7, <1>10, <2>1 DEF Sorted, Joined
<1>16. \A a, b \in DOMAIN c : a < b => t[c[a]] >= t[c[b]]
  <2> SUFFICES ASSUME NEW a \in DOMAIN c, NEW b \in DOMAIN c, a < b PROVE t[c[a]] >= t[c[b]]
    OBVIOUS
  <2>1. CASE \E i, j \in DOMAIN k : i < j /\ c[a] = k[i] /\ c[b] = k[j]
    BY <1>4, <1>11, <2>1 DEF Range
  <2>2. CASE c[a] \in Range(k) /\ c[b] \in Range(u)
    BY <1>4, <1>11, <1>12, <2>2
  <2>3. CASE \E i, j \in DOMAIN u : i < j /\ c[a] = u[i] /\ c[b] = u[j]
    BY <1>6, <2>3 DEF Sorted
  <2> QED  BY <1>10, <2>1, <2>2, <2>3 DEF Joined
<1>17. Sorted(c, s, t, m)
  BY <1>10, <1>14, <1>15, <1>16 DEF Sorted
<1> QED  BY <1>1, <1>5, <1>17

LEMMA NewestFirstSorts ==
    ASSUME NEW s \in Seq(Entries), NEW t \in [Entries -> Nat]
    PROVE  Sorted(NewestFirst(s, t), s, t, MaxSeconds)
<1>1. MaxSeconds \in 0..MaxSeconds
  BY FeedAssumption
<1> QED  BY <1>1, NewestFirstIs, SortingSorts

-----------------------------------------------------------------------------
(* What stays true. *)

Answers == [entries : Seq(Entries), oldest : Entries \cup {Unknown}, of : 0..MaxEntries]
Gets == [by : {"timer", "more"}, start : Nat, answer : {Unknown} \cup Answers]

FeedTypes ==
    /\ page \in Pages /\ dirty \in BOOLEAN /\ more \in BOOLEAN /\ focused \in BOOLEAN
    /\ time \in [Entries -> 0..MaxSeconds]
    /\ log \in Seq(Entries) /\ db \in Seq(Entries) /\ rows \in Seq(Entries) /\ gets \in Seq(Gets)
    /\ missed \subseteq Entries

\* The server lists each entry once, the newest first.
InOrder(l, t) ==
    /\ IsInjective(l) /\ Range(l) = 1..Len(l)
    /\ \A e \in Range(l) : t[e] \in 1..MaxSeconds
    /\ \A a, b \in DOMAIN l : a < b => t[l[a]] >= t[l[b]]

\* Of the first n entries that were made none is older than o.
OldestOf(o, n, l, t) ==
    /\ n \in 0..Len(l)
    /\ o = Unknown => n = 0
    /\ o # Unknown => o \in Range(l) /\ \A e \in 1..n : t[e] >= t[o]

\* A request asks from no further than DB has entries, and an answer has entries of the server.
GetFits(g, d, l, t) ==
    /\ g.start <= Len(d)
    /\ g.answer # Unknown =>
          /\ IsInjective(g.answer.entries) /\ Range(g.answer.entries) \subseteq Range(l)
          /\ OldestOf(g.answer.oldest, g.answer.of, l, t)

\* What stands before an entry that the page was told of has fallen behind unless it was told too.
Passed(l, known, m) ==
    \A i, j \in DOMAIN l : i < j /\ l[j] \in known /\ l[i] \notin known => i <= PageSize \/ l[i] \in m

Plain(text) == text.access = ""

RowsFit ==
    /\ IsInjective(rows) /\ Range(rows) \subseteq Range(db)
    /\ DOMAIN texts = Range(rows) /\ \A e \in Range(rows) : Plain(texts[e]) \/ page.feed = "events"

FeedInv ==
    /\ FeedTypes
    /\ InOrder(log, time)
    /\ IsInjective(db) /\ Range(db) \subseteq Range(log)
    /\ OldestOf(oldest, of, log, time)
    /\ \A g \in Range(gets) : GetFits(g, db, log, time)
    /\ Passed(log, Told(gets), missed)
    /\ RowsFit
    /\ ~more /\ ~page.overview => oldest \in Range(db)

LEMMA TypesAre ==
    ASSUME FeedTypes
    PROVE  /\ Len(log) \in Nat /\ DOMAIN log = 1..Len(log) /\ \A i \in DOMAIN log : log[i] \in Entries
           /\ Len(db) \in Nat /\ DOMAIN db = 1..Len(db) /\ \A i \in DOMAIN db : db[i] \in Entries
           /\ Len(rows) \in Nat /\ DOMAIN rows = 1..Len(rows) /\ \A i \in DOMAIN rows : rows[i] \in Entries
           /\ Len(gets) \in Nat /\ DOMAIN gets = 1..Len(gets) /\ \A i \in DOMAIN gets : gets[i] \in Gets
           /\ \A e \in Entries : time[e] \in 0..MaxSeconds
           /\ Range(log) \subseteq Entries /\ Range(db) \subseteq Entries /\ Range(rows) \subseteq Entries
<1>1. Len(log) \in Nat /\ DOMAIN log = 1..Len(log) /\ \A i \in DOMAIN log : log[i] \in Entries
  BY LenProperties, ElementOfSeq DEF FeedTypes
<1>2. Len(db) \in Nat /\ DOMAIN db = 1..Len(db) /\ \A i \in DOMAIN db : db[i] \in Entries
  BY LenProperties, ElementOfSeq DEF FeedTypes
<1>3. Len(rows) \in Nat /\ DOMAIN rows = 1..Len(rows) /\ \A i \in DOMAIN rows : rows[i] \in Entries
  BY LenProperties, ElementOfSeq DEF FeedTypes
<1>4. Len(gets) \in Nat /\ DOMAIN gets = 1..Len(gets) /\ \A i \in DOMAIN gets : gets[i] \in Gets
  BY LenProperties, ElementOfSeq DEF FeedTypes
<1>5. \A e \in Entries : time[e] \in 0..MaxSeconds
  BY DEF FeedTypes
<1> QED  BY <1>1, <1>2, <1>3, <1>4, <1>5 DEF Range

\* As many different entries as a list has are no more than the first n.
LEMMA ListFits ==
    ASSUME NEW s \in Seq(Entries), IsInjective(s), NEW n \in Nat, Range(s) \subseteq 1..n
    PROVE  Len(s) <= n
<1>1. Len(s) \in Nat /\ s \in [1..Len(s) -> 1..n]
  <2>1. Len(s) \in Nat /\ s \in [1..Len(s) -> Entries]
    BY LenProperties
  <2> QED  BY <2>1 DEF Range
<1> QED  BY <1>1, Fits

\* None of the entries of the server is passed over (Feed's NoHoles).
LEMMA NothingPassedOver == ASSUME FeedInv PROVE NoHoles
<1> SUFFICES ASSUME NEW i \in DOMAIN log, NEW j \in DOMAIN log,
                    i < j, log[j] \in Range(db), log[i] \notin Told(gets)
             PROVE  i <= PageSize \/ log[i] \in missed
  BY DEF NoHoles
<1>1. log[j] \in Told(gets)
  BY DEF Told
<1>2. Passed(log, Told(gets), missed)
  BY DEF FeedInv
<1> QED  BY <1>1, <1>2 DEF Passed

LEMMA OlderCanBeAskedFor == ASSUME FeedInv PROVE MoreWhileOlder
<1> SUFFICES ASSUME ~more, ~page.overview, NEW i \in DOMAIN log, log[i] <= of, time[log[i]] # time[oldest],
                    log[i] \notin Told(gets)
             PROVE  i <= PageSize \/ log[i] \in missed
  BY DEF MoreWhileOlder
<1>0. FeedTypes
  BY DEF FeedInv
<1>1. oldest \in Range(db) /\ oldest \in Range(log) /\ oldest \in Told(gets)
  BY DEF FeedInv, Told
<1>2. oldest # Unknown
  BY <1>0, <1>1, TypesAre, FeedAssumption DEF Entries
<1>3. PICK j \in DOMAIN log : log[j] = oldest
  BY <1>1 DEF Range
<1>4. log[i] \in 1..of /\ time[log[i]] \in Nat /\ time[oldest] \in Nat
  BY <1>0, <1>1, TypesAre DEF FeedInv, OldestOf, Entries
<1>5. time[log[i]] > time[oldest]
  BY <1>2, <1>4 DEF FeedInv, OldestOf
<1>6. ~(j < i)
  BY <1>3, <1>4, <1>5 DEF FeedInv, InOrder
<1>7. i # j
  BY <1>3, <1>4, <1>5
<1>8. i < j
  BY <1>0, <1>6, <1>7, TypesAre
<1> QED  BY <1>1, <1>3, <1>8 DEF FeedInv, Passed

LEMMA FeedIsTyped == ASSUME FeedInv PROVE FeedTypeOK
<1>0. FeedTypes
  BY DEF FeedInv
<1>1. MaxEntries \in Nat
  BY FeedAssumption
<1>2. Len(log) <= MaxEntries /\ Len(db) <= MaxEntries
  <2>1. Range(log) \subseteq 1..MaxEntries /\ Range(db) \subseteq 1..MaxEntries
    BY <1>0, TypesAre DEF Entries
  <2>2. log \in Seq(Entries) /\ IsInjective(log) /\ db \in Seq(Entries) /\ IsInjective(db)
    BY <1>0 DEF FeedTypes, FeedInv, InOrder
  <2> QED  BY <1>1, <2>1, <2>2, ListFits
<1>3. Of(db) /\ Of(rows)
  BY <1>0, TypesAre DEF FeedInv, RowsFit, Of
<1>4. oldest \in Entries \cup {Unknown} /\ of \in 0..MaxEntries
  BY <1>0, <1>1, <1>2, TypesAre DEF FeedInv, OldestOf
<1>5. ASSUME NEW i \in DOMAIN gets
      PROVE  gets[i].start \in 0..MaxEntries + 1 /\ (gets[i].answer # Unknown => Of(gets[i].answer.entries))
  <2>1. GetFits(gets[i], db, log, time)
    BY DEF FeedInv, Range
  <2>2. gets[i].start \in Nat
    BY <1>0, TypesAre DEF Gets
  <2>3. Len(db) \in Nat
    BY <1>0, TypesAre
  <2>4. Range(log) \subseteq Entries
    BY <1>0, TypesAre
  <2> QED  BY <1>1, <1>2, <2>1, <2>2, <2>3, <2>4 DEF GetFits, Of
<1>6. DOMAIN texts = Range(rows) /\ \A e \in Range(rows) : texts[e].access = "" \/ page.feed = "events"
  BY Zenon DEF FeedInv, RowsFit, Plain
<1> QED  BY <1>0, <1>3, <1>4, <1>5, <1>6, Zenon DEF FeedTypeOK, FeedInv, InOrder, RowsFit, FeedTypes

-----------------------------------------------------------------------------
(* What the page has been told. *)

ToldOf(d, g) == Range(d) \cup UNION {IF g[i].answer = Unknown THEN {} ELSE Range(g[i].answer.entries) : i \in DOMAIN g}

LEMMA ToldIs ==
    ASSUME NEW d, NEW g, NEW e
    PROVE  e \in ToldOf(d, g) <=>
              e \in Range(d) \/ \E i \in DOMAIN g : g[i].answer # Unknown /\ e \in Range(g[i].answer.entries)
BY DEF ToldOf

\* What has fallen behind is what keeps Passed true: nothing else is to be shown of an entry that is made.
LEMMA BehindPassed ==
    ASSUME NEW A, NEW l \in Seq(A), NEW known, NEW m
    PROVE  Passed(l, known, m \cup Behind(l, known))
<1>1. DOMAIN l = 1..Len(l) /\ Len(l) \in Nat
  BY LenProperties
<1> SUFFICES ASSUME NEW i \in DOMAIN l, NEW j \in DOMAIN l, i < j, l[j] \in known, l[i] \notin known, ~(i <= PageSize)
             PROVE  l[i] \in m \cup Behind(l, known)
  BY DEF Passed
<1>2. j \in i + 1..Len(l)
  BY <1>1
<1>3. i > PageSize
  BY <1>1, FeedAssumption
<1>4. l[i] \in Behind(l, known)
  BY <1>2, <1>3 DEF Behind
<1> QED  BY <1>4

\* What is not told any more has fallen behind, or nothing older is told.
LEMMA LostPassed ==
    ASSUME NEW A, NEW l \in Seq(A), NEW known, NEW less, less \subseteq known, NEW m, Passed(l, known, m)
    PROVE  Passed(l, less, m \cup (known \cap Behind(l, less)))
<1>1. DOMAIN l = 1..Len(l) /\ Len(l) \in Nat
  BY LenProperties
<1> SUFFICES ASSUME NEW i \in DOMAIN l, NEW j \in DOMAIN l, i < j, l[j] \in less, l[i] \notin less, ~(i <= PageSize)
             PROVE  l[i] \in m \cup (known \cap Behind(l, less))
  BY DEF Passed
<1>2. j \in i + 1..Len(l)
  BY <1>1
<1>3. i > PageSize
  BY <1>1, FeedAssumption
<1>4. l[i] \in Behind(l, less)
  BY <1>2, <1>3 DEF Behind
<1>5. CASE l[i] \in known
  BY <1>4, <1>5
<1>6. CASE l[i] \notin known
  BY <1>6 DEF Passed
<1> QED  BY <1>5, <1>6

\* An answer is told: the first entries of those that were not, unless the page has been told of as many entries as are
\* passed over, one of which then is older.
LEMMA AnswerPassed ==
    ASSUME NEW l \in Seq(Entries), IsInjective(l), NEW known, NEW d \in Seq(Entries), IsInjective(d),
           Range(d) \subseteq known, Range(d) \subseteq Range(l),
           NEW start \in Nat, start <= Len(d), NEW new, NEW to \in Nat, new = {l[i] : i \in {j \in DOMAIN l : start < j /\ j <= to}},
           NEW m, Passed(l, known, m)
    PROVE  Passed(l, known \cup new, m)
<1>1. DOMAIN l = 1..Len(l) /\ Len(l) \in Nat /\ DOMAIN d = 1..Len(d) /\ Len(d) \in Nat
  BY LenProperties
<1> SUFFICES ASSUME NEW i \in DOMAIN l, NEW j \in DOMAIN l, i < j, l[j] \in known \cup new, l[i] \notin known \cup new,
                    ~(i <= PageSize), l[i] \notin m
             PROVE  FALSE
  BY DEF Passed
<1>2. \A k \in DOMAIN l : i < k => l[k] \notin known
  BY DEF Passed
<1>3. l[j] \in new
  BY <1>2
<1>4. PICK k \in DOMAIN l : start < k /\ k <= to /\ l[j] = l[k]
  BY <1>3
<1>5. j = k
  BY <1>4 DEF IsInjective
<1>6. ~(start < i)
  <2>1. i <= to
    BY <1>1, <1>4, <1>5
  <2> QED  BY <2>1
<1>7. i <= start
  BY <1>1, <1>6
<1>8. \A e \in Range(d) : \E k2 \in 1..i - 1 : l[k2] = e
  <2> SUFFICES ASSUME NEW e \in Range(d) PROVE \E k2 \in 1..i - 1 : l[k2] = e
    OBVIOUS
  <2>1. PICK k2 \in DOMAIN l : l[k2] = e
    BY DEF Range
  <2>2. e \in known
    OBVIOUS
  <2>3. ~(i < k2) /\ k2 # i
    BY <1>2, <2>1, <2>2
  <2> QED  BY <1>1, <2>1, <2>3
<1>9. PICK h : h = [a \in 1..Len(d) |-> CHOOSE k2 \in 1..i - 1 : l[k2] = d[a]]
  OBVIOUS
<1>10. \A a \in 1..Len(d) : h[a] \in 1..i - 1 /\ l[h[a]] = d[a]
  <2> SUFFICES ASSUME NEW a \in 1..Len(d) PROVE h[a] \in 1..i - 1 /\ l[h[a]] = d[a]
    OBVIOUS
  <2>1. \E k2 \in 1..i - 1 : l[k2] = d[a]
    BY <1>1, <1>8 DEF Range
  <2>2. h[a] = CHOOSE k2 \in 1..i - 1 : l[k2] = d[a]
    BY <1>9
  <2> QED  BY <2>1, <2>2
<1>11. h \in [1..Len(d) -> 1..i - 1]
  BY <1>9, <1>10
<1>12. IsInjective(h)
  <2> SUFFICES ASSUME NEW a \in 1..Len(d), NEW b \in 1..Len(d), h[a] = h[b] PROVE a = b
    BY <1>11 DEF IsInjective
  <2>1. d[a] = d[b]
    BY <1>10
  <2> QED  BY <1>1, <2>1 DEF IsInjective
<1>13. Len(d) <= i - 1
  <2>1. i - 1 \in Nat
    BY <1>1
  <2> QED  BY <1>1, <1>11, <1>12, <2>1, Fits, Zenon
<1> QED  BY <1>1, <1>7, <1>13

-----------------------------------------------------------------------------
(* The entries of the server. *)

\* What holds of the entries there were still holds when there are more and the old ones keep their times.
Grown(l, t, l2, t2) ==
    /\ Len(l) <= Len(l2) /\ Range(l) \subseteq Range(l2)
    /\ \A e \in Range(l) : t2[e] = t[e]

LEMMA OldestOfGrown ==
    ASSUME NEW l \in Seq(Entries), NEW t, NEW l2 \in Seq(Entries), NEW t2, InOrder(l, t), Grown(l, t, l2, t2),
           NEW o, NEW n, OldestOf(o, n, l, t)
    PROVE  OldestOf(o, n, l2, t2)
<1>1. Len(l) \in Nat /\ Len(l2) \in Nat
  BY LenProperties
<1>2. n \in 0..Len(l2) /\ (o = Unknown => n = 0)
  BY <1>1 DEF Grown, OldestOf
<1>3. ASSUME o # Unknown PROVE o \in Range(l2) /\ \A e \in 1..n : t2[e] >= t2[o]
  <2>1. o \in Range(l) /\ \A e \in 1..n : t[e] >= t[o]
    BY <1>3 DEF OldestOf
  <2>2. \A e \in 1..n : e \in Range(l)
    BY <1>1 DEF OldestOf, InOrder
  <2> QED  BY <2>1, <2>2 DEF Grown
<1> QED  BY <1>2, <1>3 DEF OldestOf

LEMMA GetFitsGrown ==
    ASSUME NEW l \in Seq(Entries), NEW t, NEW l2 \in Seq(Entries), NEW t2, InOrder(l, t), Grown(l, t, l2, t2),
           NEW g, NEW d, GetFits(g, d, l, t)
    PROVE  GetFits(g, d, l2, t2)
<1>1. ASSUME g.answer # Unknown
      PROVE  /\ IsInjective(g.answer.entries) /\ Range(g.answer.entries) \subseteq Range(l2)
             /\ OldestOf(g.answer.oldest, g.answer.of, l2, t2)
  <2>1. /\ IsInjective(g.answer.entries) /\ Range(g.answer.entries) \subseteq Range(l)
        /\ OldestOf(g.answer.oldest, g.answer.of, l, t)
    BY <1>1 DEF GetFits
  <2>2. OldestOf(g.answer.oldest, g.answer.of, l2, t2)
    BY <2>1, OldestOfGrown
  <2>3. Range(l) \subseteq Range(l2)
    BY DEF Grown
  <2> QED  BY <2>1, <2>2, <2>3
<1> QED  BY <1>1 DEF GetFits

\* An entry more, or another order: what the page has is of the server, and what has fallen behind is counted.
LEMMA ServerKeeps ==
    ASSUME FeedInv, NEW l \in Seq(Entries), NEW t \in [Entries -> 0..MaxSeconds],
           InOrder(l, t), Grown(log, time, l, t),
           log' = l, time' = t, dirty' \in BOOLEAN, missed' = missed \cup Behind(l, Told(gets)),
           UNCHANGED <<page, db, oldest, of, gets, rows, texts, more, focused>>
    PROVE  FeedInv'
<1>0. FeedTypes /\ log \in Seq(Entries)
  BY DEF FeedInv, FeedTypes
<1>1. missed' \subseteq Entries
  <2>1. DOMAIN l = 1..Len(l) /\ \A i \in DOMAIN l : l[i] \in Entries
    BY LenProperties, ElementOfSeq
  <2>2. Behind(l, Told(gets)) \subseteq Entries
    BY <2>1 DEF Behind
  <2> QED  BY <1>0, <2>2 DEF FeedTypes
<1>2. FeedTypes'
  BY <1>0, <1>1 DEF FeedTypes
<1>3. InOrder(log, time)'
  BY DEF InOrder
<1>4. (IsInjective(db) /\ Range(db) \subseteq Range(log))'
  BY DEF FeedInv, Grown
<1>5. OldestOf(oldest, of, l, t)
  BY <1>0, OldestOfGrown DEF FeedInv
<1>6. OldestOf(oldest, of, log, time)'
  BY <1>5 DEF OldestOf
<1>7. \A g \in Range(gets) : GetFits(g, db, l, t)
  BY <1>0, GetFitsGrown DEF FeedInv
<1>8. (\A g \in Range(gets) : GetFits(g, db, log, time))'
  BY <1>7 DEF GetFits, OldestOf
<1>9. Passed(l, Told(gets), missed \cup Behind(l, Told(gets)))
  BY BehindPassed
<1>10. Passed(log, Told(gets), missed)'
  BY <1>9 DEF Passed, Told
<1>11. RowsFit'
  BY DEF FeedInv, RowsFit
<1>12. (~more /\ ~page.overview => oldest \in Range(db))'
  BY DEF FeedInv
<1> QED  BY <1>2, <1>3, <1>4, <1>6, <1>8, <1>10, <1>11, <1>12 DEF FeedInv

LEMMA MadeKeeps == ASSUME FeedInv, Made PROVE FeedInv'
<1>0. FeedTypes /\ log \in Seq(Entries) /\ time \in [Entries -> 0..MaxSeconds] /\ InOrder(log, time)
  BY DEF FeedInv, FeedTypes
<1>1. PICK e : e = Len(log) + 1
  OBVIOUS
<1>2. PICK s \in 1..MaxSeconds, p \in 1..Len(log) + 1 :
         /\ NewestFirst(InsertAt(log, p, e), [time EXCEPT ![e] = s]) = InsertAt(log, p, e)
         /\ log' = InsertAt(log, p, e) /\ time' = [time EXCEPT ![e] = s]
         /\ missed' = missed \cup Behind(InsertAt(log, p, e), Told(gets))
  BY <1>1 DEF Made
<1>3. PICK l : l = InsertAt(log, p, e)
  OBVIOUS
<1>4. PICK t : t = [time EXCEPT ![e] = s]
  OBVIOUS
<1>5. Len(log) \in Nat /\ Range(log) = 1..Len(log) /\ e \in Entries /\ e \notin Range(log) /\ Range(log) \subseteq Entries
  BY <1>0, <1>1, TypesAre, FeedAssumption DEF Made, InOrder, Entries
<1>6. t \in [Entries -> 0..MaxSeconds] /\ t[e] = s /\ \A x \in Entries : x # e => t[x] = time[x]
  BY <1>0, <1>4, <1>5, FeedAssumption
<1>7. l \in Seq(Entries) /\ Len(l) = Len(log) + 1 /\ Range(l) = Range(log) \cup {e} /\ IsInjective(l)
  <2>1. IsInjective(log)
    BY <1>0 DEF InOrder
  <2>2. p \in 1..Len(log) + 1 /\ e \in Entries
    BY <1>2, <1>5
  <2>3. l \in Seq(Entries) /\ Inserted(l, log, e)
    BY <1>0, <1>3, <2>2, InsertAtIs
  <2> QED  BY <1>5, <2>1, <2>3 DEF Inserted
<1>8. Sorted(l, l, t, MaxSeconds)
  <2>1. t \in [Entries -> Nat]
    BY <1>6, FeedAssumption
  <2>2. NewestFirst(l, t) = l
    BY <1>2, <1>3, <1>4, Zenon
  <2>3. Sorted(NewestFirst(l, t), l, t, MaxSeconds)
    BY <1>7, <2>1, NewestFirstSorts
  <2> QED  BY <2>2, <2>3, Zenon
<1>9. InOrder(l, t)
  <2>1. Range(l) = 1..Len(l)
    BY <1>1, <1>5, <1>7
  <2>2. \A x \in Range(l) : t[x] \in 1..MaxSeconds
    BY <1>0, <1>5, <1>6, <1>7 DEF InOrder
  <2> QED  BY <1>7, <1>8, <2>1, <2>2 DEF InOrder, Sorted
<1>10. Grown(log, time, l, t)
  BY <1>5, <1>6, <1>7 DEF Grown
<1>11. /\ log' = l /\ time' = t /\ dirty' \in BOOLEAN /\ missed' = missed \cup Behind(l, Told(gets))
       /\ UNCHANGED <<page, db, oldest, of, gets, rows, texts, more, focused>>
  BY <1>2, <1>3, <1>4 DEF Made
<1> QED  BY <1>6, <1>7, <1>9, <1>10, <1>11, ServerKeeps

LEMMA ReorderedKeeps == ASSUME FeedInv, Reordered PROVE FeedInv'
<1>0. FeedTypes /\ log \in Seq(Entries) /\ time \in [Entries -> 0..MaxSeconds] /\ InOrder(log, time)
  BY DEF FeedInv, FeedTypes
<1>1. PICK i \in 1..Len(log) - 1 :
         time[log[i]] = time[log[i+1]] /\ log' = [log EXCEPT ![i] = log[i+1], ![i+1] = log[i]]
  BY DEF Reordered
<1>2. PICK l : l = log'
  OBVIOUS
<1>3. Len(log) \in Nat /\ DOMAIN log = 1..Len(log) /\ i \in DOMAIN log /\ i + 1 \in DOMAIN log /\ i # i + 1
  BY <1>0, TypesAre
<1>4. /\ DOMAIN l = DOMAIN log /\ l[i] = log[i+1] /\ l[i+1] = log[i]
      /\ \A j \in DOMAIN log : j # i /\ j # i + 1 => l[j] = log[j]
  <2>1. PICK m : m = [log EXCEPT ![i] = log[i+1]]
    OBVIOUS
  <2>2. l = [m EXCEPT ![i+1] = log[i]]
    BY <1>1, <1>2, <2>1
  <2>3. DOMAIN m = DOMAIN log /\ m[i] = log[i+1] /\ \A j \in DOMAIN log : j # i => m[j] = log[j]
    BY <1>3, <2>1
  <2> QED  BY <1>3, <2>2, <2>3
<1>5. l \in Seq(Entries) /\ Len(l) = Len(log)
  <2>1. \A j \in DOMAIN log : l[j] \in Entries
    BY <1>0, <1>3, <1>4, TypesAre
  <2>2. l = [j \in 1..Len(log) |-> l[j]]
    <3>1. PICK k : k = i + 1
      OBVIOUS
    <3>2. PICK a, b : a = log[i+1] /\ b = log[i]
      OBVIOUS
    <3>3. l = [j \in DOMAIN log |-> IF j = k THEN b ELSE IF j = i THEN a ELSE log[j]]
      BY <1>0, <1>1, <1>2, <1>3, <3>1, <3>2
    <3> QED  BY <1>3, <1>4, <3>3
  <2> QED  BY <1>3, <2>1, <2>2, IsASeq, LenProperties
<1>6. Range(l) = Range(log)
  <2>1. \A j \in DOMAIN log : \E k \in DOMAIN log : l[k] = log[j]
    BY <1>3, <1>4
  <2>2. \A j \in DOMAIN log : \E k \in DOMAIN log : log[k] = l[j]
    BY <1>3, <1>4
  <2>3. \A x \in Range(l) : x \in Range(log)
    <3> SUFFICES ASSUME NEW j \in DOMAIN log PROVE l[j] \in Range(log)
      BY <1>4 DEF Range
    <3> QED  BY <2>2 DEF Range
  <2>4. \A x \in Range(log) : x \in Range(l)
    <3> SUFFICES ASSUME NEW j \in DOMAIN log PROVE log[j] \in Range(l)
      BY DEF Range
    <3>1. PICK k \in DOMAIN log : l[k] = log[j]
      BY <2>1
    <3> QED  BY <1>4, <3>1 DEF Range
  <2> QED  BY <2>3, <2>4
<1>7. IsInjective(l)
  <2> SUFFICES ASSUME NEW a \in DOMAIN log, NEW b \in DOMAIN log, l[a] = l[b] PROVE a = b
    BY <1>4 DEF IsInjective
  <2>1. \A x, y \in DOMAIN log : log[x] = log[y] => x = y
    BY <1>0 DEF InOrder, IsInjective
  <2> QED  BY <1>3, <1>4, <2>1
<1>8. \A j \in DOMAIN log : time[l[j]] = time[log[j]]
  BY <1>1, <1>3, <1>4
<1>9. InOrder(l, time)
  <2>1. \A a, b \in DOMAIN l : a < b => time[l[a]] >= time[l[b]]
    BY <1>0, <1>4, <1>8 DEF InOrder
  <2> QED  BY <1>0, <1>5, <1>6, <1>7, <2>1 DEF InOrder
<1>10. Grown(log, time, l, time)
  BY <1>3, <1>5, <1>6 DEF Grown
<1>11. /\ log' = l /\ time' = time /\ dirty' \in BOOLEAN /\ missed' = missed \cup Behind(l, Told(gets))
       /\ UNCHANGED <<page, db, oldest, of, gets, rows, texts, more, focused>>
  BY <1>0, <1>2 DEF Reordered, FeedTypes
<1>12. PICK t : t = time
  OBVIOUS
<1>13. t \in [Entries -> 0..MaxSeconds] /\ InOrder(l, t) /\ Grown(log, time, l, t) /\ time' = t
  BY <1>0, <1>9, <1>10, <1>11, <1>12
<1> QED  BY <1>5, <1>11, <1>13, ServerKeeps

-----------------------------------------------------------------------------
(* Requests. *)

\* Requests come and go: what the page has does not change.
LEMMA AskingKeeps ==
    ASSUME FeedInv, gets' \in Seq(Gets), \A g \in Range(gets') : GetFits(g, db, log, time),
           missed' \in SUBSET Entries, Passed(log, ToldOf(db, gets'), missed'), dirty' \in BOOLEAN,
           UNCHANGED <<page, log, time, db, oldest, of, rows, texts, more, focused>>
    PROVE  FeedInv'
<1>0. FeedTypes
  BY DEF FeedInv
<1>1. FeedTypes'
  BY <1>0 DEF FeedTypes
<1>2. InOrder(log, time)'
  BY DEF FeedInv, InOrder
<1>3. (IsInjective(db) /\ Range(db) \subseteq Range(log))'
  BY DEF FeedInv
<1>4. OldestOf(oldest, of, log, time)'
  BY DEF FeedInv, OldestOf
<1>5. (\A g \in Range(gets) : GetFits(g, db, log, time))'
  BY DEF GetFits, OldestOf
<1>6. Passed(log, Told(gets), missed)'
  BY DEF Passed, Told, ToldOf
<1>7. RowsFit'
  BY DEF FeedInv, RowsFit
<1>8. (~more /\ ~page.overview => oldest \in Range(db))'
  BY DEF FeedInv
<1> QED  BY <1>1, <1>2, <1>3, <1>4, <1>5, <1>6, <1>7, <1>8 DEF FeedInv

LEMMA AskedKeeps ==
    ASSUME FeedInv, NEW by \in {"timer", "more"}, NEW start \in Nat, start <= Len(db), Asked(by, start),
           UNCHANGED <<page, log, time, dirty, db, oldest, of, rows, texts, more, focused, missed>>
    PROVE  FeedInv'
<1>0. FeedTypes /\ gets \in Seq(Gets)
  BY DEF FeedInv, FeedTypes
<1>1. PICK g : g = [by |-> by, start |-> start, answer |-> Unknown]
  OBVIOUS
<1>2. g \in Gets /\ g.answer = Unknown /\ g.start = start
  BY <1>1 DEF Gets
<1>3. gets' = Append(gets, g)
  BY <1>1 DEF Asked
<1>4. /\ gets' \in Seq(Gets) /\ Len(gets') = Len(gets) + 1
      /\ \A i \in 1..Len(gets) : gets'[i] = gets[i]
      /\ gets'[Len(gets) + 1] = g
  BY <1>0, <1>2, <1>3, AppendProperties
<1>5. DOMAIN gets = 1..Len(gets) /\ Len(gets) \in Nat /\ DOMAIN gets' = 1..Len(gets) + 1
  BY <1>0, <1>4, LenProperties
<1>6. \A i \in DOMAIN gets' : (i \in DOMAIN gets /\ gets'[i] = gets[i]) \/ gets'[i] = g
  BY <1>4, <1>5
<1>7. \A h \in Range(gets') : GetFits(h, db, log, time)
  <2>1. GetFits(g, db, log, time)
    BY <1>2 DEF GetFits
  <2>2. \A i \in DOMAIN gets : GetFits(gets[i], db, log, time)
    BY DEF FeedInv, Range
  <2> QED  BY <1>6, <2>1, <2>2 DEF Range
<1>8. ToldOf(db, gets') = Told(gets)
  <2>1. \A e : e \in ToldOf(db, gets') <=> e \in ToldOf(db, gets)
    <3> SUFFICES ASSUME NEW e PROVE e \in ToldOf(db, gets') <=> e \in ToldOf(db, gets)
      OBVIOUS
    <3>1. e \in ToldOf(db, gets') <=>
             e \in Range(db) \/ \E i \in DOMAIN gets' : gets'[i].answer # Unknown /\ e \in Range(gets'[i].answer.entries)
      BY ToldIs
    <3>2. e \in ToldOf(db, gets) <=>
             e \in Range(db) \/ \E i \in DOMAIN gets : gets[i].answer # Unknown /\ e \in Range(gets[i].answer.entries)
      BY ToldIs
    <3>3. \A i \in DOMAIN gets : i \in DOMAIN gets' /\ gets'[i] = gets[i]
      BY <1>4, <1>5
    <3> QED  BY <1>2, <1>6, <3>1, <3>2, <3>3
  <2>2. ToldOf(db, gets') = ToldOf(db, gets)
    BY <2>1
  <2> QED  BY <2>2 DEF Told, ToldOf
<1>9. Passed(log, ToldOf(db, gets'), missed')
  BY <1>8 DEF FeedInv
<1>10. missed' \in SUBSET Entries /\ dirty' \in BOOLEAN
  BY <1>0 DEF FeedTypes
<1> QED  BY <1>4, <1>7, <1>9, <1>10, AskingKeeps

LEMMA PollFeedKeeps == ASSUME FeedInv, PollFeed PROVE FeedInv'
<1>1. 0 \in Nat /\ 0 <= Len(db)
  BY TypesAre DEF FeedInv
<1> QED  BY <1>1, AskedKeeps DEF PollFeed

LEMMA MoreKeeps == ASSUME FeedInv, More PROVE FeedInv'
<1>1. MoreRange \in Nat /\ MoreRange <= Len(db)
  BY TypesAre DEF FeedInv, MoreRange
<1> QED  BY <1>1, AskedKeeps DEF More

LEMMA FailsKeeps == ASSUME FeedInv, Fails PROVE FeedInv'
<1>0. FeedTypes /\ gets \in Seq(Gets) /\ log \in Seq(Entries)
  BY DEF FeedInv, FeedTypes
<1>1. PICK i \in DOMAIN gets : gets' = RemoveAt(gets, i)
  BY DEF Fails
<1>2. PICK r : r = gets'
  OBVIOUS
<1>3. r \in Seq(Gets) /\ Range(r) \subseteq Range(gets)
  BY <1>0, <1>1, <1>2, RemoveAtIs
<1>4. \A g \in Range(gets') : GetFits(g, db, log, time)
  BY <1>2, <1>3 DEF FeedInv
<1>5. ToldOf(db, r) \subseteq ToldOf(db, gets)
  <2> SUFFICES ASSUME NEW e, e \in ToldOf(db, r) PROVE e \in ToldOf(db, gets)
    OBVIOUS
  <2>1. CASE e \in Range(db)
    BY <2>1, ToldIs
  <2>2. CASE \E j \in DOMAIN r : r[j].answer # Unknown /\ e \in Range(r[j].answer.entries)
    <3>1. PICK j \in DOMAIN r : r[j].answer # Unknown /\ e \in Range(r[j].answer.entries)
      BY <2>2
    <3>2. r[j] \in Range(gets)
      BY <1>3 DEF Range
    <3>3. PICK k \in DOMAIN gets : gets[k] = r[j]
      BY <3>2 DEF Range
    <3> QED  BY <3>1, <3>3, ToldIs
  <2> QED  BY <2>1, <2>2, ToldIs
<1>6. missed' = missed \cup (ToldOf(db, gets) \cap Behind(log, ToldOf(db, r)))
  BY <1>2 DEF Fails, Told, ToldOf
<1>7. Passed(log, ToldOf(db, gets), missed)
  BY DEF FeedInv, Told, ToldOf
<1>8. Passed(log, ToldOf(db, r), missed \cup (ToldOf(db, gets) \cap Behind(log, ToldOf(db, r))))
  BY <1>0, <1>5, <1>7, LostPassed
<1>9. Passed(log, ToldOf(db, gets'), missed')
  BY <1>2, <1>6, <1>8
<1>10. missed' \in SUBSET Entries
  <2>1. Behind(log, ToldOf(db, r)) \subseteq Entries
    BY <1>0, TypesAre DEF Behind
  <2> QED  BY <1>0, <1>6, <2>1 DEF FeedTypes
<1>11. dirty' \in BOOLEAN /\ UNCHANGED <<page, log, time, db, oldest, of, rows, texts, more, focused>>
  BY <1>0 DEF FeedTypes, Fails
<1> QED  BY <1>2, <1>3, <1>4, <1>9, <1>10, <1>11, AskingKeeps

\* An answer: the newest, or those that follow the ones DB has, as many as a page has.
LEMMA ServedKeeps == ASSUME FeedInv, NEW i, ServedFeed(i) PROVE FeedInv'
<1>0. /\ FeedTypes /\ gets \in Seq(Gets) /\ log \in Seq(Entries) /\ i \in DOMAIN gets /\ gets[i].answer = Unknown
      /\ InOrder(log, time)
  BY DEF FeedInv, FeedTypes, ServedFeed
<1>1. PICK start : start = gets[i].start
  OBVIOUS
<1>2. gets[i] \in Gets /\ start \in Nat /\ start <= Len(db)
  BY <1>0, <1>1, TypesAre DEF Gets, FeedInv, GetFits, Range
<1>3. Len(log) \in Nat /\ DOMAIN log = 1..Len(log) /\ Len(db) \in Nat /\ Len(db) <= Len(log) /\ Len(log) <= MaxEntries /\ MaxEntries \in Nat
  <2>1. Len(log) \in Nat /\ DOMAIN log = 1..Len(log) /\ Len(db) \in Nat /\ MaxEntries \in Nat
    BY <1>0, TypesAre, FeedAssumption
  <2>2. Range(db) \subseteq 1..Len(log) /\ Range(log) \subseteq 1..MaxEntries
    BY <1>0, TypesAre DEF FeedInv, InOrder, Entries
  <2>3. db \in Seq(Entries) /\ IsInjective(db) /\ IsInjective(log)
    BY <1>0 DEF FeedTypes, FeedInv, InOrder
  <2> QED  BY <1>0, <2>1, <2>2, <2>3, ListFits
<1>4. PICK rest : rest = SubSeq(log, start + 1, Len(log))
  OBVIOUS
<1>5. rest \in Seq(Entries) /\ Slice(rest, log, start + 1, Len(log))
  <2>1. start + 1 \in Nat \ {0} /\ Len(log) <= Len(log)
    BY <1>2, <1>3
  <2> QED  BY <1>0, <1>3, <1>4, <2>1, SliceIs, Zenon
<1>6. PICK n : n = IF PageSize < Len(rest) THEN PageSize ELSE Len(rest)
  OBVIOUS
<1>7. Len(rest) = Len(log) - start /\ n \in Nat /\ n <= Len(rest) /\ DOMAIN rest = 1..Len(rest)
  <2>1. Len(rest) = IF start + 1 <= Len(log) THEN Len(log) - (start + 1) + 1 ELSE 0
    BY <1>5 DEF Slice
  <2>2. Len(rest) = Len(log) - start /\ Len(rest) \in Nat
    <3>1. start \in Nat /\ start <= Len(log) /\ Len(log) \in Nat
      BY <1>2, <1>3
    <3>2. CASE start + 1 <= Len(log)
      BY <2>1, <3>1, <3>2
    <3>3. CASE ~(start + 1 <= Len(log))
      <4>1. start = Len(log)
        BY <3>1, <3>3
      <4> QED  BY <2>1, <3>1, <3>3, <4>1
    <3> QED  BY <3>2, <3>3
  <2>3. PageSize \in Nat
    BY FeedAssumption
  <2>4. n \in Nat /\ n <= Len(rest)
    BY <1>6, <2>2, <2>3
  <2> QED  BY <1>5, <2>2, <2>4, LenProperties
<1>8. PICK part : part = SubSeq(rest, 1, n)
  OBVIOUS
<1>9. part \in Seq(Entries) /\ Slice(part, rest, 1, n)
  <2>1. 1 \in Nat \ {0}
    OBVIOUS
  <2> QED  BY <1>5, <1>7, <1>8, <2>1, SliceIs, Zenon
<1>10. PICK answer : answer = [entries |-> part, oldest |-> IF log = <<>> THEN Unknown ELSE log[Len(log)], of |-> Len(log)]
  OBVIOUS
<1>11. ListedFeed(start) = answer
  BY <1>4, <1>6, <1>8, <1>10 DEF ListedFeed, ListedEvents, ListedLogs, Taken, Last
<1>12. Range(part) = {log[j] : j \in {j \in DOMAIN log : start < j /\ j <= start + n}} /\ IsInjective(part)
  <2>1. \A j \in DOMAIN part : j \in 1..n /\ j \in DOMAIN rest /\ part[j] = rest[j]
    <3>1. \A j \in DOMAIN part : 1 + j - 1 \in 1..n /\ 1 + j - 1 \in DOMAIN rest /\ part[j] = rest[1 + j - 1]
      BY <1>9 DEF Slice
    <3>2. \A j \in DOMAIN part : j \in Nat
      BY <1>9, LenProperties
    <3> QED  BY <3>1, <3>2
  <2>2. \A j \in DOMAIN rest : start + 1 + j - 1 \in DOMAIN log /\ rest[j] = log[start + 1 + j - 1]
    BY <1>5 DEF Slice
  <2>3. ASSUME NEW j \in DOMAIN part
        PROVE  start + j \in DOMAIN log /\ start < start + j /\ start + j <= start + n /\ part[j] = log[start + j]
    <3>1. start + 1 + j - 1 = start + j
      BY <1>2, <2>1
    <3> QED  BY <1>2, <1>7, <2>1, <2>2, <3>1
  <2>4. ASSUME NEW j \in DOMAIN log, start < j, j <= start + n PROVE log[j] \in Range(part)
    <3>1. j - start \in 1..n /\ start + 1 + (j - start) - 1 = j
      BY <1>2, <1>3, <1>7, <2>4
    <3>2. rest[j - start] \in Range(part)
      BY <1>9, <3>1 DEF Slice
    <3>3. rest[j - start] = log[j]
      BY <1>7, <2>2, <3>1
    <3> QED  BY <3>2, <3>3
  <2>5. IsInjective(part)
    BY <1>0, <1>5, <1>9 DEF Slice, InOrder
  <2>6. \A x \in Range(part) : \E j \in DOMAIN log : start < j /\ j <= start + n /\ x = log[j]
    BY <2>3 DEF Range
  <2> QED  BY <2>4, <2>5, <2>6
<1>13. answer \in Answers /\ OldestOf(answer.oldest, answer.of, log, time)
  <2>1. CASE log = <<>>
    <3>1. Len(log) = 0
      BY <2>1
    <3>2. answer.entries = part /\ answer.oldest = Unknown /\ answer.of = 0
      BY <1>10, <2>1, <3>1
    <3>3. answer \in Answers
      BY <1>3, <1>9, <1>10, <2>1, <3>1 DEF Answers
    <3> QED  BY <3>1, <3>2, <3>3 DEF OldestOf
  <2>2. CASE log # <<>>
    <3>1. Len(log) \in DOMAIN log
      BY <1>0, <1>3, <2>2, EmptySeq
    <3>2. answer.oldest = log[Len(log)] /\ answer.of = Len(log) /\ log[Len(log)] \in Entries
      BY <1>0, <1>10, <2>2, <3>1, TypesAre
    <3>3. answer \in Answers
      BY <1>3, <1>9, <1>10, <2>2, <3>2 DEF Answers
    <3>4. log[Len(log)] # Unknown
      BY <3>2, FeedAssumption DEF Entries
    <3>5. ASSUME NEW e \in 1..Len(log) PROVE time[e] >= time[log[Len(log)]]
      <4>1. PICK j \in DOMAIN log : log[j] = e
        BY <1>0 DEF InOrder, Range
      <4>2. CASE j = Len(log)
        <5>1. time[e] \in Nat
          BY <1>0, <4>1, TypesAre, FeedAssumption
        <5> QED  BY <4>1, <4>2, <5>1
      <4>3. CASE j # Len(log)
        <5>1. j < Len(log)
          BY <1>3, <4>3
        <5> QED  BY <1>0, <3>1, <4>1, <5>1 DEF InOrder
      <4> QED  BY <4>2, <4>3
    <3>6. log[Len(log)] \in Range(log)
      BY <3>1 DEF Range
    <3> QED  BY <1>3, <3>2, <3>3, <3>4, <3>5, <3>6 DEF OldestOf
  <2> QED  BY <2>1, <2>2
<1>14. PICK g : g = [gets[i] EXCEPT !.answer = answer]
  OBVIOUS
<1>15. g \in Gets /\ g.answer = answer /\ g.start = start
  BY <1>1, <1>2, <1>13, <1>14 DEF Gets
<1>16. gets' = [gets EXCEPT ![i] = g]
  BY <1>1, <1>11, <1>14 DEF ServedFeed
<1>17. gets' \in Seq(Gets) /\ DOMAIN gets' = DOMAIN gets /\ gets'[i] = g /\ \A j \in DOMAIN gets : j # i => gets'[j] = gets[j]
  <2>1. gets' \in Seq(Gets)
    BY <1>0, <1>15, <1>16, ExceptSeq, LenProperties
  <2> QED  BY <1>0, <1>16, <2>1
<1>18. \A h \in Range(gets') : GetFits(h, db, log, time)
  <2>1. answer.entries = part
    BY <1>10
  <2>2. Range(part) \subseteq Range(log)
    BY <1>12 DEF Range
  <2>3. GetFits(g, db, log, time)
    BY <1>2, <1>12, <1>13, <1>15, <2>1, <2>2 DEF GetFits
  <2>4. \A j \in DOMAIN gets : GetFits(gets[j], db, log, time)
    BY DEF FeedInv, Range
  <2> QED  BY <1>17, <2>3, <2>4 DEF Range
<1>19. Passed(log, ToldOf(db, gets'), missed)
  <2>1. Passed(log, ToldOf(db, gets), missed)
    BY DEF FeedInv, Told, ToldOf
  <2>2. \A e : e \in ToldOf(db, gets') <=> e \in ToldOf(db, gets) \/ (answer # Unknown /\ e \in Range(part))
    <3> SUFFICES ASSUME NEW e
                 PROVE  e \in ToldOf(db, gets') <=> e \in ToldOf(db, gets) \/ (answer # Unknown /\ e \in Range(part))
      OBVIOUS
    <3>1. e \in ToldOf(db, gets') <=>
             e \in Range(db) \/ \E j \in DOMAIN gets' : gets'[j].answer # Unknown /\ e \in Range(gets'[j].answer.entries)
      BY ToldIs
    <3>2. e \in ToldOf(db, gets) <=>
             e \in Range(db) \/ \E j \in DOMAIN gets : gets[j].answer # Unknown /\ e \in Range(gets[j].answer.entries)
      BY ToldIs
    <3>3. answer.entries = part
      BY <1>10
    <3> QED  BY <1>0, <1>15, <1>17, <3>1, <3>2, <3>3
  <2>3. CASE answer = Unknown
    <3>1. ToldOf(db, gets') = ToldOf(db, gets)
      BY <2>2, <2>3
    <3> QED  BY <2>1, <3>1
  <2>4. CASE answer # Unknown
    <3>1. ToldOf(db, gets') = ToldOf(db, gets) \cup Range(part)
      BY <2>2, <2>4
    <3>2. PICK known, new, to : known = ToldOf(db, gets) /\ new = Range(part) /\ to = start + n
      OBVIOUS
    <3>3. Range(db) \subseteq known /\ Range(db) \subseteq Range(log) /\ IsInjective(db) /\ IsInjective(log) /\ db \in Seq(Entries)
      BY <1>0, <3>2 DEF ToldOf, FeedInv, FeedTypes, InOrder
    <3>4. to \in Nat /\ new = {log[j] : j \in {j \in DOMAIN log : start < j /\ j <= to}}
      BY <1>2, <1>7, <1>12, <3>2
    <3>5. Passed(log, known, missed)
      BY <2>1, <3>2
    <3>6. Passed(log, known \cup new, missed)
      BY <1>0, <1>2, <3>3, <3>4, <3>5, AnswerPassed
    <3> QED  BY <3>1, <3>2, <3>6
  <2> QED  BY <2>3, <2>4
<1>20. dirty' \in BOOLEAN /\ missed' = missed /\ UNCHANGED <<page, log, time, db, oldest, of, rows, texts, more, focused>>
  BY DEF ServedFeed
<1> QED  BY <1>0, <1>17, <1>18, <1>19, <1>20, AskingKeeps DEF FeedTypes

-----------------------------------------------------------------------------
(* The rows. *)

\* A list of what DB has.
Shows(r, d) == r \in Seq(Entries) /\ IsInjective(r) /\ Range(r) \subseteq Range(d)

InTime(r, t) == \A a, b \in DOMAIN r : a < b => t[r[a]] >= t[r[b]]

LEMMA SortedShows ==
    ASSUME NEW t \in [Entries -> 0..MaxSeconds], NEW d, NEW s, Shows(s, d)
    PROVE  Shows(NewestFirst(s, t), d) /\ InTime(NewestFirst(s, t), t)
<1>1. t \in [Entries -> Nat] /\ s \in Seq(Entries)
  BY FeedAssumption DEF Shows
<1>2. PICK r : r = NewestFirst(s, t)
  OBVIOUS
<1>3. Sorted(r, s, t, MaxSeconds)
  BY <1>1, <1>2, NewestFirstSorts
<1> QED  BY <1>2, <1>3 DEF Sorted, Shows, InTime

LEMMA TakenShows ==
    ASSUME NEW d, NEW s, Shows(s, d), NEW k \in Nat
    PROVE  Shows(Taken(s, k), d)
<1>1. s \in Seq(Entries) /\ Len(s) \in Nat
  BY LenProperties DEF Shows
<1>2. PICK n : n = IF k < Len(s) THEN k ELSE Len(s)
  OBVIOUS
<1>3. 1 \in Nat \ {0} /\ n \in Nat /\ n <= Len(s)
  BY <1>1, <1>2
<1>4. PICK r : r = SubSeq(s, 1, n)
  OBVIOUS
<1>5. r \in Seq(Entries) /\ Slice(r, s, 1, n)
  BY <1>1, <1>3, <1>4, SliceIs, Zenon
<1>6. Shows(r, d)
  BY <1>5 DEF Shows, Slice, Range
<1> QED  BY <1>2, <1>4, <1>6 DEF Taken

LEMMA RealizedShows ==
    ASSUME NEW d, NEW s, Shows(s, d), NEW q \in Seq(Entries), IsInjective(q), NEW r,
           r = Among(q, Range(s)) \o Among(s, Entries \ Range(q))
    PROVE  Shows(r, d)
<1>1. s \in Seq(Entries) /\ IsInjective(s) /\ Range(s) \subseteq Range(d)
  BY DEF Shows
<1>2. PICK a : a = Among(q, Range(s))
  OBVIOUS
<1>3. PICK b : b = Among(s, Entries \ Range(q))
  OBVIOUS
<1>4. a \in Seq(Entries) /\ Sieved(a, q, Range(s))
  BY <1>2, AmongKeeps
<1>5. b \in Seq(Entries) /\ Sieved(b, s, Entries \ Range(q))
  BY <1>1, <1>3, AmongKeeps
<1>6. r = a \o b
  BY <1>2, <1>3
<1>7. r \in Seq(Entries) /\ Joined(r, a, b)
  BY <1>4, <1>5, <1>6, BehindKeeps, Zenon
<1>8. IsInjective(a) /\ IsInjective(b) /\ Range(a) \cap Range(b) = {} /\ Range(a) \subseteq Range(s) /\ Range(b) \subseteq Range(s)
  BY <1>1, <1>4, <1>5 DEF Sieved
<1> QED  BY <1>1, <1>7, <1>8 DEF Shows, Joined

\* What a row shows of the time, and of the answer.
LEMMA TextsAre ==
    ASSUME NEW e
    PROVE  /\ UpdatedEvents(e).time = time[e] /\ UpdatedLogs(e).time = time[e] + Offset
           /\ UpdatedOverviewEvents(e).time = time[e] /\ UpdatedOverviewLogs(e).time = time[e] + Offset
           /\ Plain(UpdatedLogs(e)) /\ Plain(UpdatedOverviewLogs(e))
<1>1. UpdatedEvents(e).time = time[e] /\ UpdatedLogs(e).time = time[e] + Offset
  BY Zenon DEF UpdatedEvents, UpdatedLogs, Format
<1>2. UpdatedOverviewEvents(e).time = time[e] /\ UpdatedOverviewLogs(e).time = time[e] + Offset
  BY Zenon DEF UpdatedOverviewEvents, UpdatedOverviewLogs, Format
<1>3. Plain(UpdatedLogs(e)) /\ Plain(UpdatedOverviewLogs(e))
  BY Zenon DEF UpdatedLogs, UpdatedOverviewLogs, Plain
<1> QED  BY <1>1, <1>2, <1>3, Zenon

\* The rows of each page, and the button.
RowsAre(d) ==
    /\ Shows(rows', d) /\ more' \in BOOLEAN
    /\ DOMAIN texts' = Range(rows') /\ \A e \in Range(rows') : Plain(texts'[e]) \/ page.feed = "events"
    /\ ~page.overview => more' = (oldest' = Unknown \/ oldest' \notin Range(d))
    /\ ~focused => \A a, b \in DOMAIN rows' : a < b => texts'[rows'[a]].time >= texts'[rows'[b]].time

\* The texts of rows that are in the order of their times, with the zone of the browser or without.
LEMMA TextsInTime ==
    ASSUME FeedTypes, NEW r \in Seq(Entries), InTime(r, time), NEW f, NEW z \in Int,
           \A e \in Range(r) : f[e].time = time[e] + z
    PROVE  \A a, b \in DOMAIN r : a < b => f[r[a]].time >= f[r[b]].time
<1> SUFFICES ASSUME NEW a \in DOMAIN r, NEW b \in DOMAIN r, a < b PROVE f[r[a]].time >= f[r[b]].time
  OBVIOUS
<1>1. r[a] \in Range(r) /\ r[b] \in Range(r) /\ r[a] \in Entries /\ r[b] \in Entries
  BY LenProperties, ElementOfSeq DEF Range
<1>2. time[r[a]] \in Nat /\ time[r[b]] \in Nat /\ time[r[a]] >= time[r[b]]
  BY <1>1, TypesAre, FeedAssumption DEF InTime
<1>3. f[r[a]].time = time[r[a]] + z /\ f[r[b]].time = time[r[b]] + z
  BY <1>1
<1> QED  BY <1>2, <1>3

LEMMA RefreshedShows ==
    ASSUME FeedTypes, NEW d, d = db', d \in Seq(Entries), IsInjective(d), IsInjective(rows), Refreshed
    PROVE  RowsAre(d)
<1>0. /\ time \in [Entries -> 0..MaxSeconds] /\ rows \in Seq(Entries) /\ Top \in Nat /\ Offset \in Int /\ more \in BOOLEAN
      /\ page \in Pages
  BY FeedAssumption DEF FeedTypes
<1>1. PICK s : s = NewestFirst(d, time)
  OBVIOUS
<1>2. Shows(s, d)
  <2>1. Shows(d, d)
    BY DEF Shows
  <2> QED  BY <1>0, <1>1, <2>1, SortedShows
<1>3. PICK u : u = Taken(s, Top)
  OBVIOUS
<1>4. Shows(u, d)
  BY <1>0, <1>2, <1>3, TakenShows
<1>5. PICK q : q = Among(rows, Range(s)) \o Among(s, Entries \ Range(rows))
  OBVIOUS
<1>6. PICK v : v = Among(rows, Range(u)) \o Among(u, Entries \ Range(rows))
  OBVIOUS
<1>7. Shows(q, d) /\ Shows(v, d)
  BY <1>0, <1>2, <1>4, <1>5, <1>6, RealizedShows
<1>8. /\ Shows(NewestFirst(q, time), d) /\ InTime(NewestFirst(q, time), time)
      /\ Shows(NewestFirst(v, time), d) /\ InTime(NewestFirst(v, time), time)
  BY <1>0, <1>7, SortedShows
<1>9. \A e \in Entries : time[e] \in Nat /\ time[e] + 0 = time[e]
  BY <1>0, FeedAssumption
<1>10. CASE page = [feed |-> "events", overview |-> FALSE]
  <2>1. RefreshedEvents /\ page.feed = "events"
    BY <1>10 DEF Refreshed
  <2>2. rows' = IF focused THEN q ELSE NewestFirst(q, time)
    BY <1>1, <1>5, <2>1 DEF RefreshedEvents, RealizedEvents
  <2>3. texts' = [e \in Range(rows') |-> UpdatedEvents(e)] /\ more' = (oldest' = Unknown \/ oldest' \notin Range(d))
    BY <2>1 DEF RefreshedEvents
  <2>4. Shows(rows', d) /\ (~focused => InTime(rows', time))
    BY <1>7, <1>8, <2>2
  <2>5. DOMAIN texts' = Range(rows') /\ \A e \in Range(rows') : texts'[e].time = time[e] + 0
    <3>1. Range(rows') \subseteq Entries
      BY <2>4, RangeOfSeq DEF Shows
    <3> QED  BY <1>9, <2>3, <3>1, TextsAre
  <2>6. ~focused => \A a, b \in DOMAIN rows' : a < b => texts'[rows'[a]].time >= texts'[rows'[b]].time
    BY <2>4, <2>5, TextsInTime DEF Shows
  <2> QED  BY <2>1, <2>3, <2>4, <2>5, <2>6 DEF RowsAre
<1>11. CASE page = [feed |-> "logs", overview |-> FALSE]
  <2>1. RefreshedLogs
    BY <1>11 DEF Refreshed
  <2>2. rows' = NewestFirst(q, time)
    BY <1>1, <1>5, <2>1 DEF RefreshedLogs, RealizedLogs
  <2>3. texts' = [e \in Range(rows') |-> UpdatedLogs(e)] /\ more' = (oldest' = Unknown \/ oldest' \notin Range(d))
    BY <2>1 DEF RefreshedLogs
  <2>4. Shows(rows', d) /\ InTime(rows', time)
    BY <1>8, <2>2
  <2>5. /\ DOMAIN texts' = Range(rows')
        /\ \A e \in Range(rows') : texts'[e].time = time[e] + Offset /\ Plain(texts'[e])
    BY <2>3, TextsAre
  <2>6. \A a, b \in DOMAIN rows' : a < b => texts'[rows'[a]].time >= texts'[rows'[b]].time
    BY <1>0, <2>4, <2>5, TextsInTime DEF Shows
  <2> QED  BY <2>3, <2>4, <2>5, <2>6 DEF RowsAre
<1>12. CASE page = [feed |-> "events", overview |-> TRUE]
  <2>1. RefreshedOverviewEvents /\ page.feed = "events" /\ page.overview
    BY <1>12 DEF Refreshed
  <2>2. rows' = NewestFirst(v, time)
    BY <1>1, <1>3, <1>6, <2>1 DEF RefreshedOverviewEvents, RealizedOverviewEvents
  <2>3. texts' = [e \in Range(rows') |-> UpdatedOverviewEvents(e)] /\ more' = more
    BY <2>1 DEF RefreshedOverviewEvents
  <2>4. Shows(rows', d) /\ InTime(rows', time)
    BY <1>8, <2>2
  <2>5. DOMAIN texts' = Range(rows') /\ \A e \in Range(rows') : texts'[e].time = time[e] + 0
    <3>1. Range(rows') \subseteq Entries
      BY <2>4, RangeOfSeq DEF Shows
    <3> QED  BY <1>9, <2>3, <3>1, TextsAre
  <2>6. \A a, b \in DOMAIN rows' : a < b => texts'[rows'[a]].time >= texts'[rows'[b]].time
    BY <2>4, <2>5, TextsInTime DEF Shows
  <2> QED  BY <1>0, <2>1, <2>3, <2>4, <2>5, <2>6 DEF RowsAre
<1>13. CASE page = [feed |-> "logs", overview |-> TRUE]
  <2>1. RefreshedOverviewLogs /\ page.overview
    BY <1>13 DEF Refreshed
  <2>2. rows' = NewestFirst(v, time)
    BY <1>1, <1>3, <1>6, <2>1 DEF RefreshedOverviewLogs, RealizedOverviewLogs
  <2>3. texts' = [e \in Range(rows') |-> UpdatedOverviewLogs(e)] /\ more' = more
    BY <2>1 DEF RefreshedOverviewLogs
  <2>4. Shows(rows', d) /\ InTime(rows', time)
    BY <1>8, <2>2
  <2>5. /\ DOMAIN texts' = Range(rows')
        /\ \A e \in Range(rows') : texts'[e].time = time[e] + Offset /\ Plain(texts'[e])
    BY <2>3, TextsAre
  <2>6. \A a, b \in DOMAIN rows' : a < b => texts'[rows'[a]].time >= texts'[rows'[b]].time
    BY <1>0, <2>4, <2>5, TextsInTime DEF Shows
  <2> QED  BY <1>0, <2>1, <2>3, <2>4, <2>5, <2>6 DEF RowsAre
<1>14. page = [feed |-> page.feed, overview |-> page.overview] /\ page.feed \in {"events", "logs"} /\ page.overview \in BOOLEAN
  BY <1>0 DEF Pages
<1> QED  BY <1>10, <1>11, <1>12, <1>13, <1>14

LEMMA ArrivesRows == ASSUME FeedInv, NEW i, Arrives(i) PROVE FeedInv' /\ RowsAre(db')
<1>0. /\ FeedTypes /\ gets \in Seq(Gets) /\ log \in Seq(Entries) /\ i \in DOMAIN gets /\ db \in Seq(Entries)
      /\ InOrder(log, time) /\ IsInjective(db) /\ IsInjective(rows)
  BY DEF FeedInv, FeedTypes, Arrives, RowsFit
<1>1. PICK a : a = gets[i].answer
  OBVIOUS
<1>2. a # Unknown /\ a \in Answers
  <2>1. gets[i] \in Gets
    BY <1>0, TypesAre
  <2> QED  BY <1>1, <2>1 DEF Gets, Arrives
<1>3. GetFits(gets[i], db, log, time)
  BY <1>0 DEF FeedInv, Range
<1>4. /\ a.entries \in Seq(Entries) /\ IsInjective(a.entries) /\ Range(a.entries) \subseteq Range(log)
      /\ OldestOf(a.oldest, a.of, log, time) /\ a.of \in 0..MaxEntries
  BY <1>1, <1>2, <1>3 DEF GetFits, Answers
<1>5. PICK k : k = Among(a.entries, Entries \ Range(db))
  OBVIOUS
<1>6. /\ db' = db \o k /\ oldest' = (IF a.oldest = Unknown THEN oldest ELSE a.oldest)
  BY <1>1, <1>5 DEF Arrives, HeardEvents, HeardLogs
<1>7. k \in Seq(Entries) /\ Sieved(k, a.entries, Entries \ Range(db))
  BY <1>4, <1>5, AmongKeeps
<1>8. PICK d : d = db'
  OBVIOUS
<1>9. d = db \o k
  BY <1>6, <1>8
<1>10. d \in Seq(Entries) /\ Joined(d, db, k)
  BY <1>0, <1>7, <1>9, BehindKeeps, Zenon
<1>11. Len(d) = Len(db) + Len(k) /\ Len(db) \in Nat /\ Len(k) \in Nat
  BY <1>0, <1>7, <1>9, ConcatProperties, LenProperties
<1>12. IsInjective(d) /\ Range(d) = Range(db) \cup Range(a.entries) /\ Range(d) \subseteq Range(log)
  <2>1. Range(k) = Range(a.entries) \cap (Entries \ Range(db)) /\ IsInjective(k)
    BY <1>4, <1>7 DEF Sieved
  <2>2. Range(a.entries) \subseteq Entries /\ Range(db) \subseteq Entries
    BY <1>0, <1>4, RangeOfSeq
  <2>3. Range(db) \subseteq Range(log)
    BY DEF FeedInv
  <2> QED  BY <1>0, <1>4, <1>10, <2>1, <2>2, <2>3 DEF Joined
<1>13. PICK r : r = gets'
  OBVIOUS
<1>14. r \in Seq(Gets) /\ Range(r) \subseteq Range(gets) /\ \A x \in Range(gets) : x \in Range(r) \/ x = gets[i]
  <2>1. r = RemoveAt(gets, i)
    BY <1>13 DEF Arrives
  <2> QED  BY <1>0, <2>1, RemoveAtIs
<1>15. UNCHANGED <<page, log, time, dirty, focused, missed>> /\ of' = a.of /\ Refreshed
  BY <1>1 DEF Arrives
<1>16. RowsAre(d)
  BY <1>0, <1>8, <1>10, <1>12, <1>15, RefreshedShows
<1>17. FeedTypes'
  BY <1>0, <1>8, <1>10, <1>13, <1>14, <1>15, <1>16 DEF FeedTypes, RowsAre, Shows
<1>18. InOrder(log, time)'
  BY <1>0, <1>15 DEF InOrder
<1>19. (IsInjective(db) /\ Range(db) \subseteq Range(log))'
  BY <1>8, <1>12, <1>15
<1>20. OldestOf(oldest', of', log, time)
  <2>1. CASE a.oldest = Unknown
    <3>1. of' = 0 /\ oldest' = oldest
      BY <1>4, <1>6, <1>15, <2>1 DEF OldestOf
    <3>2. OldestOf(oldest, of, log, time) /\ Len(log) \in Nat
      BY <1>0, TypesAre DEF FeedInv
    <3> QED  BY <3>1, <3>2 DEF OldestOf
  <2>2. CASE a.oldest # Unknown
    BY <1>4, <1>6, <1>15, <2>2
  <2> QED  BY <2>1, <2>2
<1>21. OldestOf(oldest, of, log, time)'
  BY <1>15, <1>20 DEF OldestOf
<1>22. (\A g \in Range(gets) : GetFits(g, db, log, time))'
  <2> SUFFICES ASSUME NEW g \in Range(r) PROVE GetFits(g, d, log, time)
    BY <1>8, <1>13, <1>15 DEF GetFits, OldestOf
  <2>1. GetFits(g, db, log, time)
    BY <1>14 DEF FeedInv
  <2>2. g.start \in Nat
    <3>1. PICK j \in DOMAIN r : r[j] = g
      BY DEF Range
    <3>2. r[j] \in Gets
      BY <1>14, LenProperties, ElementOfSeq
    <3> QED  BY <3>1, <3>2 DEF Gets
  <2>3. g.start <= Len(d)
    BY <1>11, <2>1, <2>2 DEF GetFits
  <2> QED  BY <2>1, <2>3 DEF GetFits
<1>23. ToldOf(d, r) = ToldOf(db, gets)
  <2>1. ASSUME NEW e PROVE e \in ToldOf(d, r) <=> e \in ToldOf(db, gets)
    <3>1. e \in ToldOf(d, r) <=> e \in Range(d) \/ \E g \in Range(r) : g.answer # Unknown /\ e \in Range(g.answer.entries)
      BY ToldIs DEF Range
    <3>2. e \in ToldOf(db, gets) <=> e \in Range(db) \/ \E g \in Range(gets) : g.answer # Unknown /\ e \in Range(g.answer.entries)
      BY ToldIs DEF Range
    <3>3. gets[i] \in Range(gets)
      BY <1>0 DEF Range
    <3>4. CASE e \in Range(a.entries)
      BY <1>1, <1>2, <1>12, <3>1, <3>2, <3>3, <3>4
    <3>5. CASE e \notin Range(a.entries)
      BY <1>1, <1>12, <1>14, <3>1, <3>2, <3>5
    <3> QED  BY <3>4, <3>5
  <2> QED  BY <2>1
<1>24. Passed(log, Told(gets), missed)'
  <2>1. Passed(log, ToldOf(d, r), missed)
    BY <1>23 DEF FeedInv, Told, ToldOf
  <2> QED  BY <1>8, <1>13, <1>15, <2>1 DEF Passed, Told, ToldOf
<1>25. RowsFit'
  BY <1>8, <1>15, <1>16 DEF RowsFit, RowsAre, Shows
<1>26. (~more /\ ~page.overview => oldest \in Range(db))'
  BY <1>8, <1>15, <1>16 DEF RowsAre
<1>27. FeedInv'
  BY <1>17, <1>18, <1>19, <1>21, <1>22, <1>24, <1>25, <1>26 DEF FeedInv
<1> QED  BY <1>8, <1>16, <1>27

LEMMA FocusKeeps == ASSUME FeedInv, Focus PROVE FeedInv'
<1>0. FeedTypes
  BY DEF FeedInv
<1>1. FeedTypes'
  BY <1>0 DEF FeedTypes, Focus
<1>2. InOrder(log, time)' /\ OldestOf(oldest, of, log, time)' /\ Passed(log, Told(gets), missed)' /\ RowsFit'
  BY DEF FeedInv, Focus, InOrder, OldestOf, Passed, Told, RowsFit
<1>3. (\A g \in Range(gets) : GetFits(g, db, log, time))'
  BY DEF FeedInv, Focus, GetFits, OldestOf
<1> QED  BY <1>1, <1>2, <1>3 DEF FeedInv, Focus

LEMMA FeedRests == ASSUME FeedInv, UNCHANGED feedVars PROVE FeedInv'
<1>0. FeedTypes
  BY DEF FeedInv
<1>1. FeedTypes'
  BY <1>0 DEF FeedTypes, feedVars
<1>2. InOrder(log, time)' /\ OldestOf(oldest, of, log, time)' /\ Passed(log, Told(gets), missed)' /\ RowsFit'
  BY DEF FeedInv, feedVars, InOrder, OldestOf, Passed, Told, RowsFit
<1>3. (\A g \in Range(gets) : GetFits(g, db, log, time))'
  BY DEF FeedInv, feedVars, GetFits, OldestOf
<1> QED  BY <1>1, <1>2, <1>3 DEF FeedInv, feedVars

LEMMA FeedInits == ASSUME FeedInit PROVE FeedInv
<1>1. log = <<>> /\ db = <<>> /\ rows = <<>> /\ gets = <<>> /\ texts = <<>> /\ missed = {} /\ oldest = Unknown /\ of = 0
  BY DEF FeedInit
<1>2. FeedTypes
  <2>1. time \in [Entries -> 0..MaxSeconds]
    BY FeedAssumption DEF FeedInit
  <2>2. page \in Pages /\ dirty \in BOOLEAN /\ focused \in BOOLEAN
    BY DEF FeedInit
  <2>3. page.overview \in BOOLEAN
    BY <2>2 DEF Pages
  <2>4. more \in BOOLEAN
    BY <2>3 DEF FeedInit
  <2>5. log \in Seq(Entries) /\ db \in Seq(Entries) /\ rows \in Seq(Entries) /\ gets \in Seq(Gets) /\ missed \subseteq Entries
    BY <1>1
  <2> QED  BY <2>1, <2>2, <2>4, <2>5 DEF FeedTypes
<1>3. \A s : s = <<>> => Range(s) = {} /\ IsInjective(s) /\ DOMAIN s = {} /\ Len(s) = 0
  BY DEF Range, IsInjective
<1>4. InOrder(log, time) /\ OldestOf(oldest, of, log, time)
  BY <1>1, <1>3 DEF InOrder, OldestOf
<1>5. Passed(log, Told(gets), missed) /\ RowsFit /\ \A g \in Range(gets) : GetFits(g, db, log, time)
  BY <1>1, <1>3 DEF Passed, RowsFit
<1>6. ~more => page.overview
  BY DEF FeedInit, Pages
<1> QED  BY <1>1, <1>2, <1>3, <1>4, <1>5, <1>6 DEF FeedInv

LEMMA FeedStep == ASSUME FeedInv, [FeedNext]_feedVars PROVE FeedInv'
<1>1. CASE Made
  BY <1>1, MadeKeeps
<1>2. CASE Reordered
  BY <1>2, ReorderedKeeps
<1>3. CASE PollFeed
  BY <1>3, PollFeedKeeps
<1>4. CASE More
  BY <1>4, MoreKeeps
<1>5. CASE Fails
  BY <1>5, FailsKeeps
<1>6. ASSUME NEW i \in 1..2, ServedFeed(i) PROVE FeedInv'
  BY <1>6, ServedKeeps
<1>7. ASSUME NEW i \in 1..2, Arrives(i) PROVE FeedInv'
  BY <1>7, ArrivesRows
<1>8. CASE Focus
  BY <1>8, FocusKeeps
<1>9. CASE UNCHANGED feedVars
  BY <1>9, FeedRests
<1> QED  BY <1>1, <1>2, <1>3, <1>4, <1>5, <1>6, <1>7, <1>8, <1>9 DEF FeedNext

\* The rows change in the order of the times they show (the step of Feed's RowsInOrder).
RowsTurnInOrder ==
    rows' # rows /\ ~focused =>
        \A i, j \in DOMAIN rows' : i < j => texts'[rows'[i]].time >= texts'[rows'[j]].time

LEMMA RowsStep == ASSUME FeedInv, [FeedNext]_feedVars PROVE RowsTurnInOrder
<1>1. CASE \E i \in 1..2 : Arrives(i)
  <2>1. RowsAre(db')
    BY <1>1, ArrivesRows
  <2> QED  BY <2>1 DEF RowsAre, RowsTurnInOrder
<1>2. CASE ~\E i \in 1..2 : Arrives(i)
  <2>1. rows' = rows
    BY <1>2 DEF FeedNext, feedVars, Made, Reordered, PollFeed, More, Fails, ServedFeed, Focus
  <2> QED  BY <2>1 DEF RowsTurnInOrder
<1> QED  BY <1>1, <1>2

\* No entry is passed over by the polls and the button, however the answers overtake each other, and the button is there
\* while there are older entries (Feed's NoHoles, MoreWhileOlder, RowsInOrder).
THEOREM FeedIsWhole == FeedSpec => [](FeedTypeOK /\ NoHoles /\ MoreWhileOlder) /\ RowsInOrder
<1>1. FeedInit => FeedInv
  BY FeedInits
<1>2. FeedInv /\ [FeedNext]_feedVars => FeedInv'
  BY FeedStep
<1>3. FeedInv => FeedTypeOK /\ NoHoles /\ MoreWhileOlder
  BY FeedIsTyped, NothingPassedOver, OlderCanBeAskedFor
<1>4. FeedInv /\ [FeedNext]_feedVars => [RowsTurnInOrder]_feedVars
  BY RowsStep
<1> QED  BY <1>1, <1>2, <1>3, <1>4, PTL DEF FeedSpec, RowsInOrder, RowsTurnInOrder

-----------------------------------------------------------------------------
(* Accounts.  The invariant: an account is blank or it is filled in, and   *)
(* only one that is filled in is shown, edited or deleted.                 *)

Fields == {"uid", "role", "pwd"}

\* What a field is set to by the dialog.
TypedValues(f) == CASE f = "uid" -> Uids [] f = "role" -> Roles [] f = "pwd" -> Pwds

Patches == [set : {s \in UNION {[D -> Uids \cup Roles \cup Pwds] : D \in SUBSET Fields} :
                       \A f \in DOMAIN s : s[f] \in TypedValues(f)},
            clear : SUBSET Flags]

Dialog == [open : BOOLEAN, oid : Oids \cup {New}, clear : SUBSET Flags]

Save == [at : {"idle", "create", "update", "saved"}, new : BOOLEAN, oid : Oids \cup {NoAccount},
         typed : Typed \cup {<<>>}, patch : Patches \cup {<<>>}]

ConsolesOK ==
    /\ AccountsTypeOK
    /\ dialog \in [Consoles -> Dialog]
    /\ saving \in [Consoles -> Save]

BlankOrFilled == \A o \in Oids : account[o] \in {NoAccount, Created} \/ Filled(account[o])

IsFilled(o) == account[o] # NoAccount /\ Filled(account[o])

Knows(c) ==
    /\ \A o \in Oids : copy[c][o] # NoAccount => IsFilled(o)
    /\ dialog[c].oid # New => IsFilled(dialog[c].oid) /\ copy[c][dialog[c].oid] # NoAccount
    /\ erasing[c] # NoAccount => IsFilled(erasing[c])

\* An account that is still blank is filled in as a whole.
Fills(c) ==
    /\ saving[c].at = "create" => saving[c].typed \in Typed /\ saving[c].typed.pwd # Blank
    /\ saving[c].at = "update" =>
           /\ saving[c].oid \in Oids /\ account[saving[c].oid] # NoAccount
           /\ saving[c].patch \in Patches
           /\ Filled(account[saving[c].oid]) \/ DOMAIN saving[c].patch.set = Fields

AccountsOK ==
    /\ account \in [Oids -> Record \cup {NoAccount}]
    /\ HasAdmin(account) /\ UniqueUids(account) /\ BlankOrFilled

AccountsInv == ConsolesOK /\ AccountsOK /\ \A c \in Consoles : Knows(c) /\ Fills(c)

-----------------------------------------------------------------------------
(* Accounts, patches and listings.                                         *)

LEMMA CreatedIsBlank == Created \in Record /\ Created # NoAccount /\ ~Filled(Created)
<1>1. Created \in Record
  BY DEF Created, Record
<1> QED  BY <1>1, AccountsAssumption DEF Created, Filled

LEMMA IdleIsSave == Idle \in Save /\ Idle.at = "idle"
  BY DEF Idle, Save

LEMMA ShutIsDialog == Shut \in Dialog /\ Shut.oid = New
  BY DEF Shut, Dialog

\* What the dialog sends is a patch, and one for a new account has every field.
LEMMA PatchSets ==
    ASSUME NEW typed \in Typed, NEW was, NEW clear \in SUBSET Flags
    PROVE  /\ Patch(typed, was, clear) \in Patches
           /\ was = NoAccount /\ typed.pwd # Blank => DOMAIN Patch(typed, was, clear).set = Fields
<1> DEFINE D == {f \in {"uid", "role"} : was = NoAccount \/ typed[f] # was[f]}
                    \cup (IF typed.pwd = Blank THEN {} ELSE {"pwd"})
           s == [f \in D |-> typed[f]]
<1>1. Patch(typed, was, clear) = [set |-> s, clear |-> clear]
  BY DEF Patch
<1>2. D \in SUBSET Fields
  BY DEF Fields
<1>3. \A f \in D : typed[f] \in TypedValues(f)
  BY DEF Typed, TypedValues
<1>4. \A f \in D : typed[f] \in Uids \cup Roles \cup Pwds
  BY DEF Typed
<1>5. s \in [D -> Uids \cup Roles \cup Pwds] /\ DOMAIN s = D /\ \A f \in DOMAIN s : s[f] \in TypedValues(f)
  <2> HIDE DEF D
  <2> QED  BY <1>3, <1>4
<1>6. was = NoAccount /\ typed.pwd # Blank => D = Fields
  BY DEF Fields
<1> HIDE DEF D, s
<1> QED  BY <1>1, <1>2, <1>5, <1>6 DEF Patches

\* A patch leaves an account filled in that is, or that it has every field of.
LEMMA PatchFills ==
    ASSUME NEW a \in Record, NEW p \in Patches, Filled(a) \/ DOMAIN p.set = Fields
    PROVE  Patched(a, p) \in Record /\ Filled(Patched(a, p))
<1> DEFINE s == p.set
           b == Patched(a, p)
           Field(f) == IF f \in DOMAIN s THEN s[f] ELSE a[f]
<1>1. DOMAIN s \subseteq Fields /\ \A f \in DOMAIN s : s[f] \in TypedValues(f)
  BY DEF Patches
<1>2. DOMAIN a = {"uid", "role", "pwd", "flags", "deleted"} /\ a.flags \in SUBSET Flags /\ a.deleted \in BOOLEAN
  BY DEF Record
<1>3. /\ b = [uid |-> Field("uid"), role |-> Field("role"), pwd |-> Field("pwd"),
              flags |-> a.flags \ p.clear, deleted |-> a.deleted]
  BY <1>1, <1>2 DEF Patched, Fields
<1>4. Field("uid") \in Uids \cup {Blank} /\ Field("role") \in Roles \cup {Blank} /\ Field("pwd") \in Pwds \cup {Blank}
  BY <1>1 DEF Record, TypedValues
<1>5. Field("uid") # Blank /\ Field("role") # Blank /\ Field("pwd") # Blank
  BY <1>1, AccountsAssumption DEF Filled, TypedValues, Fields
<1> HIDE DEF b, Field
<1>6. b \in Record /\ Filled(b)
  BY <1>2, <1>3, <1>4, <1>5 DEF Record, Filled
<1> QED  BY <1>6 DEF b

\* Only accounts that are filled in are listed, and all of those.
LEMMA ListedAreFilled ==
    ASSUME AccountsTypeOK, BlankOrFilled
    PROVE  /\ Listed \in [Oids -> Record \cup {NoAccount}]
           /\ \A o \in Oids : Listed[o] # NoAccount => IsFilled(o)
           /\ \A o \in Oids : IsFilled(o) => Listed[o] # NoAccount
<1>1. \A o \in Oids : account[o] \in Record \cup {NoAccount}
  BY DEF AccountsTypeOK
<1>2. ASSUME NEW o \in Oids, account[o] # NoAccount, account[o].uid # Blank \/ account[o].deleted
      PROVE  Filled(account[o])
  BY <1>2 DEF BlankOrFilled, Created
<1> QED  BY <1>1, <1>2 DEF Listed, IsFilled, Filled

-----------------------------------------------------------------------------
(* What a step does to the accounts.                                       *)

AccountsKept ==
    \A o \in Oids : /\ account[o] # NoAccount => account'[o] # NoAccount
                    /\ IsFilled(o) => IsFilled(o)'

LEMMA AccountsStay == AccountsOK /\ account' = account => AccountsOK' /\ AccountsKept
  BY DEF AccountsOK, AccountsKept, IsFilled, Filled, BlankOrFilled, HasAdmin, UniqueUids, Live

LEMMA UpdateUsersAccepts ==
    ASSUME NEW c, NEW accounts, UpdateUsers(c, accounts)
    PROVE  account' = accounts /\ HasAdmin(account') /\ UniqueUids(account')
  BY DEF UpdateUsers

LEMMA CreateKeeps ==
    ASSUME AccountsOK, NEW c \in Consoles, NEW o \in Oids, account[o] = NoAccount,
           UpdateUsers(c, [account EXCEPT ![o] = Created])
    PROVE  AccountsOK' /\ AccountsKept /\ account'[o] = Created
<1>1. account' = [account EXCEPT ![o] = Created] /\ HasAdmin(account') /\ UniqueUids(account')
  BY UpdateUsersAccepts
<1>2. account' \in [Oids -> Record \cup {NoAccount}] /\ account'[o] = Created
  BY <1>1, CreatedIsBlank DEF AccountsOK
<1>3. \A p \in Oids \ {o} : account'[p] = account[p]
  BY <1>1 DEF AccountsOK
<1>4. BlankOrFilled'
  BY <1>2, <1>3 DEF AccountsOK, BlankOrFilled, Filled, Created
<1>5. AccountsKept
  BY <1>3 DEF AccountsKept, IsFilled, Filled
<1> QED  BY <1>1, <1>2, <1>4, <1>5 DEF AccountsOK

LEMMA SetKeeps ==
    ASSUME AccountsOK, NEW c \in Consoles, NEW o \in Oids, account[o] # NoAccount, NEW p \in Patches,
           Filled(account[o]) \/ DOMAIN p.set = Fields,
           UpdateUsers(c, Set(o, p))
    PROVE  AccountsOK' /\ AccountsKept
<1>1. account' = Set(o, p) /\ HasAdmin(account') /\ UniqueUids(account')
  BY UpdateUsersAccepts
<1>2. account[o] \in Record
  BY DEF AccountsOK
<1>3. account'[o] = Patched(account[o], p) /\ \A q \in Oids \ {o} : account'[q] = account[q]
  BY <1>1 DEF AccountsOK, Set
<1>4. account'[o] \in Record /\ Filled(account'[o])
  BY <1>2, <1>3, PatchFills
<1>5. account' \in [Oids -> Record \cup {NoAccount}]
  BY <1>1, <1>2, PatchFills DEF AccountsOK, Set
<1>6. account'[o] # NoAccount
  BY <1>4, AccountsAssumption
<1>7. BlankOrFilled'
  BY <1>3, <1>4 DEF AccountsOK, BlankOrFilled, Filled, Created
<1>8. AccountsKept
  BY <1>3, <1>4, <1>6 DEF AccountsKept, IsFilled, Filled
<1> QED  BY <1>1, <1>5, <1>7, <1>8 DEF AccountsOK

LEMMA DeleteKeeps ==
    ASSUME AccountsOK, NEW c \in Consoles, NEW o \in Oids, IsFilled(o), UpdateUsers(c, Without(o))
    PROVE  AccountsOK' /\ AccountsKept
<1>1. account' = [account EXCEPT ![o].deleted = TRUE] /\ HasAdmin(account') /\ UniqueUids(account')
  BY UpdateUsersAccepts DEF Without
<1>2. account[o] \in Record /\ Filled(account[o])
  BY DEF AccountsOK, IsFilled
<1>3. account'[o] = [account[o] EXCEPT !.deleted = TRUE] /\ \A q \in Oids \ {o} : account'[q] = account[q]
  BY <1>1 DEF AccountsOK
<1>4. account'[o] \in Record /\ Filled(account'[o])
  BY <1>2, <1>3 DEF Record, Filled
<1>5. account' \in [Oids -> Record \cup {NoAccount}]
  BY <1>1, <1>3, <1>4 DEF AccountsOK
<1>6. account'[o] # NoAccount
  BY <1>4, AccountsAssumption
<1>7. BlankOrFilled'
  BY <1>3, <1>4 DEF AccountsOK, BlankOrFilled, Filled, Created
<1>8. AccountsKept
  BY <1>3, <1>4, <1>6 DEF AccountsKept, IsFilled, Filled
<1> QED  BY <1>1, <1>5, <1>7, <1>8 DEF AccountsOK

-----------------------------------------------------------------------------
(* The invariant holds.                                                    *)

\* What a console knows of accounts that are kept.
LEMMA KnowsStays ==
    ASSUME NEW c \in Consoles, Knows(c), AccountsKept, dialog[c].oid \in Oids \cup {New},
           erasing[c] \in Oids \cup {NoAccount}, copy'[c] = copy[c],
           dialog'[c].oid \in {New, dialog[c].oid}, erasing'[c] \in {NoAccount, erasing[c]}
    PROVE  Knows(c)'
  BY DEF Knows, AccountsKept, IsFilled

LEMMA FillsStays ==
    ASSUME NEW c \in Consoles, Fills(c), AccountsKept, saving'[c] = saving[c]
    PROVE  Fills(c)'
  BY DEF Fills, AccountsKept, IsFilled

\* load()
LEMMA KnowsListed ==
    ASSUME AccountsInv, NEW c \in Consoles, account' = account, copy' = [copy EXCEPT ![c] = Listed],
           dialog'[c].oid \in {New, dialog[c].oid}, erasing' = erasing
    PROVE  Knows(c)' /\ copy' \in [Consoles -> [Oids -> Record \cup {NoAccount}]]
<1>1. /\ copy \in [Consoles -> [Oids -> Record \cup {NoAccount}]]
      /\ dialog[c].oid \in Oids \cup {New}
  BY DEF AccountsInv, ConsolesOK, AccountsTypeOK, Dialog
<1>2. /\ Listed \in [Oids -> Record \cup {NoAccount}]
      /\ \A o \in Oids : Listed[o] # NoAccount <=> IsFilled(o)
  BY ListedAreFilled DEF AccountsInv, ConsolesOK, AccountsOK
<1>3. copy'[c] = Listed
  BY <1>1
<1>4. \A o : IsFilled(o)' <=> IsFilled(o)
  BY DEF IsFilled, Filled
<1> QED  BY <1>1, <1>2, <1>3, <1>4 DEF AccountsInv, Knows

LEMMA AccountsInvInit == AccountsInit => AccountsInv
<1> SUFFICES ASSUME AccountsInit PROVE AccountsInv  OBVIOUS
<1>1. account \in [Oids -> Record \cup {NoAccount}] /\ HasAdmin(account) /\ UniqueUids(account)
  BY AccountsAssumption DEF AccountsInit
<1>2. BlankOrFilled
  BY AccountsAssumption DEF AccountsInit, BlankOrFilled
<1>3. ASSUME NEW o \in Oids PROVE Listed[o] \in Record \cup {NoAccount} /\ (Listed[o] # NoAccount => IsFilled(o))
  BY <1>1, <1>2 DEF Listed, BlankOrFilled, IsFilled, Created
<1>4. ConsolesOK
  BY <1>1, <1>3, IdleIsSave, ShutIsDialog, AccountsAssumption DEF AccountsInit, ConsolesOK, AccountsTypeOK, Listed
<1>5. ASSUME NEW c \in Consoles PROVE Knows(c) /\ Fills(c)
  BY <1>3, IdleIsSave, ShutIsDialog DEF AccountsInit, Knows, Fills
<1> QED  BY <1>1, <1>2, <1>4, <1>5 DEF AccountsInv, AccountsOK

\* What a step of one console leaves alone in the others.
OthersStay(c) ==
    \A d \in Consoles \ {c} : /\ copy'[d] = copy[d] /\ dialog'[d] = dialog[d]
                              /\ saving'[d] = saving[d] /\ erasing'[d] = erasing[d]

LEMMA OneConsole ==
    ASSUME AccountsInv, NEW c \in Consoles, ConsolesOK', AccountsOK', AccountsKept, OthersStay(c),
           Knows(c)', Fills(c)'
    PROVE  AccountsInv'
<1>1. ASSUME NEW d \in Consoles, d # c PROVE Knows(d)' /\ Fills(d)'
  <2>1. dialog[d].oid \in Oids \cup {New} /\ erasing[d] \in Oids \cup {NoAccount}
    BY DEF AccountsInv, ConsolesOK, AccountsTypeOK, Dialog
  <2>2. Knows(d) /\ Fills(d)
    BY DEF AccountsInv
  <2>3. /\ copy'[d] = copy[d] /\ dialog'[d] = dialog[d]
        /\ saving'[d] = saving[d] /\ erasing'[d] = erasing[d]
    BY <1>1 DEF OthersStay
  <2> QED  BY <2>1, <2>2, <2>3, KnowsStays, FillsStays
<1> QED  BY <1>1 DEF AccountsInv

LEMMA AccountsInvStep == AccountsInv /\ [AccountsNext]_accountVars => AccountsInv'
<1> SUFFICES ASSUME AccountsInv, [AccountsNext]_accountVars PROVE AccountsInv'  OBVIOUS
<1>0. /\ AccountsTypeOK /\ AccountsOK
      /\ dialog \in [Consoles -> Dialog] /\ saving \in [Consoles -> Save]
      /\ copy \in [Consoles -> [Oids -> Record \cup {NoAccount}]]
      /\ erasing \in [Consoles -> Oids \cup {NoAccount}]
      /\ disabled \subseteq Consoles /\ made \in 0..MaxEvents
      /\ \A c \in Consoles : saving[c].at = "idle" <=> c \notin disabled
  BY DEF AccountsInv, ConsolesOK, AccountsTypeOK
<1>u. CASE UNCHANGED accountVars
  BY <1>0, <1>u DEF AccountsInv, ConsolesOK, AccountsTypeOK, AccountsOK, BlankOrFilled, Knows, Fills, IsFilled,
                    Filled, HasAdmin, UniqueUids, Live, accountVars
<1>n. ASSUME NEW c \in Consoles,
             \/ EditUser(c) \/ Tick(c) \/ Close(c)
             \/ SaveUser(c) \/ Create(c) \/ Update(c) \/ Saved(c) \/ SaveFails(c) \/ SavedUnheard(c)
             \/ DeleteUser(c) \/ Deleted(c) \/ DeleteFails(c) \/ Load(c)
      PROVE  AccountsInv'
  <2>0. /\ Knows(c) /\ Fills(c)
        /\ dialog[c] \in Dialog /\ saving[c] \in Save /\ copy[c] \in [Oids -> Record \cup {NoAccount}]
        /\ erasing[c] \in Oids \cup {NoAccount} /\ dialog[c].oid \in Oids \cup {New}
    BY <1>0 DEF AccountsInv, Dialog
  <2>c. ASSUME Count PROVE made' \in 0..MaxEvents
    BY <1>0, <2>c, AccountsAssumption DEF Count
  <2>m. ASSUME made' = made PROVE made' \in 0..MaxEvents
    BY <1>0, <2>m
  <2>1. CASE EditUser(c)
    <3>1. PICK o \in Rows(c) \cup {New} : dialog' = [dialog EXCEPT ![c] = [open |-> TRUE, oid |-> o, clear |-> {}]]
      BY <2>1 DEF EditUser
    <3>2. o # New => o \in Oids /\ copy[c][o] # NoAccount
      BY <3>1 DEF Rows, Live
    <3>3. dialog' \in [Consoles -> Dialog] /\ dialog'[c].oid = o
      BY <1>0, <3>1, <3>2 DEF Dialog
    <3>4. AccountsOK' /\ AccountsKept
      BY <1>0, <2>1, AccountsStay DEF EditUser
    <3>5. Knows(c)' /\ Fills(c)'
      BY <2>0, <2>1, <3>2, <3>3 DEF EditUser, Knows, Fills, IsFilled, Filled
    <3>6. ConsolesOK'
      BY <1>0, <2>1, <2>c, <3>3 DEF EditUser, ConsolesOK, AccountsTypeOK
    <3>7. OthersStay(c)
      BY <1>0, <2>1, <3>1 DEF EditUser, OthersStay
    <3> QED  BY <3>4, <3>5, <3>6, <3>7, OneConsole
  <2>2. CASE Tick(c)
    <3>1. PICK f \in SUBSET copy[c][dialog[c].oid].flags : dialog' = [dialog EXCEPT ![c].clear = f]
      BY <2>2 DEF Tick
    <3>2. copy[c][dialog[c].oid] \in Record
      BY <2>0, <2>2 DEF Tick, Knows
    <3>3. dialog' \in [Consoles -> Dialog] /\ dialog'[c].oid = dialog[c].oid
      BY <1>0, <3>1, <3>2 DEF Dialog, Record
    <3>4. AccountsOK' /\ AccountsKept
      BY <1>0, <2>2, AccountsStay DEF Tick
    <3>5. Knows(c)' /\ Fills(c)'
      BY <2>0, <2>2, <3>3 DEF Tick, Knows, Fills, IsFilled, Filled
    <3>6. ConsolesOK'
      BY <1>0, <2>2, <3>3 DEF Tick, ConsolesOK, AccountsTypeOK
    <3>7. OthersStay(c)
      BY <1>0, <2>2, <3>1 DEF Tick, OthersStay
    <3> QED  BY <3>4, <3>5, <3>6, <3>7, OneConsole
  <2>3. CASE Close(c)
    <3>3. dialog' \in [Consoles -> Dialog] /\ dialog'[c].oid = New
      BY <1>0, <2>3, ShutIsDialog DEF Close
    <3>4. AccountsOK' /\ AccountsKept
      BY <1>0, <2>3, AccountsStay DEF Close
    <3>5. Knows(c)' /\ Fills(c)'
      BY <2>0, <2>3, <3>3 DEF Close, Knows, Fills, IsFilled, Filled
    <3>6. ConsolesOK'
      BY <1>0, <2>3, <3>3 DEF Close, ConsolesOK, AccountsTypeOK
    <3>7. OthersStay(c)
      BY <1>0, <2>3 DEF Close, OthersStay
    <3> QED  BY <3>4, <3>5, <3>6, <3>7, OneConsole
  <2>4. CASE SaveUser(c)
    <3> DEFINE o == dialog[c].oid
               was == IF o = New THEN NoAccount ELSE copy[c][o]
               patch(typed) == Patch(typed, was, dialog[c].clear)
               create(typed) == [Idle EXCEPT !.at = "create", !.new = TRUE, !.typed = typed]
               update(typed) == [Idle EXCEPT !.at = IF NothingToSay(patch(typed)) THEN "saved" ELSE "update",
                                             !.oid = o, !.patch = patch(typed)]
    <3>1. PICK typed \in Typed :
              /\ was = NoAccount => typed.pwd # Blank
              /\ saving' = [saving EXCEPT ![c] = IF o = New THEN create(typed) ELSE update(typed)]
      BY <2>4 DEF SaveUser
    <3>2. patch(typed) \in Patches
      BY <2>0, PatchSets DEF Dialog
    <3> DEFINE s == IF o = New THEN create(typed) ELSE update(typed)
    <3>3. s \in Save /\ s.at # "idle"
      BY <2>0, <3>2 DEF Idle, Save
    <3>4. saving' \in [Consoles -> Save] /\ saving'[c] = s
      <4> HIDE DEF s
      <4> QED  BY <1>0, <3>1, <3>3 DEF s
    <3>5. AccountsOK' /\ AccountsKept /\ account' = account
      BY <1>0, <2>4, AccountsStay DEF SaveUser
    <3>7. ASSUME o # New, s.at = "update" PROVE s.oid = o /\ s.patch = patch(typed) /\ IsFilled(o) /\ o \in Oids
      BY <2>0, <3>7 DEF Idle, Knows
    <3>8. Fills(c)'
      <4>1. CASE o = New
        <5>1. s.at = "create" /\ s.typed = typed /\ typed.pwd # Blank
          BY <3>1, <4>1 DEF Idle
        <5> HIDE DEF s
        <5> QED  BY <3>4, <5>1 DEF Fills
      <4>2. CASE o # New
        <5>1. s.at \in {"update", "saved"}
          BY <4>2 DEF Idle
        <5> HIDE DEF s, o, patch
        <5> QED  BY <3>2, <3>4, <3>5, <3>7, <4>2, <5>1 DEF Fills, IsFilled
      <4> QED  BY <4>1, <4>2
    <3>9. Knows(c)'
      BY <2>0, <2>4, <3>5 DEF SaveUser, Knows, IsFilled, Filled
    <3>10. ConsolesOK'
      <4> HIDE DEF s
      <4>1. disabled' = disabled \cup {c} /\ disabled' \subseteq Consoles
        BY <1>0, <2>4 DEF SaveUser
      <4>2. \A d \in Consoles : saving'[d].at = "idle" <=> d \notin disabled'
        BY <1>0, <3>1, <3>3, <3>4, <4>1 DEF s
      <4> QED  BY <1>0, <2>4, <2>m, <3>4, <3>5, <4>1, <4>2 DEF SaveUser, ConsolesOK, AccountsTypeOK, AccountsOK
    <3>11. OthersStay(c)
      <4> HIDE DEF s
      <4> QED  BY <1>0, <2>4, <3>1 DEF s, SaveUser, OthersStay
    <3> QED  BY <3>5, <3>8, <3>9, <3>10, <3>11, OneConsole
  <2>5. CASE Create(c)
    <3>1. PICK o \in Oids :
              /\ account[o] = NoAccount
              /\ UpdateUsers(c, [account EXCEPT ![o] = Created])
              /\ saving' = [saving EXCEPT ![c].at = "update", ![c].oid = o, ![c].typed = <<>>,
                                          ![c].patch = Patch(saving[c].typed, NoAccount, dialog[c].clear)]
      BY <2>5 DEF Create
    <3> DEFINE p == Patch(saving[c].typed, NoAccount, dialog[c].clear)
    <3>2. p \in Patches /\ DOMAIN p.set = Fields
      BY <2>0, <2>5, PatchSets DEF Create, Fills, Dialog
    <3>3. AccountsOK' /\ AccountsKept /\ account'[o] = Created
      BY <1>0, <3>1, CreateKeeps
    <3> HIDE DEF p
    <3>4. /\ saving' \in [Consoles -> Save] /\ saving'[c].at = "update"
          /\ saving'[c].oid = o /\ saving'[c].patch = p
      <4> DEFINE t == [saving[c] EXCEPT !.at = "update", !.oid = o, !.typed = <<>>, !.patch = p]
      <4>1. t \in Save /\ t.at = "update" /\ t.oid = o /\ t.patch = p
        BY <2>0, <3>2 DEF Save
      <4>2. saving' = [saving EXCEPT ![c] = t]
        BY <1>0, <3>1 DEF p
      <4> HIDE DEF t
      <4> QED  BY <1>0, <4>1, <4>2
    <3>5. Fills(c)'
      BY <3>2, <3>3, <3>4, CreatedIsBlank DEF Fills
    <3>6. Knows(c)'
      BY <2>0, <2>5, <3>3, KnowsStays DEF Create
    <3>7. OthersStay(c)
      BY <1>0, <2>5, <3>1 DEF Create, OthersStay
    <3>8. ConsolesOK'
      <4>1. \A d \in Consoles : saving'[d].at = "idle" <=> d \notin disabled
        BY <1>0, <2>5, <3>4, <3>7 DEF Create, OthersStay
      <4> QED  BY <1>0, <2>5, <3>3, <3>4, <4>1 DEF Create, ConsolesOK, AccountsTypeOK, AccountsOK
    <3> QED  BY <3>3, <3>5, <3>6, <3>7, <3>8, OneConsole
  <2>6. CASE Update(c)
    <3> DEFINE s == [Idle EXCEPT !.at = "saved"]
    <3>1. s \in Save /\ s.at = "saved"
      BY DEF Idle, Save
    <3>2. AccountsOK' /\ AccountsKept
      BY <1>0, <2>0, <2>6, SetKeeps DEF Update, Fills
    <3> HIDE DEF s
    <3>3. saving' \in [Consoles -> Save] /\ saving'[c] = s
      BY <1>0, <2>6, <3>1 DEF Update, s
    <3>4. Fills(c)'
      BY <3>1, <3>3 DEF Fills
    <3>5. Knows(c)'
      BY <2>0, <2>6, <3>2, KnowsStays DEF Update
    <3>6. OthersStay(c)
      BY <1>0, <2>6 DEF Update, OthersStay
    <3>7. ConsolesOK'
      <4>1. \A d \in Consoles : saving'[d].at = "idle" <=> d \notin disabled
        BY <1>0, <2>6, <3>1, <3>3, <3>6 DEF Update, OthersStay
      <4> QED  BY <1>0, <2>6, <3>2, <3>3, <4>1 DEF Update, ConsolesOK, AccountsTypeOK, AccountsOK
    <3> QED  BY <3>2, <3>4, <3>5, <3>6, <3>7, OneConsole
  <2>7. CASE Saved(c)
    <3>1. PICK loaded \in {copy[c], Listed} : copy' = [copy EXCEPT ![c] = loaded]
      BY <2>7 DEF Saved
    <3>2. AccountsOK' /\ AccountsKept /\ account' = account
      BY <1>0, <2>7, AccountsStay DEF Saved
    <3>3. dialog' \in [Consoles -> Dialog] /\ dialog'[c].oid = New
      BY <1>0, <2>7, ShutIsDialog DEF Saved
    <3>4. saving' \in [Consoles -> Save] /\ saving'[c] = Idle
      BY <1>0, <2>7, IdleIsSave DEF Saved
    <3>5. Knows(c)' /\ copy' \in [Consoles -> [Oids -> Record \cup {NoAccount}]]
      <4>1. CASE loaded = copy[c]
        BY <1>0, <2>0, <2>7, <3>1, <3>2, <3>3, <4>1, KnowsStays DEF Saved
      <4>2. CASE loaded = Listed
        BY <2>7, <3>1, <3>2, <3>3, <4>2, KnowsListed DEF Saved
      <4> QED  BY <4>1, <4>2
    <3>6. Fills(c)'
      BY <3>4, IdleIsSave DEF Fills
    <3>7. OthersStay(c)
      BY <1>0, <2>7, <3>1 DEF Saved, OthersStay
    <3>8. ConsolesOK'
      <4>1. \A d \in Consoles : saving'[d].at = "idle" <=> d \notin disabled'
        BY <1>0, <2>7, <3>4, <3>7, IdleIsSave DEF Saved, OthersStay
      <4> QED  BY <1>0, <2>7, <3>2, <3>3, <3>4, <3>5, <4>1 DEF Saved, ConsolesOK, AccountsTypeOK, AccountsOK
    <3> QED  BY <3>2, <3>5, <3>6, <3>7, <3>8, OneConsole
  <2>8. ASSUME account' = account, copy' = copy, dialog' = dialog, erasing' = erasing,
               saving' = [saving EXCEPT ![c] = Idle], disabled' = disabled \ {c}, made' \in 0..MaxEvents
        PROVE  AccountsInv'
    <3>1. AccountsOK' /\ AccountsKept
      BY <1>0, <2>8, AccountsStay
    <3>2. saving' \in [Consoles -> Save] /\ saving'[c] = Idle
      BY <1>0, <2>8, IdleIsSave
    <3>3. Knows(c)' /\ Fills(c)'
      BY <2>0, <2>8, <3>1, <3>2, IdleIsSave, KnowsStays DEF Fills
    <3>4. OthersStay(c)
      BY <1>0, <2>8 DEF OthersStay
    <3>5. ConsolesOK'
      <4>1. \A d \in Consoles : saving'[d].at = "idle" <=> d \notin disabled'
        BY <1>0, <2>8, <3>2, <3>4, IdleIsSave DEF OthersStay
      <4> QED  BY <1>0, <2>8, <3>1, <3>2, <4>1 DEF ConsolesOK, AccountsTypeOK, AccountsOK
    <3> QED  BY <3>1, <3>3, <3>4, <3>5, OneConsole
  <2>9. CASE SaveFails(c)
    BY <2>9, <2>8, <2>c, <2>m DEF SaveFails
  <2>10. CASE SavedUnheard(c)
    BY <2>10, <2>8, <2>c DEF SavedUnheard
  <2>11. ASSUME NEW o \in Oids \cup {NoAccount}, erasing' = [erasing EXCEPT ![c] = o], o # NoAccount => IsFilled(o),
                account' = account, copy' = copy, dialog' = dialog, saving' = saving, disabled' = disabled,
                made' \in 0..MaxEvents
         PROVE  AccountsInv'
    <3>1. AccountsOK' /\ AccountsKept
      BY <1>0, <2>11, AccountsStay
    <3>2. erasing' \in [Consoles -> Oids \cup {NoAccount}] /\ erasing'[c] = o
      BY <1>0, <2>11
    <3>3. Knows(c)' /\ Fills(c)'
      BY <2>0, <2>11, <3>2 DEF Knows, Fills, IsFilled, Filled
    <3>4. OthersStay(c)
      BY <1>0, <2>11 DEF OthersStay
    <3>5. ConsolesOK'
      BY <1>0, <2>11, <3>2 DEF ConsolesOK, AccountsTypeOK
    <3> QED  BY <3>1, <3>3, <3>4, <3>5, OneConsole
  <2>12. CASE DeleteUser(c)
    BY <2>0, <2>12, <2>11, <2>m DEF DeleteUser, Knows
  <2>13. CASE DeleteFails(c)
    BY <2>13, <2>11, <2>c, <2>m DEF DeleteFails
  <2>14. CASE Deleted(c)
    <3>1. AccountsOK' /\ AccountsKept
      BY <1>0, <2>0, <2>14, DeleteKeeps DEF Deleted, Knows
    <3>2. /\ erasing' \in [Consoles -> Oids \cup {NoAccount}] /\ erasing'[c] = NoAccount
          /\ dialog' \in [Consoles -> Dialog] /\ dialog'[c].oid = New
      BY <1>0, <2>14, ShutIsDialog DEF Deleted
    <3>3. Knows(c)' /\ Fills(c)'
      BY <2>0, <2>14, <3>1, <3>2, KnowsStays, FillsStays DEF Deleted
    <3>4. OthersStay(c)
      BY <1>0, <2>14 DEF Deleted, OthersStay
    <3>5. ConsolesOK'
      BY <1>0, <2>14, <2>m, <3>1, <3>2 DEF Deleted, ConsolesOK, AccountsTypeOK, AccountsOK
    <3> QED  BY <3>1, <3>3, <3>4, <3>5, OneConsole
  <2>15. CASE Load(c)
    <3>1. AccountsOK' /\ AccountsKept
      BY <1>0, <2>15, AccountsStay DEF Load
    <3>2. Knows(c)' /\ copy' \in [Consoles -> [Oids -> Record \cup {NoAccount}]]
      BY <2>15, KnowsListed DEF Load
    <3>3. Fills(c)'
      BY <2>0, <2>15, <3>1, FillsStays DEF Load
    <3>4. OthersStay(c)
      BY <1>0, <2>15 DEF Load, OthersStay
    <3>5. ConsolesOK'
      BY <1>0, <2>15, <2>m, <3>1, <3>2 DEF Load, ConsolesOK, AccountsTypeOK, AccountsOK
    <3> QED  BY <3>1, <3>2, <3>3, <3>4, <3>5, OneConsole
  <2> QED  BY <1>n, <2>1, <2>2, <2>3, <2>4, <2>5, <2>6, <2>7, <2>9, <2>10, <2>12, <2>13, <2>14, <2>15
<1> QED  BY <1>u, <1>n DEF AccountsNext

LEMMA AccountsInvHolds == AccountsSpec => []AccountsInv
  BY AccountsInvInit, AccountsInvStep, PTL DEF AccountsSpec

-----------------------------------------------------------------------------
(* Theorems. *)

LEMMA AccountsInvTypes == AccountsInv => AccountsTypeOK
BY DEF AccountsInv, ConsolesOK

\* The accounts, the copies and the requests of every console are of their types, and the Save
\* button is disabled exactly while a save is in flight.
THEOREM AccountsAreTyped == AccountsSpec => []AccountsTypeOK
<1> QED  BY AccountsInvTypes, AccountsInvHolds, PTL

\* However many administrators change, create and delete accounts at once, and whichever of
\* their requests fail or go unheard, an administrator is left whose user ID and password are
\* filled in, although an account is created without, and no other account that the lookup of
\* that user ID could find is one that was not deleted (UpdateUsers, Users.User). For as long
\* as a deleted one of the same user ID is kept, it does not say that a sign-in succeeds.
THEOREM AnAdministratorRemains == AccountsSpec => []AdministratorIsLeft
<1>1. AccountsInv => AdministratorIsLeft
  <2> SUFFICES ASSUME AccountsInv PROVE AdministratorIsLeft  OBVIOUS
  <2>1. PICK o \in Live(account) : account[o].role = "admin"
    BY DEF AccountsInv, AccountsOK, HasAdmin
  <2>2. o \in Oids /\ account[o] # NoAccount
    BY DEF Live
  <2>3. account[o] # Created
    BY <2>1, AccountsAssumption DEF Created, Roles
  <2>4. Filled(account[o])
    BY <2>2, <2>3 DEF AccountsInv, AccountsOK, BlankOrFilled
  <2>5. \A p \in Live(account) : Same(account[p].uid) = Same(account[o].uid) => p = o
    BY <2>4 DEF AccountsInv, AccountsOK, UniqueUids, Filled
  <2>6. \A p \in WithUid(account[o].uid) : p = o \/ account[p].deleted
    BY <2>5, Zenon DEF WithUid, Live
  <2> QED  BY <2>1, <2>4, <2>5, <2>6 DEF AdministratorIsLeft, Filled
<1> QED  BY <1>1, AccountsInvHolds, PTL


-----------------------------------------------------------------------------
(* Password.  The invariant: a change that is not made yet has seen the    *)
(* password of now, and one that nothing came after is the password of now.*)

AttemptStages == {"sent", "verified", "refused", "failed", "made"}
Statuses == {0, 200, 400, 401, 504}
Writers == {"worker", "respond"}

Attempt == [id : Nat \ {0}, old : Passwords, new : Passwords, at : AttemptStages, status : Statuses,
            wrote : SUBSET Writers, had : SUBSET Passwords, others : SUBSET Nat]

AttemptOK(a) ==
    /\ a.at \in {"sent", "verified"} => password \in a.had
    /\ a.at \in {"verified", "made"} => a.old \in a.had
    /\ a.at = "made" /\ a.others = {} => password = a.new
    /\ a.status = 200 => a.at = "made"

MessageOK == message = "changed" => \E a \in attempts : a.id = told /\ a.at = "made"

PasswordInv ==
    /\ password \in Passwords /\ tried \in Nat
    /\ message \in {NoMessage, "no match", "changed", "unauthorized", "error"}
    /\ attempts \subseteq Attempt
    /\ (\A a \in attempts : AttemptOK(a)) /\ MessageOK

LEMMA AttemptNamed ==
    /\ \A stage \in {"sent", "verified", "refused", "failed", "made"} : stage \in AttemptStages
    /\ \A status \in {0, 200, 400, 401, 504} : status \in Statuses
    /\ "worker" \in Writers /\ "respond" \in Writers
  BY DEF AttemptStages, Statuses, Writers

\* An attempt is replaced by another one of the same submission.
LEMMA TurnsKeep ==
    ASSUME PasswordInv, NEW a \in attempts, NEW b \in Attempt, Turns(a, b), UNCHANGED <<password, message, told, tried>>,
           AttemptOK(b), b.id = a.id, a.at = "made" => b.at = "made"
    PROVE  PasswordInv'
<1>1. attempts' = (attempts \ {a}) \cup {b}
  BY DEF Turns
<1>2. attempts' \subseteq Attempt
  BY <1>1 DEF PasswordInv
<1>3. \A c \in attempts' : AttemptOK(c)'
  BY <1>1 DEF PasswordInv, AttemptOK
<1>4. MessageOK'
  BY <1>1 DEF PasswordInv, MessageOK
<1> QED  BY <1>2, <1>3, <1>4 DEF PasswordInv

LEMMA WritesType ==
    ASSUME NEW a \in Attempt, NEW who \in Writers, NEW status \in Statuses
    PROVE  LET b == Writes(a, who, status) IN
           /\ b \in Attempt /\ b.id = a.id /\ b.at = a.at /\ b.old = a.old /\ b.new = a.new
           /\ b.had = a.had /\ b.others = a.others /\ b.status \in {a.status, status}
<1> DEFINE first == IF a.wrote = {} THEN status ELSE a.status
           b == [a EXCEPT !.wrote = a.wrote \cup {who}, !.status = first]
<1>1. Writes(a, who, status) = b
  BY DEF Writes
<1>2. first \in {a.status, status} /\ first \in Statuses
  BY DEF Attempt
<1>3. a.wrote \cup {who} \in SUBSET Writers
  BY DEF Attempt
<1> HIDE DEF first
<1>4. /\ b.id = a.id /\ b.at = a.at /\ b.old = a.old /\ b.new = a.new
      /\ b.had = a.had /\ b.others = a.others /\ b.status = first
  BY DEF Attempt
<1>5. b \in Attempt
  BY <1>2, <1>3 DEF Attempt
<1> QED  BY <1>1, <1>2, <1>4, <1>5

LEMMA PasswordInvInit == PasswordInit => PasswordInv
<1> SUFFICES ASSUME PasswordInit PROVE PasswordInv  OBVIOUS
<1>1. password \in Passwords /\ tried \in Nat /\ attempts = {} /\ message = NoMessage
  BY DEF PasswordInit
<1>2. MessageOK
  BY <1>1, PasswordAssumption DEF MessageOK
<1> QED  BY <1>1, <1>2 DEF PasswordInv

LEMMA PasswordInvStep == PasswordInv /\ [PasswordNext]_passwordVars => PasswordInv'
<1> SUFFICES ASSUME PasswordInv, [PasswordNext]_passwordVars PROVE PasswordInv'  OBVIOUS
<1>u. CASE UNCHANGED passwordVars
  BY <1>u DEF PasswordInv, AttemptOK, MessageOK, passwordVars
<1>s. ASSUME NEW old \in Passwords, NEW new \in Passwords, NEW again \in Passwords, Submit(old, new, again)
      PROVE  PasswordInv'
  <2>1. tried' \in Nat /\ tried' # 0 /\ password' = password
    <3>1. tried' = tried + 1 /\ password' = password
      BY <1>s DEF Submit
    <3>2. tried \in Nat
      BY DEF PasswordInv
    <3> QED  BY <3>1, <3>2
  <2>2. CASE new # again
    <3>1. message' = "no match" /\ attempts' = attempts
      BY <1>s, <2>2 DEF Submit
    <3> QED  BY <2>1, <3>1 DEF PasswordInv, AttemptOK, MessageOK
  <2>3. CASE new = again
    <3> DEFINE ids == {c.id : c \in {d \in attempts : d.at \in {"sent", "verified"}}}
               sent == [id |-> tried', old |-> old, new |-> new, at |-> "sent", status |-> 0, wrote |-> {},
                        had |-> {password}, others |-> ids]
    <3>1. message' = NoMessage /\ attempts' = attempts \cup {sent}
      BY <1>s, <2>3 DEF Submit, Dismiss
    <3>2. ids \in SUBSET Nat
      BY DEF PasswordInv, Attempt
    <3> HIDE DEF ids
    <3>3. {password} \in SUBSET Passwords /\ {} \in SUBSET Writers /\ 0 \in Statuses /\ "sent" \in AttemptStages
      BY DEF PasswordInv, Statuses, AttemptStages
    <3>4. sent \in Attempt
      BY <2>1, <3>2, <3>3 DEF Attempt
    <3>5. PICK b \in Attempt : attempts' = attempts \cup {b} /\ b.at = "sent" /\ b.status = 0 /\ password \in b.had
      BY <3>1, <3>4
    <3>6. \A c \in attempts' : AttemptOK(c)'
      <4>1. \A c \in attempts : AttemptOK(c)'
        BY <2>1 DEF PasswordInv, AttemptOK
      <4>2. AttemptOK(b)'
        BY <2>1, <3>5 DEF AttemptOK
      <4> QED  BY <3>5, <4>1, <4>2
    <3> HIDE DEF sent
    <3> QED  BY <2>1, <3>1, <3>5, <3>6, PasswordAssumption DEF PasswordInv, MessageOK
  <2> QED  BY <2>2, <2>3
<1>a. ASSUME NEW a \in attempts, Verify(a) \/ Change(a) \/ ChangeFails(a) \/ Respond(a) \/ Hear(a)
      PROVE  PasswordInv'
  <2>0. a \in Attempt /\ AttemptOK(a)
    BY DEF PasswordInv
  <2>1. CASE Verify(a)
    <3>1. a.at = "sent" /\ UNCHANGED <<password, message, told, tried>>
      BY <2>1 DEF Verify
    <3>2. CASE Verified(a)
      <4> DEFINE b == [a EXCEPT !.at = "verified"]
      <4>1. Turns(a, b)
        BY <2>1, <3>2 DEF Verify
      <4>2. /\ b \in Attempt /\ b.id = a.id /\ b.at = "verified" /\ b.status = a.status
            /\ b.had = a.had /\ b.old = a.old
        BY <2>0, AttemptNamed DEF Attempt
      <4> HIDE DEF b
      <4>3. AttemptOK(b)
        BY <2>0, <3>1, <3>2, <4>2 DEF AttemptOK, Verified
      <4> QED  BY <3>1, <4>1, <4>2, <4>3, TurnsKeep
    <3>3. CASE ~Verified(a)
      <4> DEFINE w == Writes(a, "worker", 401)
                 b == [w EXCEPT !.at = "refused"]
      <4>1. Turns(a, b)
        BY <2>1, <3>3 DEF Verify
      <4>2. w \in Attempt /\ w.id = a.id /\ w.status \in {a.status, 401}
        BY <2>0, WritesType, AttemptNamed
      <4>3. b \in Attempt /\ b.id = a.id /\ b.at = "refused" /\ b.status \in {a.status, 401}
        <5> HIDE DEF w
        <5> QED  BY <4>2, AttemptNamed DEF Attempt
      <4> HIDE DEF b
      <4>4. AttemptOK(b)
        BY <2>0, <3>1, <4>3 DEF AttemptOK
      <4> QED  BY <3>1, <4>1, <4>3, <4>4, TurnsKeep
    <3> QED  BY <3>2, <3>3
  <2>2. CASE Change(a)
    <3> DEFINE other(b) == [b EXCEPT !.had = IF b.at \in {"sent", "verified"} THEN @ \cup {a.new} ELSE @,
                                     !.others = IF b.at \in {"sent", "verified", "made"} THEN @ \cup {a.id} ELSE @]
               changed == [a EXCEPT !.at = "made"]
    <3>1. /\ a.at = "verified" /\ password' = a.new /\ UNCHANGED <<message, told, tried>>
          /\ attempts' = {other(b) : b \in attempts \ {a}} \cup {changed}
      BY <2>2 DEF Change
    <3>2. ASSUME NEW b \in attempts
          PROVE  /\ other(b) \in Attempt /\ other(b).id = b.id /\ other(b).at = b.at /\ other(b).status = b.status
                 /\ other(b).old = b.old /\ other(b).new = b.new /\ b.had \subseteq other(b).had
                 /\ b.at \in {"sent", "verified"} => a.new \in other(b).had
                 /\ b.at = "made" => other(b).others # {}
      <4> DEFINE h == IF b.at \in {"sent", "verified"} THEN b.had \cup {a.new} ELSE b.had
                 o == IF b.at \in {"sent", "verified", "made"} THEN b.others \cup {a.id} ELSE b.others
                 d == [b EXCEPT !.had = h, !.others = o]
      <4>1. b \in Attempt /\ a.new \in Passwords /\ a.id \in Nat
        BY <2>0 DEF PasswordInv, Attempt
      <4>2. other(b) = d
        OBVIOUS
      <4>3. h \in SUBSET Passwords /\ b.had \subseteq h /\ (b.at \in {"sent", "verified"} => a.new \in h)
        BY <4>1 DEF Attempt
      <4>4. o \in SUBSET Nat /\ (b.at = "made" => o # {})
        BY <4>1 DEF Attempt
      <4> HIDE DEF h, o, other
      <4>5. d.id = b.id /\ d.at = b.at /\ d.status = b.status /\ d.old = b.old /\ d.new = b.new /\ d.had = h /\ d.others = o
        BY <4>1 DEF Attempt
      <4>6. d \in Attempt
        BY <4>1, <4>3, <4>4 DEF Attempt
      <4> QED  BY <4>2, <4>3, <4>4, <4>5, <4>6
    <3>3. /\ changed \in Attempt /\ changed.id = a.id /\ changed.at = "made" /\ changed.old = a.old /\ changed.new = a.new
          /\ changed.had = a.had /\ changed.status = a.status
      BY <2>0, AttemptNamed DEF Attempt
    <3> HIDE DEF other, changed
    <3>4. password' \in Passwords
      BY <2>0, <3>1 DEF Attempt
    <3>5. ASSUME NEW b \in attempts PROVE AttemptOK(other(b))'
      <4>1. AttemptOK(b)
        BY DEF PasswordInv
      <4> QED  BY <3>1, <3>2, <4>1 DEF AttemptOK
    <3>6. AttemptOK(changed)'
      BY <2>0, <3>1, <3>3 DEF AttemptOK
    <3>7. \A c \in attempts' : c \in Attempt /\ AttemptOK(c)'
      BY <3>1, <3>2, <3>3, <3>5, <3>6
    <3>8. MessageOK'
      <4>1. ASSUME message = "changed" PROVE \E c \in attempts' : c.id = told /\ c.at = "made"
        <5>1. PICK c \in attempts : c.id = told /\ c.at = "made"
          BY <4>1 DEF PasswordInv, MessageOK
        <5>2. other(c) \in attempts'
          BY <3>1, <5>1
        <5> QED  BY <3>2, <5>1, <5>2
      <4> QED  BY <3>1, <4>1 DEF MessageOK
    <3> QED  BY <3>1, <3>4, <3>7, <3>8 DEF PasswordInv
  <2>3. CASE ChangeFails(a)
    <3> DEFINE b == [a EXCEPT !.at = "failed"]
    <3>1. a.at = "verified" /\ Turns(a, b) /\ UNCHANGED <<password, message, told, tried>>
      BY <2>3 DEF ChangeFails
    <3>2. b \in Attempt /\ b.id = a.id /\ b.at = "failed" /\ b.status = a.status
      BY <2>0, AttemptNamed DEF Attempt
    <3> HIDE DEF b
    <3>3. AttemptOK(b)
      BY <2>0, <3>1, <3>2 DEF AttemptOK
    <3> QED  BY <3>1, <3>2, <3>3, TurnsKeep
  <2>4. CASE Respond(a)
    <3>1. PICK status \in {200, 400, 504} :
              Turns(a, Writes(a, "respond", status)) /\ (status = 200 => a.at = "made")
      BY <2>4 DEF Respond, Answered
    <3> DEFINE b == Writes(a, "respond", status)
    <3>2. /\ b \in Attempt /\ b.id = a.id /\ b.at = a.at /\ b.old = a.old /\ b.new = a.new
          /\ b.had = a.had /\ b.others = a.others /\ b.status \in {a.status, status}
      <4>1. status \in Statuses /\ "respond" \in Writers
        BY AttemptNamed
      <4> QED  BY <2>0, <4>1, WritesType
    <3> HIDE DEF b
    <3>3. AttemptOK(b)
      BY <2>0, <3>1, <3>2 DEF AttemptOK
    <3>4. UNCHANGED <<password, message, told, tried>> /\ Turns(a, b)
      BY <2>4, <3>1 DEF Respond, b
    <3> QED  BY <3>2, <3>3, <3>4, TurnsKeep
  <2>5. CASE Hear(a)
    <3> DEFINE b == [a EXCEPT !.status = 0]
    <3>1. /\ attempts' = (attempts \ {a}) \cup {b} /\ password' = password /\ tried' = tried /\ told' = a.id
          /\ message' \in {"changed", "unauthorized", "error"} /\ (message' = "changed" => a.status = 200)
      BY <2>5 DEF Hear, Turns, Warns
    <3>2. /\ b \in Attempt /\ b.id = a.id /\ b.at = a.at /\ b.old = a.old /\ b.new = a.new
          /\ b.had = a.had /\ b.others = a.others /\ b.status = 0
      BY <2>0, AttemptNamed DEF Attempt
    <3> HIDE DEF b
    <3>3. AttemptOK(b)'
      BY <2>0, <3>1, <3>2 DEF AttemptOK
    <3>4. \A c \in attempts' : c \in Attempt /\ AttemptOK(c)'
      <4>1. \A c \in attempts : c \in Attempt /\ AttemptOK(c)'
        BY <3>1 DEF PasswordInv, AttemptOK
      <4> QED  BY <3>1, <3>2, <3>3, <4>1
    <3>5. MessageOK'
      BY <2>0, <3>1, <3>2 DEF MessageOK, AttemptOK
    <3> QED  BY <3>1, <3>4, <3>5 DEF PasswordInv
  <2> QED  BY <1>a, <2>1, <2>2, <2>3, <2>4, <2>5
<1> QED  BY <1>u, <1>s, <1>a DEF PasswordNext

LEMMA PasswordInvHolds == PasswordSpec => []PasswordInv
  BY PasswordInvInit, PasswordInvStep, PTL DEF PasswordSpec

-----------------------------------------------------------------------------
(* Theorems. *)

LEMMA PasswordInvTypes == PasswordInv => PasswordTypeOK
<1> SUFFICES ASSUME PasswordInv PROVE PasswordTypeOK  OBVIOUS
<1>1. \A a \in attempts : a.wrote \subseteq {"worker", "respond"} /\ a.status \in {0, 200, 400, 401, 504}
  <2> SUFFICES ASSUME NEW a \in attempts PROVE a.wrote \subseteq Writers /\ a.status \in Statuses
    BY DEF Writers, Statuses
  <2> QED  BY DEF PasswordInv, Attempt
<1> QED  BY <1>1 DEF PasswordInv, PasswordTypeOK

\* What the page says, and what is written for an answer, are of their types.
THEOREM PasswordIsTyped == PasswordSpec => []PasswordTypeOK
<1> QED  BY PasswordInvTypes, PasswordInvHolds, PTL

\* However many changes are verified, made and answered 'timeout' at once, each that is made was
\* asked for by somebody who knew a password of the account meanwhile, and what the page reports
\* as changed was, and is the password unless another change was under way beside or after it.
THEOREM ChangesAreAsSaid == PasswordSpec => []ChangesAsSaid
<1>1. PasswordInv => ChangesAsSaid
  BY DEF PasswordInv, AttemptOK, MessageOK, ChangesAsSaid, MakersKnewIt, ChangedAsSaid
<1> QED  BY <1>1, PasswordInvHolds, PTL

-----------------------------------------------------------------------------
(* Maintenance.  The invariant of an import: what is sent                  *)
(* are the choices the page showed at the click, and what is compared with *)
(* is the preview of what was read.  That of the backups: unless two lists *)
(* crossed, every answer on its way is as recent as the last report.       *)

Sent(asked) == [n \in DOMAIN asked |->
    [mode |-> IF asked[n].on THEN asked[n].mode ELSE "skip", from |-> asked[n].from]]

PreviewOf(p, h) ==
    /\ DOMAIN p = {n \in Numbers : Holders(h, n) # {}}
    /\ \A n \in DOMAIN p : /\ p[n].from = Holders(h, n)
                           /\ p[n].status = Status(h, n)

ReadOK(read) == PreviewOf(read.preview, read.held)

ImportOK ==
    applying # NoEntry =>
        /\ applying = [choices |-> applying.choices, read |-> applying.read, asked |-> applying.asked]
        /\ applying.choices = Sent(applying.asked)
        /\ applying.read # NoEntry => ReadOK(applying.read)

LEMMA ImportInit == MaintenanceInit => ImportOK
  BY DEF MaintenanceInit, ImportOK

LEMMA PreviewIsPreview == PreviewOf(Preview, held)
  BY DEF PreviewOf, Preview

LEMMA ImportStep == ImportOK /\ [MaintenanceNext]_maintenanceVars => ImportOK'
<1> SUFFICES ASSUME ImportOK, [MaintenanceNext]_maintenanceVars PROVE ImportOK'  OBVIOUS
<1>kept. (applying' = applying \/ applying' = NoEntry) => ImportOK'
  BY DEF ImportOK
<1>1. CASE ApplyClicked
  <2>1. applying' = [choices |-> Resolutions, read |-> NoEntry, asked |-> choice]
    BY <1>1 DEF ApplyClicked
  <2>2. Resolutions = Sent(choice)
    BY DEF Resolutions, Sent
  <2> QED  BY <2>1, <2>2 DEF ImportOK
<1>2. CASE ApplyReads
  <2>1. applying # NoEntry /\ applying' = [applying EXCEPT !.read = [held |-> held, preview |-> Preview]]
    BY <1>2 DEF ApplyReads
  <2>2. PICK read : read = [held |-> held, preview |-> Preview]
    OBVIOUS
  <2>3. ReadOK(read)
    BY <2>2, PreviewIsPreview DEF ReadOK
  <2>4. applying' = [choices |-> applying.choices, read |-> read, asked |-> applying.asked]
    BY <2>1, <2>2 DEF ImportOK
  <2>5. applying.choices = Sent(applying.asked)
    BY <2>1 DEF ImportOK
  <2> QED  BY <2>3, <2>4, <2>5 DEF ImportOK
<1>3. CASE OpenImport \/ PreviewAnswered \/ PreviewFails \/ Choose
           \/ CloseDialog \/ Elsewhere
  BY <1>3, <1>kept DEF OpenImport, PreviewAnswered, PreviewFails,
     Choose, CloseDialog, Elsewhere, import
<1>4. CASE ApplyDone \/ ApplyFails \/ Restored
  BY <1>4, <1>kept DEF ApplyDone, ApplyFails, Restored
<1>5. CASE OpenBackups \/ ListingServed \/ ListingArrives \/ ListingFails
           \/ CreateClicked \/ BackupMade \/ CreateFails
           \/ RestoreClicked \/ RestoreFails
  BY <1>5, <1>kept DEF OpenBackups, ListingServed, ListingArrives,
     ListingFails, CreateClicked, BackupMade, CreateFails,
     RestoreClicked, RestoreFails, import
<1>6. CASE UNCHANGED maintenanceVars
  BY <1>6, <1>kept DEF maintenanceVars, import
<1> QED  BY <1>1, <1>2, <1>3, <1>4, <1>5, <1>6 DEF MaintenanceNext

\* What an import changes of one credential.
ChangedAsChosen(n) ==
    LET read == applying.read
        asked == n \in DOMAIN applying.asked
        chosen == applying.asked[n] IN
    /\ asked => chosen.on
    /\ local[n] # NoEntry /\ read.preview[n].match => asked /\ chosen.mode = "override"
    /\ read.preview[n].status = "choice" => asked /\ local'[n] = read.held[chosen.from][n]
    /\ local'[n] \in Values(read.held, n)

LEMMA CommitAsChosen ==
    ASSUME ImportOK, applying # NoEntry, Commit,
           NEW n \in Numbers, local'[n] # local[n]
    PROVE  ChangedAsChosen(n)
<1> DEFINE read == applying.read
           p == applying.read.preview
           h == applying.read.held
           r == ResolutionFor(n)
           source == Source(n)
<1>1. applying.choices = Sent(applying.asked) /\ PreviewOf(p, h)
  BY DEF ImportOK, ReadOK, Commit
<1>2. source # NoEntry /\ ~(local[n] # NoEntry /\ Preserves(n)) /\ local'[n] = source
  BY DEF Commit, Merged
<1>3. n \in Eligible(p) /\ r.mode # "skip"
  BY <1>2 DEF Source
<1>4. n \in DOMAIN p /\ p[n].from = Holders(h, n) /\ Holders(h, n) # {}
  BY <1>1, <1>3 DEF Eligible, PreviewOf
<1>5. n \in DOMAIN applying.asked =>
          r = [mode |-> IF applying.asked[n].on THEN applying.asked[n].mode ELSE "skip",
               from |-> applying.asked[n].from]
  BY <1>1 DEF ResolutionFor, Sent
<1>6. n \notin DOMAIN applying.asked => r = [mode |-> "unset", from |-> NoEntry]
  BY <1>1 DEF ResolutionFor, Sent
<1>7. n \in DOMAIN applying.asked => applying.asked[n].on
  BY <1>3, <1>5
<1>8. local[n] # NoEntry /\ p[n].match => n \in DOMAIN applying.asked /\ applying.asked[n].mode = "override"
  <2> SUFFICES ASSUME local[n] # NoEntry, p[n].match
               PROVE  n \in DOMAIN applying.asked /\ applying.asked[n].mode = "override"
    OBVIOUS
  <2>1. r.mode = "override"
    BY <1>2 DEF Preserves
  <2> QED  BY <2>1, <1>5, <1>6
<1>9. p[n].status # "ready" => r.from \in Holders(h, n) /\ source = h[r.from][n]
  BY <1>2, <1>3, <1>4 DEF Source
<1>10. p[n].status = "choice" => n \in DOMAIN applying.asked /\ local'[n] = h[applying.asked[n].from][n]
  <2> SUFFICES ASSUME p[n].status = "choice"
               PROVE  n \in DOMAIN applying.asked /\ local'[n] = h[applying.asked[n].from][n]
    OBVIOUS
  <2>1. r.from \in Controllers /\ source = h[r.from][n]
    BY <1>9 DEF Holders
  <2>2. n \in DOMAIN applying.asked
    BY <2>1, <1>6, MaintenanceAssumption
  <2> QED  BY <2>1, <2>2, <1>2, <1>5
<1>11. source \in Values(h, n)
  <2>1. CASE p[n].status = "ready"
    <3>1. source = CHOOSE v \in Values(h, n) : TRUE
      BY <2>1, <1>2, <1>3 DEF Source
    <3>2. \E v \in Values(h, n) : TRUE
      BY <1>4 DEF Values
    <3> QED  BY <3>1, <3>2
  <2>2. CASE p[n].status # "ready"
    BY <2>2, <1>9 DEF Values
  <2> QED  BY <2>1, <2>2
<1> QED  BY <1>2, <1>7, <1>8, <1>10, <1>11 DEF ChangedAsChosen

\* applyControllerImport(), ApplyControllerImport: whatever others change on the controllers and
\* in the credentials between the preview, the click, the reading and the commit, an import
\* changes what the user left checked, as they chose, and keeps the rest.
THEOREM ImportsAreAsChosen == MaintenanceSpec => ImportAsChosen
<1>1. MaintenanceInit => ImportOK
  BY ImportInit
<1>2. ImportOK /\ [MaintenanceNext]_maintenanceVars => ImportOK'
  BY ImportStep
<1>3. ImportOK /\ applying # NoEntry /\ applying' = NoEntry /\ Commit =>
          \A n \in Numbers : local'[n] # local[n] => ChangedAsChosen(n)
  BY CommitAsChosen
<1> QED  BY <1>1, <1>2, <1>3, PTL DEF MaintenanceSpec, ImportAsChosen, ChangedAsChosen

-----------------------------------------------------------------------------
AtLeast(n) == {k \in Nat : k >= n}

BackupsOK ==
    /\ backups \in Nat /\ reported \in Nat /\ reported <= backups /\ backups <= MaxBackups
    /\ listing \in Seq(Nat)
    /\ ~crossed => listing \in Seq(AtLeast(reported))
    /\ ~crossed /\ shown # NoEntry => shown \in AtLeast(reported)

LEMMA Shortened ==
    ASSUME NEW S, NEW s \in Seq(S), NEW i \in DOMAIN s
    PROVE  RemoveAt(s, i) \in Seq(S)
<1>1. Len(s) \in Nat /\ i \in 1 .. Len(s)
  BY LenProperties
<1>2. SubSeq(s, 1, i - 1) \in Seq(S) /\ SubSeq(s, i + 1, Len(s)) \in Seq(S)
  BY <1>1, SubSeqProperties
<1> QED  BY <1>2, ConcatProperties DEF RemoveAt

LEMMA BackupsInit == MaintenanceInit => BackupsOK
<1> SUFFICES ASSUME MaintenanceInit PROVE BackupsOK  OBVIOUS
<1>1. backups = 0 /\ reported = 0 /\ listing = <<>> /\ shown = NoEntry
  BY DEF MaintenanceInit
<1>2. listing \in Seq(Nat) /\ listing \in Seq(AtLeast(reported))
  BY <1>1, EmptySeq
<1> QED  BY <1>1, <1>2, MaintenanceAssumption DEF BackupsOK

LEMMA BackupsStep == BackupsOK /\ [MaintenanceNext]_maintenanceVars => BackupsOK'
<1> SUFFICES ASSUME BackupsOK, [MaintenanceNext]_maintenanceVars PROVE BackupsOK'  OBVIOUS
<1> USE MaintenanceAssumption
<1>types. /\ backups \in Nat /\ reported \in Nat /\ reported <= backups /\ backups <= MaxBackups
          /\ listing \in Seq(Nat)
  BY DEF BackupsOK
\* At most a backup that nobody reports is made.
<1>kept. ASSUME reported' = reported, listing' = listing, shown' = shown, crossed' = crossed,
                backups' = backups \/ (backups < MaxBackups /\ backups' = backups + 1)
         PROVE  BackupsOK'
  <2>1. backups' \in Nat /\ reported' <= backups' /\ backups' <= MaxBackups
    BY <1>types, <1>kept
  <2> QED  BY <2>1, <1>types, <1>kept DEF BackupsOK
\* A list is asked for, and nothing or one more backup was reported.
<1>starts. ASSUME StartListing,
                  \/ backups' = backups /\ reported' = reported
                  \/ backups < MaxBackups /\ backups' = backups + 1 /\ reported' = backups + 1
           PROVE  BackupsOK'
  <2>1. backups' \in Nat /\ reported' \in Nat /\ reported' <= backups' /\ backups' <= MaxBackups
    BY <1>types, <1>starts
  <2>2. shown' = NoEntry /\ crossed' = (listing # <<>>) /\ listing' = Append(listing, Unserved)
    BY <1>starts DEF StartListing
  <2>3. Unserved \in Nat /\ Unserved \in AtLeast(reported')
    BY <2>1 DEF Unserved, AtLeast
  <2>4. listing' \in Seq(Nat)
    BY <2>2, <2>3, <1>types, AppendProperties
  <2>5. ~crossed' => listing' \in Seq(AtLeast(reported'))
    <3> SUFFICES ASSUME ~crossed' PROVE listing' \in Seq(AtLeast(reported'))  OBVIOUS
    <3>1. listing = <<>>
      BY <2>2
    <3>2. listing \in Seq(AtLeast(reported'))
      BY <3>1, EmptySeq
    <3> QED  BY <3>2, <2>2, <2>3, AppendProperties
  <2> QED  BY <2>1, <2>2, <2>4, <2>5 DEF BackupsOK
<1>1. CASE ListingServed
  <2>1. backups' = backups /\ shown' = shown /\ reported' = reported /\ crossed' = crossed
    BY <1>1 DEF ListingServed
  <2>2. PICK i \in DOMAIN listing : listing' = [listing EXCEPT ![i] = backups]
    BY <1>1 DEF ListingServed
  <2>3. backups \in AtLeast(reported)
    BY <1>types DEF AtLeast
  <2>4. listing' \in Seq(Nat)
    BY <2>2, <1>types, ExceptSeq
  <2>5. ~crossed => listing' \in Seq(AtLeast(reported))
    BY <2>2, <2>3, ExceptSeq DEF BackupsOK
  <2> QED  BY <2>1, <2>4, <2>5 DEF BackupsOK
<1>2. CASE ListingArrives
  <2>1. backups' = backups /\ reported' = reported /\ crossed' = crossed
    BY <1>2 DEF ListingArrives
  <2>2. PICK i \in DOMAIN listing : shown' = listing[i] /\ listing' = RemoveAt(listing, i)
    BY <1>2 DEF ListingArrives
  <2>3. ~crossed => shown' \in AtLeast(reported)
    <3> SUFFICES ASSUME ~crossed PROVE listing[i] \in AtLeast(reported)  BY <2>2
    <3>1. listing \in Seq(AtLeast(reported))
      BY DEF BackupsOK
    <3> QED  BY <3>1, ElementOfSeq, LenProperties
  <2>4. listing' \in Seq(Nat)
    BY <2>2, <1>types, Shortened
  <2>5. ~crossed => listing' \in Seq(AtLeast(reported))
    BY <2>2, Shortened DEF BackupsOK
  <2> QED  BY <2>1, <2>3, <2>4, <2>5 DEF BackupsOK
<1>3. CASE ListingFails
  <2>1. backups' = backups /\ reported' = reported /\ crossed' = crossed /\ shown' = shown
    BY <1>3 DEF ListingFails
  <2>2. PICK i \in DOMAIN listing : listing' = RemoveAt(listing, i)
    BY <1>3 DEF ListingFails
  <2>4. listing' \in Seq(Nat)
    BY <2>2, <1>types, Shortened
  <2>5. ~crossed => listing' \in Seq(AtLeast(reported))
    BY <2>2, Shortened DEF BackupsOK
  <2> QED  BY <2>1, <2>4, <2>5 DEF BackupsOK
<1>4. CASE OpenBackups
  BY <1>4, <1>starts DEF OpenBackups
<1>5. CASE BackupMade
  BY <1>5, <1>starts DEF BackupMade, ThenListed
<1>6. CASE Restored
  <2>1. backups < MaxBackups /\ backups' = backups + 1 /\ reported' = 0 /\ shown' = NoEntry /\ listing' = <<>>
    BY <1>6 DEF Restored
  <2>2. listing' \in Seq(Nat) /\ listing' \in Seq(AtLeast(reported'))
    BY <2>1, EmptySeq
  <2> QED  BY <2>1, <2>2, <1>types DEF BackupsOK
<1>7. CASE OpenImport \/ PreviewAnswered \/ PreviewFails \/ Choose \/ CloseDialog \/ Elsewhere
           \/ ApplyClicked \/ ApplyDone \/ ApplyFails
  <2>1. UNCHANGED archive
    BY <1>7 DEF OpenImport, PreviewAnswered, PreviewFails, Choose, CloseDialog, Elsewhere,
       ApplyClicked, ApplyDone, ApplyFails
  <2> QED  BY <2>1, <1>kept DEF archive
<1>8. CASE CreateClicked \/ RestoreClicked
  <2>1. UNCHANGED <<backups, reported, listing, shown, crossed>>
    BY <1>8 DEF CreateClicked, RestoreClicked
  <2> QED  BY <2>1, <1>kept
<1>9. CASE ApplyReads \/ RestoreFails \/ CreateFails
  <2>1. /\ UNCHANGED <<reported, listing, shown, crossed>>
        /\ backups' = backups \/ (backups < MaxBackups /\ backups' = backups + 1)
    BY <1>9 DEF ApplyReads, RestoreFails, CreateFails
  <2> QED  BY <2>1, <1>kept
<1>10. CASE UNCHANGED maintenanceVars
  BY <1>10, <1>kept DEF maintenanceVars, archive
<1> QED  BY <1>1, <1>2, <1>3, <1>4, <1>5, <1>6, <1>7, <1>8, <1>9, <1>10 DEF MaintenanceNext

LEMMA BackupsOKLists == BackupsOK => ReportedIsListed
BY DEF BackupsOK, ReportedIsListed, AtLeast

\* loadBackups(), createBackup(): unless two lists were on their way at once, a backup that was
\* reported as made is in the list the page shows, for any number of backups and requests.
THEOREM ReportsAreListed == MaintenanceSpec => []ReportedIsListed
<1> QED  BY BackupsOKLists, BackupsInit, BackupsStep, PTL DEF MaintenanceSpec

-----------------------------------------------------------------------------
(* The types.  What is imported is a credential because an entry that has  *)
(* a time profile blocks its number.                                       *)

HeldEntries == Details \cup {Timed, NoEntry}
Credentials == [Numbers -> Details \cup {NoEntry}]
Contents == [Controllers -> [Numbers -> HeldEntries]]

ContentsOK ==
    /\ held \in Contents /\ local \in Credentials
    /\ applying # NoEntry /\ applying.read # NoEntry => applying.read.held \in Contents

LEMMA ImportedAreCredentials ==
    ASSUME ImportOK, ContentsOK, applying # NoEntry, Commit
    PROVE  local' \in Credentials
<1> DEFINE p == applying.read.preview
           h == applying.read.held
<1>1. PreviewOf(p, h) /\ h \in Contents /\ local' = Merged
  BY DEF ImportOK, ReadOK, Commit, ContentsOK
<1>2. ASSUME NEW n \in Numbers PROVE Source(n) \in Details \cup {NoEntry}
  <2>1. Values(h, n) \subseteq Details \cup {Timed}
    BY <1>1 DEF Values, Holders, Contents, HeldEntries
  <2>2. CASE n \in Eligible(p)
    <3>1. n \in DOMAIN p /\ p[n].status = Status(h, n) /\ p[n].status # "blocked"
          /\ p[n].from = Holders(h, n) /\ Holders(h, n) # {}
      BY <2>2, <1>1 DEF Eligible, PreviewOf
    <3>2. Values(h, n) \subseteq Details
      BY <3>1, <2>1 DEF Status
    <3>3. Values(h, n) # {} /\ \A c \in Holders(h, n) : h[c][n] \in Values(h, n)
      BY <3>1 DEF Values
    <3>4. (CHOOSE v \in Values(h, n) : TRUE) \in Values(h, n)
      BY <3>3
    <3> QED  BY <3>1, <3>2, <3>3, <3>4 DEF Source
  <2>3. CASE n \notin Eligible(p)
    BY <2>3 DEF Source
  <2> QED  BY <2>2, <2>3
<1>3. \A n \in Numbers : local[n] \in Details \cup {NoEntry}
  BY DEF ContentsOK, Credentials
<1> QED  BY <1>1, <1>2, <1>3 DEF Merged, Credentials

LEMMA ContentsInit == MaintenanceInit => ContentsOK
  BY MaintenanceAssumption DEF MaintenanceInit, ContentsOK, Contents, HeldEntries, Credentials

LEMMA ContentsStep == ImportOK /\ ContentsOK /\ [MaintenanceNext]_maintenanceVars => ContentsOK'
<1> SUFFICES ASSUME ImportOK, ContentsOK, [MaintenanceNext]_maintenanceVars PROVE ContentsOK'  OBVIOUS
<1>types. held \in Contents /\ local \in Credentials
  BY DEF ContentsOK
<1>kept. ASSUME held' \in Contents, local' \in Credentials, applying' = applying \/ applying' = NoEntry
         PROVE  ContentsOK'
  BY <1>kept DEF ContentsOK
<1>1. CASE ApplyClicked
  <2>1. UNCHANGED world /\ applying' = [choices |-> Resolutions, read |-> NoEntry, asked |-> choice]
    BY <1>1 DEF ApplyClicked
  <2> QED  BY <2>1, <1>types DEF ContentsOK, world
<1>2. CASE ApplyReads
  <2>1. UNCHANGED world /\ applying # NoEntry /\ applying' = [applying EXCEPT !.read = [held |-> held, preview |-> Preview]]
    BY <1>2 DEF ApplyReads
  <2>2. PICK read : read = [held |-> held, preview |-> Preview]
    OBVIOUS
  <2>3. read.held \in Contents
    BY <2>2, <1>types
  <2>4. applying' = [choices |-> applying.choices, read |-> read, asked |-> applying.asked]
    BY <2>1, <2>2 DEF ImportOK
  <2> QED  BY <2>1, <2>3, <2>4, <1>types DEF ContentsOK, world
<1>3. CASE ApplyDone \/ ApplyFails
  <2>1. held' = held /\ applying' = NoEntry /\ applying # NoEntry /\ (Commit \/ local' = local)
    BY <1>3 DEF ApplyDone, ApplyFails, Commit
  <2>2. local' \in Credentials
    BY <2>1, <1>types, ImportedAreCredentials
  <2> QED  BY <2>1, <2>2, <1>types, <1>kept
<1>4. CASE Restored \/ RestoreFails
  <2>1. held' = held /\ (local' = local \/ local' \in Credentials) /\ (applying' = applying \/ applying' = NoEntry)
    BY <1>4 DEF Restored, RestoreFails, Credentials, import
  <2> QED  BY <2>1, <1>types, <1>kept
<1>5. CASE Elsewhere
  <2>1. applying' = applying
    BY <1>5 DEF Elsewhere, import
  <2>2. \/ \E c \in Controllers, n \in Numbers, v \in HeldEntries :
               held' = [held EXCEPT ![c][n] = v] /\ local' = local
        \/ \E n \in Numbers, v \in Details \cup {NoEntry} :
               local' = [local EXCEPT ![n] = v] /\ held' = held
    BY <1>5 DEF Elsewhere, HeldEntries
  <2>3. held' \in Contents /\ local' \in Credentials
    BY <2>2, <1>types DEF Contents, Credentials
  <2> QED  BY <2>1, <2>3, <1>kept
<1>6. CASE OpenImport \/ PreviewAnswered \/ PreviewFails \/ Choose \/ CloseDialog \/ OpenBackups
           \/ ListingServed \/ ListingArrives \/ ListingFails \/ CreateClicked \/ BackupMade \/ CreateFails
           \/ RestoreClicked
  <2>1. UNCHANGED <<world, applying>>
    BY <1>6 DEF OpenImport, PreviewAnswered, PreviewFails, Choose, CloseDialog, OpenBackups,
       ListingServed, ListingArrives, ListingFails, CreateClicked, BackupMade, CreateFails,
       RestoreClicked, import
  <2> QED  BY <2>1, <1>types, <1>kept DEF world
<1>7. CASE UNCHANGED maintenanceVars
  BY <1>7, <1>types, <1>kept DEF maintenanceVars, world, import
<1> QED  BY <1>1, <1>2, <1>3, <1>4, <1>5, <1>6, <1>7 DEF MaintenanceNext

\* The page, of a server that never has fewer backups than it told.
AnswersOf(n) == 0..n \cup {Unserved}

PageOK ==
    /\ shown \in 0..backups \cup {NoEntry} /\ spent \subseteq 1..MaxBackups
    /\ listing \in Seq(AnswersOf(backups))
    /\ DOMAIN choice \subseteq Numbers
    /\ panel \in {"none", "import", "backups"}
    /\ apply \in BOOLEAN /\ creating \in BOOLEAN /\ crossed \in BOOLEAN

LEMMA MoreAnswers ==
    ASSUME NEW n \in Nat, NEW s \in Seq(AnswersOf(n))
    PROVE  s \in Seq(AnswersOf(n + 1))
<1>1. AnswersOf(n) \subseteq AnswersOf(n + 1)
  BY DEF AnswersOf
<1> QED  BY <1>1, SeqMonotonic

LEMMA PageInit == MaintenanceInit => PageOK
<1> SUFFICES ASSUME MaintenanceInit PROVE PageOK  OBVIOUS
<1>1. shown = NoEntry /\ spent = {} /\ listing = <<>> /\ choice = <<>> /\ panel = "none"
      /\ apply = FALSE /\ creating = FALSE /\ crossed = FALSE
  BY DEF MaintenanceInit
<1>2. listing \in Seq(AnswersOf(backups))
  BY <1>1, EmptySeq
<1>3. DOMAIN choice \subseteq Numbers
  BY <1>1
<1> QED  BY <1>1, <1>2, <1>3 DEF PageOK

LEMMA PageStep == BackupsOK /\ PageOK /\ [MaintenanceNext]_maintenanceVars => PageOK'
<1> SUFFICES ASSUME BackupsOK, PageOK, [MaintenanceNext]_maintenanceVars PROVE PageOK'  OBVIOUS
<1> USE MaintenanceAssumption
<1>types. backups \in Nat /\ backups <= MaxBackups
  BY DEF BackupsOK
<1>listed. /\ shown \in 0..backups \cup {NoEntry} /\ spent \subseteq 1..MaxBackups
           /\ listing \in Seq(AnswersOf(backups)) /\ crossed \in BOOLEAN /\ creating \in BOOLEAN
  BY DEF PageOK
<1>chosen. DOMAIN choice \subseteq Numbers /\ apply \in BOOLEAN /\ panel \in {"none", "import", "backups"}
  BY DEF PageOK
<1>asked. ASSUME StartListing, backups' = backups \/ backups' = backups + 1
          PROVE  shown' = NoEntry /\ spent' = {} /\ listing' \in Seq(AnswersOf(backups')) /\ crossed' \in BOOLEAN
  <2>1. listing \in Seq(AnswersOf(backups'))
    BY <1>asked, <1>types, <1>listed, MoreAnswers
  <2>2. Unserved \in AnswersOf(backups')
    BY DEF AnswersOf
  <2> QED  BY <2>1, <2>2, <1>asked, AppendProperties DEF StartListing
\* The import is left alone.
<1>import. ASSUME UNCHANGED <<choice, apply>>, panel' \in {panel, "none", "backups"}, creating' \in BOOLEAN,
                  crossed' \in BOOLEAN, shown' \in 0..backups' \cup {NoEntry}, spent' \subseteq 1..MaxBackups,
                  listing' \in Seq(AnswersOf(backups'))
           PROVE  PageOK'
  BY <1>import, <1>chosen DEF PageOK
\* The backups are left alone, but for one that is made.
<1>archive. ASSUME UNCHANGED <<shown, listing, spent, creating, crossed>>, backups' = backups \/ backups' = backups + 1,
                   DOMAIN choice' \subseteq Numbers, apply' \in BOOLEAN, panel' \in {"none", "import", "backups"}
            PROVE  PageOK'
  <2>1. listing' \in Seq(AnswersOf(backups'))
    BY <1>archive, <1>types, <1>listed, MoreAnswers
  <2>2. shown' \in 0..backups' \cup {NoEntry}
    BY <1>archive, <1>types, <1>listed
  <2> QED  BY <2>1, <2>2, <1>listed, <1>archive DEF PageOK
<1>1. CASE OpenImport \/ PreviewFails
  <2>1. /\ UNCHANGED archive /\ choice' = <<>> /\ apply' \in {apply, FALSE} /\ panel' \in {panel, "import"}
    BY <1>1 DEF OpenImport, PreviewFails
  <2>2. DOMAIN choice' = {}
    BY <2>1
  <2> QED  BY <2>1, <2>2, <1>chosen, <1>archive DEF archive
<1>2. CASE PreviewAnswered
  <2>1. UNCHANGED <<archive, panel>> /\ choice' = Offered(Preview) /\ apply' = (Eligible(Preview) # {})
    BY <1>2 DEF PreviewAnswered
  <2>2. DOMAIN choice' \subseteq Numbers
    BY <2>1 DEF Offered, Eligible, Preview
  <2> QED  BY <2>1, <2>2, <1>chosen, <1>archive DEF archive
<1>3. CASE Choose
  <2>1. UNCHANGED <<archive, panel, apply>> /\ DOMAIN choice' = DOMAIN choice
    BY <1>3 DEF Choose
  <2> QED  BY <2>1, <1>chosen, <1>archive DEF archive
<1>4. CASE CloseDialog
  <2>1. UNCHANGED <<archive, import>> /\ panel' = "none"
    BY <1>4 DEF CloseDialog
  <2> QED  BY <2>1, <1>chosen, <1>archive DEF archive, import
<1>5. CASE ApplyClicked \/ ApplyDone \/ ApplyFails
  <2>1. UNCHANGED <<archive, choice>> /\ apply' \in {apply, TRUE, FALSE} /\ panel' \in {panel, "none"}
    BY <1>5 DEF ApplyClicked, ApplyDone, ApplyFails
  <2> QED  BY <2>1, <1>chosen, <1>archive DEF archive
<1>6. CASE ApplyReads
  <2>1. /\ UNCHANGED <<choice, apply, panel, shown, listing, spent, creating, crossed>>
        /\ backups' = backups + 1
    BY <1>6 DEF ApplyReads
  <2> QED  BY <2>1, <1>chosen, <1>archive
<1>7. CASE OpenBackups
  <2>1. StartListing /\ UNCHANGED <<choice, apply, backups, creating>> /\ panel' = "backups"
    BY <1>7 DEF OpenBackups, import
  <2> QED  BY <2>1, <1>asked, <1>listed, <1>import
<1>8. CASE BackupMade
  <2>1. StartListing /\ UNCHANGED <<choice, apply, panel>> /\ backups' = backups + 1 /\ creating' = FALSE
    BY <1>8 DEF BackupMade, ThenListed, import
  <2> QED  BY <2>1, <1>asked, <1>import
<1>9. CASE ListingServed
  <2>1. UNCHANGED <<choice, apply, panel, backups, shown, creating, spent, crossed>>
    BY <1>9 DEF ListingServed, import
  <2>2. PICK i \in DOMAIN listing : listing' = [listing EXCEPT ![i] = backups]
    BY <1>9 DEF ListingServed
  <2>3. listing' \in Seq(AnswersOf(backups))
    <3>1. backups \in AnswersOf(backups)
      BY <1>types DEF AnswersOf
    <3> QED  BY <3>1, <2>2, <1>listed, ExceptSeq
  <2> QED  BY <2>1, <2>3, <1>listed, <1>import
<1>10. CASE ListingArrives \/ ListingFails
  <2>1. /\ UNCHANGED <<choice, apply, panel, backups, creating, crossed>>
        /\ spent' \in {spent, {}}
    BY <1>10 DEF ListingArrives, ListingFails, import
  <2>2. PICK i \in DOMAIN listing : /\ listing' = RemoveAt(listing, i)
                                    /\ shown' = shown \/ (listing[i] # Unserved /\ shown' = listing[i])
    BY <1>10 DEF ListingArrives, ListingFails
  <2>3. listing' \in Seq(AnswersOf(backups))
    BY <2>2, <1>listed, Shortened
  <2>4. listing[i] \in AnswersOf(backups)
    BY <2>2, <1>listed, ElementOfSeq, LenProperties
  <2>5. shown' \in 0..backups \cup {NoEntry}
    BY <2>2, <2>4, <1>listed DEF AnswersOf
  <2>6. spent' \subseteq 1..MaxBackups
    BY <2>1, <1>listed
  <2> QED  BY <2>1, <2>3, <2>5, <2>6, <1>listed, <1>import
<1>11. CASE CreateClicked
  <2>1. UNCHANGED <<choice, apply, panel, backups, shown, listing, spent, crossed>> /\ creating' = TRUE
    BY <1>11 DEF CreateClicked, import
  <2> QED  BY <2>1, <1>listed, <1>import
<1>12. CASE CreateFails
  <2>1. /\ UNCHANGED <<choice, apply, panel, shown, listing, spent, crossed>> /\ creating' = FALSE
        /\ backups' = backups \/ backups' = backups + 1
    BY <1>12 DEF CreateFails, import
  <2>2. listing' \in Seq(AnswersOf(backups')) /\ shown' \in 0..backups' \cup {NoEntry}
    BY <2>1, <1>types, <1>listed, MoreAnswers
  <2> QED  BY <2>1, <2>2, <1>listed, <1>import
<1>13. CASE RestoreClicked
  <2>1. UNCHANGED <<choice, apply, panel, backups, shown, listing, creating, crossed>>
    BY <1>13 DEF RestoreClicked, import
  <2>2. PICK b \in 1..shown : shown # NoEntry /\ spent' = spent \cup {b}
    BY <1>13 DEF RestoreClicked
  <2>3. spent' \subseteq 1..MaxBackups
    BY <2>2, <1>types, <1>listed
  <2> QED  BY <2>1, <2>3, <1>listed, <1>import
<1>14. CASE RestoreFails
  <2>1. /\ UNCHANGED <<choice, apply, panel, shown, listing, creating, spent, crossed>>
        /\ backups' = backups \/ backups' = backups + 1
    BY <1>14 DEF RestoreFails, import
  <2> QED  BY <2>1, <1>chosen, <1>archive
<1>15. CASE Restored
  <2>1. /\ choice' = <<>> /\ apply' = FALSE /\ panel' = "none" /\ shown' = NoEntry /\ listing' = <<>>
        /\ creating' = FALSE /\ spent' = {} /\ crossed' = FALSE
    BY <1>15 DEF Restored
  <2>2. DOMAIN choice' = {} /\ listing' \in Seq(AnswersOf(backups'))
    BY <2>1, EmptySeq
  <2> QED  BY <2>1, <2>2 DEF PageOK
<1>16. CASE Elsewhere
  <2>1. UNCHANGED <<archive, import, panel>>
    BY <1>16 DEF Elsewhere
  <2> QED  BY <2>1, <1>chosen, <1>archive DEF archive, import
<1>17. CASE UNCHANGED maintenanceVars
  BY <1>17, <1>chosen, <1>archive DEF maintenanceVars, archive, import
<1> QED  BY <1>1, <1>2, <1>3, <1>4, <1>5, <1>6, <1>7, <1>8, <1>9, <1>10, <1>11, <1>12, <1>13, <1>14,
            <1>15, <1>16, <1>17 DEF MaintenanceNext

LEMMA MaintenanceInvTypes == ASSUME ImportOK, BackupsOK, ContentsOK, PageOK PROVE MaintenanceTypeOK
<1>1. backups \in 0..MaxBackups /\ reported \in 0..backups
  BY MaintenanceAssumption DEF BackupsOK
<1>2. held \in [Controllers -> [Numbers -> Details \cup {Timed, NoEntry}]] /\ local \in [Numbers -> Details \cup {NoEntry}]
  BY DEF ContentsOK, Contents, HeldEntries, Credentials
<1>3. shown \in 0..backups \cup {NoEntry} /\ spent \subseteq 1..MaxBackups /\ DOMAIN choice \subseteq Numbers
      /\ panel \in {"none", "import", "backups"}
  BY DEF PageOK
<1>4. {apply, creating, crossed} \subseteq BOOLEAN
  BY DEF PageOK
<1> QED  BY <1>1, <1>2, <1>3, <1>4 DEF MaintenanceTypeOK

\* The contents of the controllers, the credentials, the backups and the page keep to their types:
\* whatever is imported, and whenever, an entry that has no place among the credentials never
\* becomes one.
THEOREM MaintenanceIsTyped == MaintenanceSpec => []MaintenanceTypeOK
<1> DEFINE Inv == ImportOK /\ BackupsOK /\ ContentsOK /\ PageOK
<1>1. MaintenanceInit => Inv
  BY ImportInit, BackupsInit, ContentsInit, PageInit
<1>2. Inv /\ [MaintenanceNext]_maintenanceVars => Inv'
  BY ImportStep, BackupsStep, ContentsStep, PageStep
<1>3. Inv => MaintenanceTypeOK
  BY MaintenanceInvTypes
<1> HIDE DEF Inv
<1> QED  BY <1>1, <1>2, <1>3, PTL DEF MaintenanceSpec

-----------------------------------------------------------------------------
(* SignIn.  The invariant: what an answer on its way says of a session is of these  *)
(* five minutes, so that the session of the browser is at most as old as   *)
(* the last answer, and its key was not replaced since.                    *)

Kinds == {"setup", "preauth", "auth", "poll", "logout"}
CallStages == {"sent", "found", "served"}
Steps == {"setup", "login", "page"}

Cookies == [login : LoginIds \cup {Absent}, session : Token \cup {Absent}]

Calls == [tab : Tabs, kind : Kinds, at : CallStages, cookies : Cookies, ok : BOOLEAN,
          sets : Token \cup {Nothing, Clear}]

SignInTyped ==
    /\ admin \in BOOLEAN /\ exists \in BOOLEAN
    /\ touched \in [SessionIds -> 0..2 * IdleTime + 1 \cup {Absent}]
    /\ ended \subseteq SessionIds /\ logins \subseteq LoginIds
    /\ rotation \in 0..Regenerate /\ heard \in 0..IdleTime + 1
    /\ cookies \in Cookies /\ tabs \in [Tabs -> Steps] /\ calls \subseteq Calls

\* A session that was just touched, if it is not ended, under the key that signs or the one
\* that has just ceased to.
Recent(k) ==
    /\ touched[k.id] = 0 \/ k.id \in ended
    /\ k.key = 1 \/ (k.key = 2 /\ rotation = Regenerate)

CallOK(c) ==
    /\ c.at = "found" => c.kind = "poll" /\ c.cookies.session \in Token
    /\ c.sets \in Token => c.at = "served" /\ c.kind \in {"auth", "poll"} /\ c.ok /\ Recent(c.sets)
    /\ c.kind = "poll" /\ c.at = "served" /\ c.ok =>
        c.cookies.session \in Token /\ c.sets # Clear /\ (c.sets = Nothing => Recent(c.cookies.session))
    /\ c.kind = "auth" /\ c.at = "served" /\ c.ok => c.sets # Nothing
    /\ cookies.session \in {Absent, c.cookies.session} \/ Recent(cookies.session)

CallsOK == \A c \in calls : CallOK(c)

Heard ==
    LET k == cookies.session IN
    k # Absent /\ heard <= IdleTime /\ k.id \notin ended =>
        /\ touched[k.id] \in 0..heard
        /\ k.key <= 2 /\ (k.key = 2 => rotation + heard > IdleTime)

SignInInv == SignInTyped /\ CallsOK /\ Heard

-----------------------------------------------------------------------------
LEMMA TokenFields ==
    ASSUME NEW k \in Token
    PROVE  k.id \in SessionIds /\ k.key \in 1..3 /\ k.left \in 0..Expiry /\ k # Absent /\ k \notin {Nothing, Clear}
  BY SignInAssumption DEF Token

LEMMA CallFields ==
    ASSUME NEW c \in Calls
    PROVE  /\ c.tab \in Tabs /\ c.kind \in Kinds /\ c.at \in CallStages /\ c.cookies \in Cookies /\ c.ok \in BOOLEAN
           /\ c.sets \in Token \cup {Nothing, Clear}
           /\ c.cookies.session \in Token \cup {Absent} /\ c.cookies.login \in LoginIds \cup {Absent}
  BY DEF Calls, Cookies

LEMMA CallNamed ==
    /\ \A kind \in {"setup", "preauth", "auth", "poll", "logout"} : kind \in Kinds
    /\ \A stage \in {"sent", "found", "served"} : stage \in CallStages
    /\ \A step \in {"setup", "login", "page"} : step \in Steps
  BY DEF Kinds, CallStages, Steps

\* The sessions that the browser or a request knows.
Known == {s \in SessionIds : \/ cookies.session # Absent /\ cookies.session.id = s
                             \/ \E c \in calls : \/ c.cookies.session # Absent /\ c.cookies.session.id = s
                                                 \/ c.sets \in Token /\ c.sets.id = s}

\* What was just touched, or ended, stays so; a session that is not ended was not, and is no
\* older than the last answer if it was not.
Milder ==
    \A s \in Known :
        /\ touched[s] = 0 \/ s \in ended => touched'[s] = 0 \/ s \in ended'
        /\ s \notin ended' => s \notin ended /\ (touched[s] \in 0..heard => touched'[s] \in 0..heard)

LEMMA MilderKeeps ==
    ASSUME SignInInv, Milder, cookies'.session = cookies.session, UNCHANGED clocks,
           \A d \in calls' : d \in calls \/ CallOK(d)'
    PROVE  CallsOK' /\ Heard'
  <1> USE DEF clocks
  <1>1. \A k \in Token : k.id \in Known /\ Recent(k) => Recent(k)'
    BY DEF Milder, Recent
  <1>2. ASSUME NEW c \in calls, c \in calls' PROVE CallOK(c)'
    <2>1. c \in Calls /\ CallOK(c)
      BY DEF SignInInv, SignInTyped, CallsOK
    <2>2. /\ c.cookies.session \in Token => c.cookies.session.id \in Known
          /\ c.sets \in Token => c.sets.id \in Known
          /\ cookies.session \in Token => cookies.session.id \in Known
          /\ cookies.session \in Token \cup {Absent}
      BY <1>2, <2>1, TokenFields DEF Known, SignInInv, SignInTyped, Cookies
    <2> QED BY <1>1, <2>1, <2>2 DEF CallOK
  <1>3. Heard'
    <2>1. cookies.session \in Token \cup {Absent}
      BY DEF SignInInv, SignInTyped, Cookies
    <2>2. cookies.session \in Token => cookies.session.id \in Known
      BY TokenFields DEF Known
    <2> QED BY <2>1, <2>2 DEF Heard, SignInInv, Milder
  <1> QED BY <1>2, <1>3 DEF CallsOK

-----------------------------------------------------------------------------
LEMMA StartsWell == ASSUME SignInInit PROVE SignInInv
  <1> USE SignInAssumption DEF SignInInit
  <1>1. cookies \in Cookies /\ cookies.session = Absent
    BY DEF NoCookies, Cookies
  <1>2. tabs \in [Tabs -> Steps]
    BY CallNamed
  <1> QED BY <1>1, <1>2 DEF SignInInv, SignInTyped, CallsOK, Heard

\* A request is sent with the cookies of now.
LEMMA SendKeeps ==
    ASSUME SignInInv, NEW t \in Tabs, NEW kind \in Kinds, Send(t, kind)
    PROVE  SignInInv'
  <1> USE DEF clocks
  <1>0. PICK d : d = Request(t, kind)
    OBVIOUS
  <1>1. d \in Calls
    BY <1>0, CallNamed DEF Request, Calls, SignInInv, SignInTyped
  <1>2. d.at = "sent" /\ d.sets = Nothing /\ d.cookies = cookies /\ d.ok = FALSE
    BY <1>0 DEF Request
  <1>3. calls' = calls \cup {d} /\ UNCHANGED <<admin, exists, touched, ended, logins, clocks, cookies, tabs>>
    BY <1>0 DEF Send
  <1>4. CallOK(d)'
    BY <1>2, <1>3, SignInAssumption DEF CallOK
  <1>5. Milder
    BY <1>3 DEF Milder
  <1>6. SignInTyped'
    BY <1>1, <1>3 DEF SignInInv, SignInTyped
  <1> QED BY <1>3, <1>4, <1>5, <1>6, MilderKeeps DEF SignInInv

LEMMA ReloadKeeps == ASSUME SignInInv, NEW t \in Tabs, Reload(t) PROVE SignInInv'
  <1> USE DEF clocks, Reload
  <1>1. tabs' \in [Tabs -> Steps]
    BY CallNamed DEF SignInInv, SignInTyped
  <1>2. SignInTyped' /\ Milder
    BY <1>1 DEF SignInInv, SignInTyped, Milder
  <1> QED BY <1>2, MilderKeeps DEF SignInInv

-----------------------------------------------------------------------------
(* The server. *)

LEMMA ServeSetupKeeps == ASSUME SignInInv, NEW c \in calls, ServeSetup(c) PROVE SignInInv'
  <1> USE DEF clocks
  <1>1. c \in Calls /\ CallOK(c)
    BY DEF SignInInv, SignInTyped, CallsOK
  <1>2. /\ c.kind = "setup" /\ Served(c, TRUE, Nothing)
        /\ UNCHANGED <<touched, ended, logins, clocks, cookies, tabs>> /\ admin' = TRUE /\ exists' \in BOOLEAN
    BY DEF ServeSetup, SignInInv, SignInTyped
  <1>3. PICK d \in Calls : /\ calls' = (calls \ {c}) \cup {d}
                          /\ d.at = "served" /\ d.kind = "setup" /\ d.sets = Nothing /\ d.cookies = c.cookies
    <2>1. PICK d : d = [c EXCEPT !.at = "served", !.ok = TRUE, !.sets = Nothing]
      OBVIOUS
    <2>2. d \in Calls /\ d.at = "served" /\ d.kind = "setup" /\ d.sets = Nothing /\ d.cookies = c.cookies
      BY <1>1, <1>2, <2>1, CallNamed DEF Calls
    <2> QED BY <1>2, <2>1, <2>2 DEF Served, Becomes
  <1>4. CallOK(d)'
    BY <1>1, <1>2, <1>3, SignInAssumption DEF CallOK, Recent
  <1>5. SignInTyped' /\ Milder
    BY <1>2, <1>3 DEF SignInInv, SignInTyped, Milder
  <1> QED BY <1>2, <1>3, <1>4, <1>5, MilderKeeps DEF SignInInv

LEMMA ServePreauthKeeps == ASSUME SignInInv, NEW c \in calls, ServePreauth(c) PROVE SignInInv'
  <1> USE DEF clocks
  <1>1. c \in Calls /\ CallOK(c)
    BY DEF SignInInv, SignInTyped, CallsOK
  <1>2. PICK l \in LoginIds : /\ logins' = logins \cup {l}
                              /\ Becomes(c, [c EXCEPT !.at = "served", !.ok = TRUE, !.cookies.login = l])
    BY DEF ServePreauth
  <1>3. PICK d : d = [c EXCEPT !.at = "served", !.ok = TRUE, !.cookies.login = l]
    OBVIOUS
  <1>4. /\ c.kind = "preauth" /\ c.at = "sent" /\ calls' = (calls \ {c}) \cup {d}
        /\ UNCHANGED <<admin, exists, touched, ended, clocks, cookies, tabs>>
    BY <1>2, <1>3 DEF ServePreauth, Becomes
  <1>5. d \in Calls /\ d.at = "served" /\ d.kind = "preauth" /\ d.sets = c.sets /\ d.cookies.session = c.cookies.session
    BY <1>1, <1>3, <1>4, CallNamed DEF Calls, Cookies
  <1>6. CallOK(d)'
    BY <1>1, <1>4, <1>5, SignInAssumption DEF CallOK, Recent
  <1>7. SignInTyped' /\ Milder
    BY <1>2, <1>4, <1>5 DEF SignInInv, SignInTyped, Milder
  <1> QED BY <1>4, <1>6, <1>7, MilderKeeps DEF SignInInv

LEMMA ServeAuthKeeps == ASSUME SignInInv, NEW c \in calls, ServeAuth(c) PROVE SignInInv'
  <1> USE DEF clocks
  <1>1. c \in Calls /\ CallOK(c) /\ c.cookies.session \in Token \cup {Absent}
    BY CallFields DEF SignInInv, SignInTyped, CallsOK
  <1>2. /\ c.kind = "auth" /\ c.at = "sent" /\ logins' = logins \ {c.cookies.login}
        /\ UNCHANGED <<admin, exists, clocks, cookies, tabs>>
    BY DEF ServeAuth
  <1>3. CASE /\ UNCHANGED <<touched, ended>>
             /\ Served(c, TRUE, Clear) \/ Served(c, FALSE, Nothing)
    <2>1. PICK d \in Calls : /\ calls' = (calls \ {c}) \cup {d}
                             /\ d.at = "served" /\ d.kind = "auth" /\ d.cookies = c.cookies
                             /\ \/ d.ok /\ d.sets = Clear
                                \/ ~d.ok /\ d.sets = Nothing
      <3>1. CASE Served(c, TRUE, Clear)
        <4>1. PICK d : d = [c EXCEPT !.at = "served", !.ok = TRUE, !.sets = Clear]
          OBVIOUS
        <4>2. /\ d \in Calls /\ d.at = "served" /\ d.kind = "auth" /\ d.cookies = c.cookies
              /\ d.ok /\ d.sets = Clear
          BY <1>1, <1>2, <4>1, CallNamed DEF Calls
        <4> QED BY <3>1, <4>1, <4>2 DEF Served, Becomes
      <3>2. CASE Served(c, FALSE, Nothing)
        <4>1. PICK d : d = [c EXCEPT !.at = "served", !.ok = FALSE, !.sets = Nothing]
          OBVIOUS
        <4>2. /\ d \in Calls /\ d.at = "served" /\ d.kind = "auth" /\ d.cookies = c.cookies
              /\ ~d.ok /\ d.sets = Nothing
          BY <1>1, <1>2, <4>1, CallNamed DEF Calls
        <4> QED BY <3>2, <4>1, <4>2 DEF Served, Becomes
      <3> QED BY <1>3, <3>1, <3>2
    <2>2. CallOK(d)'
      BY <1>1, <1>2, <1>3, <2>1, SignInAssumption DEF CallOK, Recent
    <2>3. SignInTyped' /\ Milder
      BY <1>2, <1>3, <2>1 DEF SignInInv, SignInTyped, Milder
    <2> QED BY <1>2, <2>1, <2>2, <2>3, MilderKeeps DEF SignInInv
  <1>4. ASSUME NEW s \in Unused, touched' = [touched EXCEPT ![s] = 0], ended' = ended \ {s},
               Served(c, TRUE, [id |-> s, key |-> 1, left |-> Expiry])
        PROVE  SignInInv'
    <2>1. PICK k : k = [id |-> s, key |-> 1, left |-> Expiry]
      OBVIOUS
    <2>2. s \in SessionIds /\ k \in Token /\ k.id = s /\ k.key = 1
      BY <2>1, SignInAssumption DEF Unused, Token
    <2>3. PICK d \in Calls : /\ calls' = (calls \ {c}) \cup {d}
                             /\ d.at = "served" /\ d.kind = "auth" /\ d.cookies = c.cookies
                             /\ d.ok /\ d.sets = k
      <3>1. PICK d : d = [c EXCEPT !.at = "served", !.ok = TRUE, !.sets = k]
        OBVIOUS
      <3>2. /\ d \in Calls /\ d.at = "served" /\ d.kind = "auth" /\ d.cookies = c.cookies
            /\ d.ok /\ d.sets = k
        BY <1>1, <1>2, <2>2, <3>1, CallNamed DEF Calls
      <3> QED BY <1>4, <2>1, <3>1, <3>2 DEF Served, Becomes
    <2>4. s \notin Known
      <3>1. /\ cookies.session \in Token \cup {Absent} 
            /\ \A b \in calls : b.cookies.session \in Token \cup {Absent}
        BY CallFields DEF SignInInv, SignInTyped, Cookies
      <3>2. \A b \in calls : b.sets \in Token => b.sets \notin {Nothing, Clear}
        BY TokenFields
      <3> QED BY <1>4, <3>1, <3>2 DEF Unused, Known
    <2>5. touched'[s] = 0 /\ touched' \in [SessionIds -> 0..2 * IdleTime + 1 \cup {Absent}]
      BY <1>4, <2>2, SignInAssumption DEF SignInInv, SignInTyped
    <2>6. Milder
      BY <1>2, <1>4, <2>4 DEF Milder, Known, SignInInv, SignInTyped
    <2>7. cookies.session \in Token => cookies.session.id \in Known
      BY TokenFields DEF Known
    <2>8. CallOK(d)'
      <3>1. cookies.session \in Token \cup {Absent}
        BY DEF SignInInv, SignInTyped, Cookies
      <3>2. Recent(k)' /\ k # Clear /\ k # Nothing
        BY <2>2, <2>5, TokenFields DEF Recent
      <3>3. cookies.session \in {Absent, c.cookies.session} \/ Recent(cookies.session)
        BY <1>1 DEF CallOK
      <3>4. Recent(cookies.session) /\ cookies.session \in Token => Recent(cookies.session)'
        BY <1>2, <2>6, <2>7 DEF Recent, Milder
      <3> QED BY <1>2, <2>3, <3>1, <3>2, <3>3, <3>4 DEF CallOK
    <2>9. SignInTyped'
      BY <1>2, <1>4, <2>3, <2>5 DEF SignInInv, SignInTyped
    <2> QED BY <1>2, <2>3, <2>6, <2>8, <2>9, MilderKeeps DEF SignInInv
  <1> QED BY <1>3, <1>4 DEF ServeAuth

\* What was ended is touched no more, whoever looks it up.
LEMMA EndingIsMilder ==
    ASSUME SignInInv, NEW s \in SessionIds,
           touched' = [touched EXCEPT ![s] = Absent], ended' = ended \cup {s}
    PROVE  Milder /\ touched' \in [SessionIds -> 0..2 * IdleTime + 1 \cup {Absent}] /\ ended' \subseteq SessionIds
  BY DEF Milder, Known, SignInInv, SignInTyped

LEMMA FindKeeps == ASSUME SignInInv, NEW c \in calls, Find(c) PROVE SignInInv'
  <1> USE DEF clocks
  <1>1. c \in Calls /\ CallOK(c) /\ c.cookies.session \in Token \cup {Absent}
    BY CallFields DEF SignInInv, SignInTyped, CallsOK
  <1>2. /\ c.kind = "poll" /\ c.at = "sent"
        /\ UNCHANGED <<admin, exists, logins, clocks, cookies, tabs>>
    BY DEF Find
  <1>3. CASE /\ UNCHANGED <<touched, ended>> /\ c.cookies.session # Absent
             /\ Becomes(c, [c EXCEPT !.at = "found"])
    <2>1. PICK d : d = [c EXCEPT !.at = "found"]
      OBVIOUS
    <2>2. d \in Calls /\ d.at = "found" /\ d.kind = "poll" /\ d.cookies = c.cookies /\ d.sets = c.sets
      BY <1>1, <1>2, <2>1, CallNamed DEF Calls
    <2>3. calls' = (calls \ {c}) \cup {d}
      BY <1>3, <2>1 DEF Becomes
    <2>4. CallOK(d)'
      BY <1>1, <1>2, <1>3, <2>2, SignInAssumption DEF CallOK, Recent
    <2>5. SignInTyped' /\ Milder
      BY <1>2, <1>3, <2>2, <2>3 DEF SignInInv, SignInTyped, Milder
    <2> QED BY <1>2, <2>3, <2>4, <2>5, MilderKeeps DEF SignInInv
  <1>4. CASE /\ Served(c, FALSE, Clear)
             /\ \/ UNCHANGED <<touched, ended>>
                \/ /\ c.cookies.session # Absent
                   /\ touched' = [touched EXCEPT ![c.cookies.session.id] = Absent]
                   /\ ended' = ended \cup {c.cookies.session.id}
    <2>1. PICK d \in Calls : /\ calls' = (calls \ {c}) \cup {d}
                             /\ d.at = "served" /\ d.kind = "poll" /\ d.cookies = c.cookies
                             /\ d.ok = FALSE /\ d.sets = Clear
      <3>1. PICK d : d = [c EXCEPT !.at = "served", !.ok = FALSE, !.sets = Clear]
        OBVIOUS
      <3>2. /\ d \in Calls /\ d.at = "served" /\ d.kind = "poll" /\ d.cookies = c.cookies
            /\ d.ok = FALSE /\ d.sets = Clear
        BY <1>1, <1>2, <3>1, CallNamed DEF Calls
      <3> QED BY <1>4, <3>1, <3>2 DEF Served, Becomes
    <2>2. Milder /\ touched' \in [SessionIds -> 0..2 * IdleTime + 1 \cup {Absent}] /\ ended' \subseteq SessionIds
      <3>1. CASE UNCHANGED <<touched, ended>>
        BY <3>1 DEF Milder, SignInInv, SignInTyped
      <3>2. CASE c.cookies.session # Absent
        BY <1>1, <1>4, <3>1, <3>2, TokenFields, EndingIsMilder
      <3> QED BY <1>4, <3>1, <3>2
    <2>3. CallOK(d)'
      <3>1. cookies.session \in {Absent, c.cookies.session} \/ Recent(cookies.session)
        BY <1>1 DEF CallOK
      <3>2. cookies.session \in Token \cup {Absent} /\ (cookies.session \in Token => cookies.session.id \in Known)
        BY TokenFields DEF Known, SignInInv, SignInTyped, Cookies
      <3>3. Recent(cookies.session) /\ cookies.session \in Token => Recent(cookies.session)'
        BY <1>2, <2>2, <3>2 DEF Recent, Milder
      <3> QED BY <1>2, <2>1, <3>1, <3>2, <3>3, TokenFields DEF CallOK
    <2>4. SignInTyped'
      BY <1>2, <2>1, <2>2 DEF SignInInv, SignInTyped
    <2> QED BY <1>2, <2>1, <2>2, <2>3, <2>4, MilderKeeps DEF SignInInv
  <1> QED BY <1>3, <1>4 DEF Find

LEMMA TouchKeeps == ASSUME SignInInv, NEW c \in calls, Touch(c) PROVE SignInInv'
  <1> USE DEF clocks
  <1>1. c \in Calls /\ CallOK(c) /\ c.cookies.session \in Token \cup {Absent}
    BY CallFields DEF SignInInv, SignInTyped, CallsOK
  <1>2. /\ c.kind = "poll" /\ c.at = "found"
        /\ touched' = [touched EXCEPT ![c.cookies.session.id] = 0]
        /\ UNCHANGED <<admin, exists, ended, logins, clocks, cookies, tabs>>
    BY DEF Touch
  <1>3. PICK k : k = c.cookies.session
    OBVIOUS
  <1>4. k \in Token /\ k.id \in SessionIds /\ k.key \in 1..3 /\ k \notin {Nothing, Clear}
    BY <1>1, <1>2, <1>3, TokenFields DEF CallOK
  <1>5. touched'[k.id] = 0 /\ touched' \in [SessionIds -> 0..2 * IdleTime + 1 \cup {Absent}]
    BY <1>2, <1>3, <1>4, SignInAssumption DEF SignInInv, SignInTyped
  <1>6. Milder
    BY <1>2, <1>3, <1>4, <1>5 DEF Milder, Known, SignInInv, SignInTyped
  <1>7. PICK r : r = Resigned(k)
    OBVIOUS
  <1>8. /\ \/ r = Nothing /\ k.key = 1
           \/ r \in Token /\ r.id = k.id /\ r.key = 1
        /\ r \in Token \cup {Nothing, Clear} /\ r # Clear
    <2>1. CASE k.key = 1
      BY <1>7, <2>1, SignInAssumption DEF Resigned
    <2>2. CASE k.key # 1
      <3>1. r = [k EXCEPT !.key = 1]
        BY <1>7, <2>2 DEF Resigned
      <3>2. r \in Token /\ r.id = k.id /\ r.key = 1
        BY <1>4, <3>1 DEF Token
      <3> QED BY <3>2, TokenFields
    <2> QED BY <2>1, <2>2
  <1>9. PICK d \in Calls : /\ calls' = (calls \ {c}) \cup {d}
                           /\ d.at = "served" /\ d.kind = "poll" /\ d.cookies = c.cookies
                           /\ d.ok = TRUE /\ d.sets = r
    <2>1. PICK d : d = [c EXCEPT !.at = "served", !.ok = TRUE, !.sets = r]
      OBVIOUS
    <2>2. /\ d \in Calls /\ d.at = "served" /\ d.kind = "poll" /\ d.cookies = c.cookies
          /\ d.ok = TRUE /\ d.sets = r
      BY <1>1, <1>2, <1>8, <2>1, CallNamed DEF Calls
    <2> QED BY <1>3, <1>7, <2>1, <2>2 DEF Touch, Served, Becomes
  <1>10. CallOK(d)'
    <2>1. cookies.session \in {Absent, c.cookies.session} \/ Recent(cookies.session)
      BY <1>1 DEF CallOK
    <2>2. cookies.session \in Token \cup {Absent} /\ (cookies.session \in Token => cookies.session.id \in Known)
      BY TokenFields DEF Known, SignInInv, SignInTyped, Cookies
    <2>3. Recent(cookies.session) /\ cookies.session \in Token => Recent(cookies.session)'
      BY <1>2, <1>6, <2>2 DEF Recent, Milder
    <2>4. r \in Token => Recent(r)'
      BY <1>5, <1>8, TokenFields DEF Recent
    <2>5. r = Nothing => Recent(k)'
      BY <1>5, <1>8, TokenFields DEF Recent
    <2> QED BY <1>2, <1>3, <1>4, <1>8, <1>9, <2>1, <2>2, <2>3, <2>4, <2>5 DEF CallOK
  <1>11. SignInTyped'
    BY <1>2, <1>5, <1>9 DEF SignInInv, SignInTyped
  <1> QED BY <1>2, <1>6, <1>9, <1>10, <1>11, MilderKeeps DEF SignInInv

LEMMA ServeLogoutKeeps == ASSUME SignInInv, NEW c \in calls, ServeLogout(c) PROVE SignInInv'
  <1> USE DEF clocks
  <1>1. c \in Calls /\ CallOK(c) /\ c.cookies.session \in Token \cup {Absent}
    BY CallFields DEF SignInInv, SignInTyped, CallsOK
  <1>2. /\ c.kind = "logout"
        /\ \/ UNCHANGED <<touched, ended>>
           \/ /\ c.cookies.session # Absent
              /\ touched' = [touched EXCEPT ![c.cookies.session.id] = Absent]
              /\ ended' = ended \cup {c.cookies.session.id}
        /\ UNCHANGED <<admin, exists, logins, clocks, cookies, tabs>>
    BY DEF ServeLogout
  <1>3. PICK d \in Calls : /\ calls' = (calls \ {c}) \cup {d}
                           /\ d.at = "served" /\ d.kind = "logout" /\ d.cookies = c.cookies /\ d.sets = Clear
    <2>1. PICK d : d = [c EXCEPT !.at = "served", !.ok = TRUE, !.sets = Clear]
      OBVIOUS
    <2>2. d \in Calls /\ d.at = "served" /\ d.kind = "logout" /\ d.cookies = c.cookies /\ d.sets = Clear
      BY <1>1, <1>2, <2>1, CallNamed DEF Calls
    <2> QED BY <2>1, <2>2 DEF ServeLogout, Served, Becomes
  <1>4. Milder /\ touched' \in [SessionIds -> 0..2 * IdleTime + 1 \cup {Absent}] /\ ended' \subseteq SessionIds
    <2>1. CASE UNCHANGED <<touched, ended>>
      BY <2>1 DEF Milder, SignInInv, SignInTyped
    <2>2. CASE c.cookies.session # Absent
      BY <1>1, <1>2, <2>1, <2>2, TokenFields, EndingIsMilder
    <2> QED BY <1>2, <2>1, <2>2
  <1>5. CallOK(d)'
    <2>1. cookies.session \in {Absent, c.cookies.session} \/ Recent(cookies.session)
      BY <1>1 DEF CallOK
    <2>2. cookies.session \in Token \cup {Absent} /\ (cookies.session \in Token => cookies.session.id \in Known)
      BY TokenFields DEF Known, SignInInv, SignInTyped, Cookies
    <2>3. Recent(cookies.session) /\ cookies.session \in Token => Recent(cookies.session)'
      BY <1>2, <1>4, <2>2 DEF Recent, Milder
    <2> QED BY <1>2, <1>3, <2>1, <2>2, <2>3, TokenFields DEF CallOK
  <1>6. SignInTyped'
    BY <1>2, <1>3, <1>4 DEF SignInInv, SignInTyped
  <1> QED BY <1>2, <1>3, <1>4, <1>5, <1>6, MilderKeeps DEF SignInInv

\* A sweep takes what is older than the last answer to the browser may be.
LEMMA SweepKeeps == ASSUME SignInInv, Sweep PROVE SignInInv'
  <1> USE SignInAssumption DEF clocks, Sweep, SweptAfter
  <1>1. ASSUME NEW s \in SessionIds
        PROVE  /\ touched'[s] \in 0..2 * IdleTime + 1 \cup {Absent}
               /\ touched[s] = 0 => touched'[s] = 0
               /\ touched[s] \in 0..IdleTime => touched'[s] = touched[s]
    BY DEF SignInInv, SignInTyped
  <1>2. SignInTyped'
    BY <1>1 DEF SignInInv, SignInTyped
  <1>3. \A d \in calls' : d \in calls
    OBVIOUS
  <1>4. CallsOK'
    BY <1>1 DEF CallsOK, CallOK, Recent, SignInInv, SignInTyped, Calls, Cookies, Token
  <1>5. Heard'
    BY <1>1 DEF Heard, SignInInv, SignInTyped, Cookies, Token
  <1> QED BY <1>2, <1>4, <1>5 DEF SignInInv

LEMMA DeleteAccountKeeps == ASSUME SignInInv, DeleteAccount PROVE SignInInv'
  BY DEF DeleteAccount, clocks, SignInInv, SignInTyped, CallsOK, CallOK, Recent, Heard

LEMMA LoseKeeps == ASSUME SignInInv, NEW c \in calls, Lose(c) PROVE SignInInv'
  BY DEF Lose, clocks, SignInInv, SignInTyped, CallsOK, CallOK, Recent, Heard

-----------------------------------------------------------------------------
(* The keys, the time and the answers. *)

LEMMA RekeyedToken ==
    ASSUME NEW k \in Token \cup {Absent}
    PROVE  /\ Rekeyed(k) \in Token \cup {Absent} /\ (Rekeyed(k) = Absent <=> k = Absent)
           /\ k # Absent => Rekeyed(k) \in Token /\ Rekeyed(k).id = k.id /\ Rekeyed(k).left = k.left
           /\ k # Absent /\ k.key = 1 => Rekeyed(k).key = 2
  <1>1. CASE k = Absent
    BY <1>1, SignInAssumption DEF Rekeyed
  <1>2. CASE k # Absent /\ k.key = 3
    BY <1>2, SignInAssumption DEF Rekeyed
  <1>3. CASE k # Absent /\ k.key # 3
    <2>1. PICK r : r = [k EXCEPT !.key = @ + 1]
      OBVIOUS
    <2>2. k \in Token /\ k.key \in {1, 2} /\ k.key + 1 \in 1..3
      BY <1>3, TokenFields
    <2>3. r \in Token /\ r.id = k.id /\ r.left = k.left /\ r.key = k.key + 1
      BY <2>1, <2>2 DEF Token
    <2>4. r # Absent
      BY <2>3, SignInAssumption
    <2> QED BY <1>3, <2>1, <2>2, <2>3, <2>4 DEF Rekeyed
  <1> QED BY <1>1, <1>2, <1>3

LEMMA RekeyedCallFields ==
    ASSUME NEW c \in Calls
    PROVE  LET d == RekeyedCall(c) IN
           /\ d \in Calls /\ d.at = c.at /\ d.kind = c.kind /\ d.ok = c.ok
           /\ d.cookies.session = Rekeyed(c.cookies.session)
           /\ d.sets = IF c.sets \in {Nothing, Clear} THEN c.sets ELSE Rekeyed(c.sets)
  <1>1. PICK k : k = Rekeyed(c.cookies.session)
    OBVIOUS
  <1>2. PICK sets : sets = IF c.sets \in {Nothing, Clear} THEN c.sets ELSE Rekeyed(c.sets)
    OBVIOUS
  <1>3. k \in Token \cup {Absent} /\ sets \in Token \cup {Nothing, Clear}
    BY <1>1, <1>2, CallFields, TokenFields, RekeyedToken
  <1>4. PICK d : d = [c EXCEPT !.cookies.session = k, !.sets = sets]
    OBVIOUS
  <1>5. d = RekeyedCall(c)
    BY <1>1, <1>2, <1>4 DEF RekeyedCall
  <1>6. /\ d \in Calls /\ d.at = c.at /\ d.kind = c.kind /\ d.ok = c.ok
        /\ d.cookies.session = k /\ d.sets = sets
    BY <1>3, <1>4 DEF Calls, Cookies
  <1> QED BY <1>1, <1>2, <1>5, <1>6

\* By the time the keys rotate again, no session of this key was touched for as long as that.
LEMMA RotateKeeps == ASSUME SignInInv, Rotate PROVE SignInInv'
  <1> USE SignInAssumption
  <1>1. /\ rotation = 0 /\ rotation' = Regenerate /\ calls' = {RekeyedCall(c) : c \in calls}
        /\ UNCHANGED <<admin, exists, touched, ended, logins, heard, tabs>>
    BY DEF Rotate
  <1>2. cookies \in Cookies /\ cookies.session \in Token \cup {Absent} /\ calls \subseteq Calls
    BY DEF SignInInv, SignInTyped, Cookies
  <1>3. cookies' \in Cookies /\ cookies'.session = Rekeyed(cookies.session)
    <2>1. PICK k : k = Rekeyed(cookies.session)
      OBVIOUS
    <2>2. k \in Token \cup {Absent}
      BY <1>2, <2>1, RekeyedToken
    <2>3. cookies' = [cookies EXCEPT !.session = k]
      BY <2>1 DEF Rotate
    <2> QED BY <1>2, <2>1, <2>2, <2>3 DEF Cookies
  <1>4. ASSUME NEW k \in Token, Recent(k) PROVE Recent(Rekeyed(k))'
    <2>1. PICK r : r = Rekeyed(k)
      OBVIOUS
    <2>2. k.key = 1 /\ k # Absent
      BY <1>1, <1>4, TokenFields DEF Recent
    <2>3. r.id = k.id /\ r.key = 2
      BY <2>1, <2>2, RekeyedToken
    <2>4. Recent(r)'
      BY <1>1, <1>4, <2>3 DEF Recent
    <2> QED BY <2>1, <2>4
  <1>5. ASSUME NEW d \in calls' PROVE d \in Calls /\ CallOK(d)'
    <2>1. PICK c \in calls : d = RekeyedCall(c)
      BY <1>1
    <2>2. c \in Calls /\ CallOK(c)
      BY <1>2 DEF SignInInv, CallsOK
    <2>3. c.cookies.session \in Token \cup {Absent} /\ c.sets \in Token \cup {Nothing, Clear}
      BY <2>2, CallFields
    <2>4. /\ d \in Calls /\ d.at = c.at /\ d.kind = c.kind /\ d.ok = c.ok
          /\ d.cookies.session = Rekeyed(c.cookies.session)
          /\ d.sets = IF c.sets \in {Nothing, Clear} THEN c.sets ELSE Rekeyed(c.sets)
      BY <2>1, <2>2, RekeyedCallFields
    <2>5. /\ c.sets \in Token => d.sets = Rekeyed(c.sets) /\ d.sets \in Token
          /\ c.sets \notin Token => d.sets = c.sets /\ d.sets \notin Token
      BY <2>3, <2>4, TokenFields, RekeyedToken
    <2>6. c.cookies.session \in Token => d.cookies.session \in Token
      BY <2>3, <2>4, RekeyedToken
    <2>7. d.sets \in Token => d.at = "served" /\ d.kind \in {"auth", "poll"} /\ d.ok /\ Recent(d.sets)'
      BY <1>4, <2>2, <2>4, <2>5 DEF CallOK
    <2>8. d.kind = "poll" /\ d.at = "served" /\ d.ok =>
             d.cookies.session \in Token /\ d.sets # Clear /\ (d.sets = Nothing => Recent(d.cookies.session)')
      BY <1>4, <2>2, <2>3, <2>4, <2>5, <2>6, TokenFields DEF CallOK
    <2>9. cookies'.session \in {Absent, d.cookies.session} \/ Recent(cookies.session)'
      <3>1. CASE cookies.session \in {Absent, c.cookies.session}
        BY <1>2, <1>3, <2>4, <3>1, RekeyedToken
      <3>2. CASE cookies.session \in Token /\ Recent(cookies.session)
        <4>1. PICK k \in Token : k = cookies.session
          BY <3>2
        <4>2. PICK r : r = Rekeyed(k)
          OBVIOUS
        <4>3. Recent(r)' /\ cookies'.session = r
          BY <1>3, <1>4, <3>2, <4>1, <4>2
        <4> QED BY <4>3 DEF Recent
      <3> QED BY <1>2, <2>2, <3>1, <3>2 DEF CallOK
    <2>10. d.kind = "auth" /\ d.at = "served" /\ d.ok => d.sets # Nothing
      BY <2>2, <2>4, <2>5, TokenFields DEF CallOK
    <2>11. d.at = "found" => d.kind = "poll" /\ d.cookies.session \in Token
      BY <2>2, <2>4, <2>6 DEF CallOK
    <2> QED BY <2>4, <2>7, <2>8, <2>9, <2>10, <2>11 DEF CallOK
  <1>6. Heard'
    <2>1. ASSUME cookies.session \in Token, heard <= IdleTime, cookies.session.id \notin ended
          PROVE  /\ Rekeyed(cookies.session).id = cookies.session.id
                 /\ touched[cookies.session.id] \in 0..heard /\ Rekeyed(cookies.session).key = 2
      <3>1. PICK k \in Token : k = cookies.session
        BY <2>1
      <3>2. touched[k.id] \in 0..heard /\ k.key <= 2 /\ (k.key = 2 => rotation + heard > IdleTime)
        BY <2>1, <3>1, TokenFields DEF Heard, SignInInv
      <3>3. k.key = 1 /\ k # Absent
        BY <1>1, <2>1, <3>2, TokenFields DEF SignInInv, SignInTyped
      <3> QED BY <3>1, <3>2, <3>3, RekeyedToken
    <2>2. cookies.session \in Token => Rekeyed(cookies.session).id = cookies.session.id
      BY RekeyedToken, TokenFields
    <2>3. cookies'.session # Absent => cookies.session \in Token
      BY <1>2, <1>3, RekeyedToken
    <2> QED BY <1>1, <1>3, <2>1, <2>2, <2>3 DEF Heard, SignInInv, SignInTyped
  <1>7. SignInTyped'
    BY <1>1, <1>3, <1>5 DEF SignInInv, SignInTyped
  <1> QED BY <1>5, <1>6, <1>7 DEF SignInInv, CallsOK

LEMMA FiveMinutesKeeps == ASSUME SignInInv, FiveMinutes PROVE SignInInv'
  <1> USE SignInAssumption
  <1>1. /\ rotation > 0 /\ rotation' = rotation - 1 /\ calls = {} /\ calls' = {} /\ logins' = {}
        /\ heard' = Older(heard, IdleTime + 1)
        /\ touched' = [s \in SessionIds |-> Older(touched[s], 2 * IdleTime + 1)]
        /\ UNCHANGED <<admin, exists, ended, tabs>>
    BY DEF FiveMinutes
  <1>2. PICK k \in Token \cup {Absent} : k = cookies.session
    BY DEF SignInInv, SignInTyped, Cookies
  <1>3. PICK r : r = IF k = Absent \/ k.left = 0 THEN k ELSE [k EXCEPT !.left = @ - 1]
    OBVIOUS
  <1>4. r \in Token \cup {Absent} /\ (k = Absent <=> r = Absent) /\ (k # Absent => r.id = k.id /\ r.key = k.key)
    <2>1. CASE k = Absent \/ k.left = 0
      BY <1>3, <2>1
    <2>2. CASE k # Absent /\ k.left # 0
      <3>1. r = [k EXCEPT !.left = @ - 1] /\ k \in Token /\ k.left \in 1..Expiry /\ k.left - 1 \in 0..Expiry
        BY <1>3, <2>2, TokenFields
      <3>2. r \in Token /\ r.id = k.id /\ r.key = k.key
        BY <3>1 DEF Token
      <3> QED BY <2>2, <3>2, TokenFields
    <2> QED BY <2>1, <2>2
  <1>5. cookies' = [login |-> Absent, session |-> r]
    BY <1>2, <1>3 DEF FiveMinutes
  <1>6. cookies' \in Cookies /\ cookies'.session = r
    BY <1>4, <1>5 DEF Cookies
  <1>7. heard' \in 0..IdleTime + 1 /\ (heard' <= IdleTime => heard' = heard + 1 /\ heard <= IdleTime)
    BY <1>1 DEF Older, SignInInv, SignInTyped
  <1>8. ASSUME NEW s \in SessionIds
        PROVE  /\ touched'[s] \in 0..2 * IdleTime + 1 \cup {Absent}
               /\ touched[s] \in 0..IdleTime => touched'[s] = touched[s] + 1
    BY <1>1 DEF Older, SignInInv, SignInTyped
  <1>9. SignInTyped'
    BY <1>1, <1>6, <1>7, <1>8 DEF SignInInv, SignInTyped
  <1>10. Heard'
    <2> SUFFICES ASSUME r # Absent, heard' <= IdleTime, r.id \notin ended
                 PROVE  /\ touched'[r.id] \in 0..heard'
                        /\ r.key <= 2 /\ (r.key = 2 => rotation' + heard' > IdleTime)
      BY <1>1, <1>6 DEF Heard
    <2>1. k \in Token /\ k # Absent /\ r.id = k.id /\ r.key = k.key /\ k.id \in SessionIds
      BY <1>4, TokenFields
    <2>2. touched[k.id] \in 0..heard /\ k.key <= 2 /\ (k.key = 2 => rotation + heard > IdleTime)
      BY <1>2, <1>7, <2>1 DEF Heard, SignInInv
    <2>3. heard \in Nat /\ rotation \in Nat
      BY DEF SignInInv, SignInTyped
    <2>4. touched'[k.id] = touched[k.id] + 1
      BY <1>7, <1>8, <2>1, <2>2, <2>3
    <2> QED BY <1>1, <1>7, <2>1, <2>2, <2>3, <2>4
  <1> QED BY <1>1, <1>9, <1>10 DEF SignInInv, CallsOK

LEMMA PreauthArrivesKeeps == ASSUME SignInInv, NEW c \in calls, PreauthArrives(c) PROVE SignInInv'
  <1> USE DEF clocks
  <1>1. c \in Calls /\ CallOK(c) /\ c.cookies.login \in LoginIds \cup {Absent}
    BY CallFields DEF SignInInv, SignInTyped, CallsOK
  <1>2. cookies' \in Cookies /\ cookies'.session = cookies.session
    BY <1>1 DEF PreauthArrives, SignInInv, SignInTyped, Cookies
  <1>3. PICK d : d = [c EXCEPT !.kind = "auth", !.at = "sent", !.cookies = cookies']
    OBVIOUS
  <1>4. /\ calls' = (calls \ {c}) \cup {d} /\ c.kind = "preauth" /\ c.at = "served"
        /\ UNCHANGED <<admin, exists, touched, ended, logins, clocks, tabs>>
    BY <1>3 DEF PreauthArrives, Becomes
  <1>5. d \in Calls /\ d.at = "sent" /\ d.kind = "auth" /\ d.sets = c.sets /\ d.cookies = cookies'
    BY <1>1, <1>2, <1>3, CallNamed DEF Calls
  <1>6. CallOK(d)'
    BY <1>1, <1>2, <1>4, <1>5, SignInAssumption DEF CallOK, Recent
  <1>7. SignInTyped' /\ Milder
    BY <1>2, <1>4, <1>5 DEF SignInInv, SignInTyped, Milder
  <1> QED BY <1>2, <1>4, <1>6, <1>7, MilderKeeps DEF SignInInv

LEMMA ArriveKeeps == ASSUME SignInInv, NEW c \in calls, Arrive(c) PROVE SignInInv'
  <1> USE SignInAssumption
  <1>1. c \in Calls /\ CallOK(c) /\ c.sets \in Token \cup {Nothing, Clear}
    BY CallFields DEF SignInInv, SignInTyped, CallsOK
  <1>2. /\ c.at = "served" /\ c.kind # "preauth" /\ calls' = calls \ {c}
        /\ heard' = IF c.ok /\ c.kind \in {"auth", "poll"} THEN 0 ELSE heard
        /\ UNCHANGED <<admin, exists, touched, ended, logins, rotation>>
    BY DEF Arrive
  <1>3. PICK k : k = NewSession(c)
    OBVIOUS
  <1>4. k \in Token \cup {Absent}
        /\ (c.sets \in Token => k = c.sets) /\ (c.sets = Nothing => k = cookies.session) /\ (c.sets = Clear => k = Absent)
    BY <1>1, <1>3, TokenFields DEF NewSession, SignInInv, SignInTyped, Cookies
  <1>5. cookies' \in Cookies /\ cookies'.session = k
    <2>1. PICK login : login = IF c.kind = "auth" /\ c.ok /\ c.sets # Clear THEN Absent ELSE cookies.login
      OBVIOUS
    <2>2. cookies' = [login |-> login, session |-> k]
      BY <1>3, <2>1 DEF Arrive
    <2>3. login \in LoginIds \cup {Absent}
      BY <2>1 DEF SignInInv, SignInTyped, Cookies
    <2> QED BY <1>4, <2>2, <2>3 DEF Cookies
  <1>6. tabs' \in [Tabs -> Steps]
    <2>1. tabs \in [Tabs -> Steps] /\ c.tab \in Tabs /\ c.kind \in Kinds
      BY <1>1, CallFields DEF SignInInv, SignInTyped
    <2>2. \E step \in Steps : tabs' = [tabs EXCEPT ![c.tab] = step]
      BY <1>2, <2>1, CallNamed DEF Arrive, Kinds
    <2> QED BY <2>1, <2>2
  <1>7. ASSUME NEW d \in calls' PROVE CallOK(d)'
    <2>1. CallOK(d)
      BY <1>2 DEF SignInInv, CallsOK
    <2>2. k \in {Absent, d.cookies.session} \/ Recent(k)
      BY <1>1, <1>4, <2>1 DEF CallOK
    <2> QED BY <1>2, <1>5, <2>1, <2>2 DEF CallOK, Recent
  <1>8. ASSUME NEW r \in Token, Recent(r), heard' = 0, r.id \notin ended
        PROVE  touched[r.id] \in 0..heard' /\ r.key <= 2 /\ (r.key = 2 => rotation + heard' > IdleTime)
    BY <1>8 DEF Recent
  <1>9. Heard'
    <2>1. CASE c.sets \in Token
      BY <1>1, <1>2, <1>4, <1>5, <1>8, <2>1 DEF Heard, CallOK
    <2>2. CASE c.sets = Nothing /\ heard' # heard
      <3>1. Recent(k) \/ k = Absent
        BY <1>1, <1>2, <1>4, <2>2 DEF CallOK
      <3> QED BY <1>2, <1>4, <1>5, <1>8, <2>2, <3>1 DEF Heard
    <2>3. CASE c.sets = Nothing /\ heard' = heard
      BY <1>2, <1>4, <1>5, <2>3 DEF Heard, SignInInv
    <2>4. CASE c.sets = Clear
      BY <1>4, <1>5, <2>4 DEF Heard
    <2> QED BY <1>1, <2>1, <2>2, <2>3, <2>4
  <1>10. SignInTyped'
    BY <1>2, <1>5, <1>6 DEF SignInInv, SignInTyped
  <1> QED BY <1>7, <1>9, <1>10 DEF SignInInv, CallsOK

-----------------------------------------------------------------------------
LEMMA SignInStep == ASSUME SignInInv, [SignInNext]_signInVars PROVE SignInInv'
  <1>1. CASE UNCHANGED signInVars
    BY <1>1 DEF signInVars, clocks, SignInInv, SignInTyped, CallsOK, CallOK, Recent, Heard
  <1>2. ASSUME NEW t \in Tabs, Setup(t) \/ Login(t) \/ Poll(t) \/ SignOut(t) PROVE SignInInv'
    BY <1>2, SendKeeps, CallNamed DEF Setup, Login, Poll, SignOut
  <1>3. ASSUME NEW c \in calls,
               \/ ServeSetup(c) \/ ServePreauth(c) \/ ServeAuth(c) \/ Find(c) \/ Touch(c) \/ ServeLogout(c)
               \/ PreauthArrives(c) \/ Arrive(c) \/ Lose(c)
        PROVE  SignInInv'
    BY <1>3, ServeSetupKeeps, ServePreauthKeeps, ServeAuthKeeps, FindKeeps, TouchKeeps, ServeLogoutKeeps,
       PreauthArrivesKeeps, ArriveKeeps, LoseKeeps
  <1> QED BY <1>1, <1>2, <1>3, ReloadKeeps, SweepKeeps, RotateKeeps, DeleteAccountKeeps, FiveMinutesKeeps
          DEF SignInNext

LEMMA SignInInvTypes == SignInInv => SignInTypeOK
  BY CallFields DEF SignInInv, SignInTyped, SignInTypeOK, Cookies, Steps

\* The types: what the server keeps of the sessions, what the browser has of them, and what is
\* on its way (setup.js, login.js, auth/impl/local.go).
THEOREM SessionsAreTyped == SignInSpec => []SignInTypeOK
  <1> QED BY StartsWell, SignInStep, SignInInvTypes, PTL DEF SignInSpec

\* Authenticated(), regenerate(), sweep(): as long as the server answers the browser at least
\* every IdleTime, and keeps a key for longer than that, the session of the browser is found
\* and verified until it expires, unless it was signed out or its account is gone.
THEOREM TheSessionLasts == SignInSpec => []StaysSignedIn
  <1>1. SignInInv => StaysSignedIn
    BY SignInAssumption, TokenFields DEF SignInInv, SignInTyped, StaysSignedIn, Heard, Extant, Cookies
  <1> QED BY StartsWell, SignInStep, <1>1, PTL DEF SignInSpec

-----------------------------------------------------------------------------
(* The one-time password: unless the page was used while it waited for an  *)
(* answer, it waits for one at most.  A picture on its way lasts on the    *)
(* server for longer than the page is about to show it, and what the       *)
(* server does for a request that the page was told has failed shortens    *)
(* nothing.  What is stored follows the page for as long as the page is    *)
(* told of what was last done with it.                                     *)

Pictures == {"enable", "show"}
Fetched == {"enable", "show", "verify", "revoke"}
Places == {"sent", "served", "read"}

Fetches == [id : Nat, kind : Fetched, at : Places, key : Keys \cup {None}, code : Keys \cup {None},
            ok : BOOLEAN, working : BOOLEAN, late : BOOLEAN]

OneTimeTyped ==
    /\ enabled \in {"false", "pending", "true"} /\ otp \in {"show", "hide"}
    /\ checkbox \in [checked : BOOLEAN, enabled : BOOLEAN]
    /\ qrcode \in Keys \cup {None}
    /\ expired \in 0..PageTicks \cup {None}
    /\ cookie \in [key : Keys \cup {None}, ticks : 0..ServerTicks]
    /\ secrets \in [Keys -> [secret : Keys \cup {None}, ticks : 0..ServerTicks]]
    /\ stored \in Keys \cup {None}
    /\ fetches \subseteq Fetches /\ pressed \in Nat /\ unheard \in BOOLEAN

\* What the server keeps is a secret, and only an answer can be late.
ServerOK ==
    /\ \A k \in Keys : secrets[k].ticks > 0 => secrets[k].secret # None
    /\ \A c \in fetches : c.at = "sent" => ~c.late /\ ~c.ok
    /\ \A c \in fetches : c.working => c.at = "sent"

Lasting(k, secret, n) == k \in Keys /\ secret \in Keys /\ secrets[k].secret = secret /\ secrets[k].ticks >= n

FetchOK(c) ==
    /\ c.at = "read" => c.kind \in Pictures
    /\ c.kind \in Pictures /\ c.at = "served" /\ c.ok =>
        Lasting(c.key, c.code, IF c.late THEN ServerTicks - 1 ELSE ServerTicks)
    /\ c.at = "read" => /\ Lasting(c.key, c.code, ServerTicks - 1)
                        /\ cookie = [key |-> c.key, ticks |-> ServerTicks] /\ expired = PageTicks
    /\ c.kind = "enable" => enabled = "false" /\ checkbox.checked
    /\ c.kind = "show" => otp = "hide" /\ enabled # "false"
    /\ c.kind = "verify" => enabled = "pending"
    /\ c.kind = "revoke" => enabled = "true"

\* The page is told what it takes to follow the stored secret.
FollowsStored(c) ==
    /\ c.kind = "enable" => stored = None
    /\ c.kind = "show" => (enabled = "true" <=> stored # None)
    /\ c.kind = "verify" => (stored # None <=> c.at = "served" /\ c.ok)
    /\ c.kind = "revoke" => (stored = None <=> c.at = "served" /\ c.ok)

InView ==
    enabled = "pending" /\ otp = "show" =>
        /\ expired \in 0..PageTicks
        /\ Lasting(cookie.key, qrcode, expired + 1) /\ cookie.ticks > expired

\* The box is ticked before a secret is in view, and cleared with it.
Ticked == enabled = "pending" => checkbox.checked

Alone == \A c, d \in Awaited : c = d

Settled ==
    ~unheard => /\ Awaited = {} => (enabled = "true" <=> stored # None)
                /\ \A c \in Awaited : FollowsStored(c)

ControlsOK == Alone /\ (\A c \in Awaited : FetchOK(c)) /\ Settled /\ Ticked /\ InView

OneTimeInv == OneTimeTyped /\ ServerOK /\ (~overtook => ControlsOK)

-----------------------------------------------------------------------------
LEMMA PlacesNamed ==
    /\ \A kind \in {"enable", "show", "verify", "revoke"} : kind \in Fetched
    /\ \A place \in {"sent", "served", "read"} : place \in Places
    /\ \A kind \in {"enable", "show"} : kind \in Pictures
    /\ "verify" \notin Pictures /\ "revoke" \notin Pictures
  BY DEF Fetched, Places, Pictures

LEMMA FetchFields ==
    ASSUME NEW c \in Fetches
    PROVE  /\ c.id \in Nat /\ c.kind \in Fetched /\ c.at \in Places /\ c.key \in Keys \cup {None}
           /\ c.code \in Keys \cup {None} /\ c.ok \in BOOLEAN /\ c.working \in BOOLEAN /\ c.late \in BOOLEAN
  BY DEF Fetches

LEMMA StartsUnused == ASSUME OneTimeInit PROVE OneTimeInv
  <1> USE OneTimeAssumption DEF OneTimeInit
  <1>1. OneTimeTyped
    <2>1. cookie \in [key : Keys \cup {None}, ticks : 0..ServerTicks]
      BY DEF NoCookie
    <2>2. secrets \in [Keys -> [secret : Keys \cup {None}, ticks : 0..ServerTicks]]
      BY DEF NoSecret
    <2>3. checkbox \in [checked : BOOLEAN, enabled : BOOLEAN]
      OBVIOUS
    <2> QED BY <2>1, <2>2, <2>3 DEF OneTimeTyped
  <1>2. ServerOK
    BY DEF ServerOK, NoSecret
  <1>3. ControlsOK
    BY DEF ControlsOK, Alone, Awaited, Settled, Ticked, InView
  <1> QED BY <1>1, <1>2, <1>3 DEF OneTimeInv

\* A click sends a request with the cookie of now.
\* What is asked of the requests that the page waits for is asked of no other.
LEMMA AwaitedAre ==
    ASSUME OneTimeInv
    PROVE  /\ Awaited \subseteq fetches /\ \A c \in fetches : c \in Fetches /\ (c \notin Awaited <=> c.working)
           /\ \A c \in fetches : c.at # "sent" => c \in Awaited
           /\ ~overtook => ControlsOK
  BY FetchFields DEF Awaited, OneTimeInv, OneTimeTyped, ServerOK

LEMMA FetchSends ==
    ASSUME OneTimeInv, NEW kind \in Fetched, NEW code \in Keys \cup {None}, Fetch(kind, code)
    PROVE  \E d \in Fetches :
               /\ d.kind = kind /\ d.at = "sent" /\ ~d.ok /\ ~d.working /\ ~d.late
               /\ fetches' = fetches \cup {d} /\ pressed' \in Nat
               /\ ~overtook' => ~overtook /\ Awaited = {}
  <1>1. PICK d : d = Call(kind, code)
    OBVIOUS
  <1>2. d \in Fetches /\ d.kind = kind /\ d.at = "sent" /\ ~d.ok /\ ~d.working /\ ~d.late
    BY <1>1, PlacesNamed DEF Call, Fetches, OneTimeInv, OneTimeTyped
  <1>3. /\ fetches' = fetches \cup {d} /\ pressed' = pressed + 1 /\ overtook' = (overtook \/ Awaited # {})
    BY <1>1 DEF Fetch
  <1>4. pressed' \in Nat
    BY <1>3 DEF OneTimeInv, OneTimeTyped
  <1>5. ~overtook' => ~overtook /\ Awaited = {}
    BY <1>3
  <1> QED BY <1>2, <1>3, <1>4, <1>5

\* What the invariant asks after a click: the rest is about the server, which a click leaves.
LEMMA ClickKeeps ==
    ASSUME OneTimeInv, NEW d \in Fetches, d.at = "sent", ~d.ok, ~d.working, ~d.late,
           fetches' = fetches \cup {d}, pressed' \in Nat,
           ~overtook' => ~overtook /\ Awaited = {},
           UNCHANGED <<enabled, expired, cookie, server, unheard>>, otp' = otp,
           Ticked', checkbox' \in [checked : BOOLEAN, enabled : BOOLEAN], qrcode' \in Keys \cup {None},
           qrcode' = qrcode \/ enabled = "false" \/ otp = "hide",
           /\ d.kind = "enable" => enabled = "false" /\ checkbox'.checked
           /\ d.kind = "show" => otp = "hide" /\ enabled # "false"
           /\ d.kind = "verify" => enabled = "pending"
           /\ d.kind = "revoke" => enabled = "true"
    PROVE  OneTimeInv'
  <1> USE DEF server
  <1>1. OneTimeTyped' /\ ServerOK'
    BY DEF OneTimeInv, OneTimeTyped, ServerOK
  <1> SUFFICES ASSUME ~overtook' PROVE ControlsOK'
    BY <1>1 DEF OneTimeInv
  <1>2. Awaited' = {d} /\ Settled /\ InView /\ Awaited = {}
    BY DEF OneTimeInv, ControlsOK, Awaited
  <1>3. FetchOK(d)'
    BY PlacesNamed DEF FetchOK
  <1>4. Settled'
    BY <1>2, PlacesNamed DEF Settled, FollowsStored
  <1>5. InView'
    BY <1>2 DEF InView, Lasting
  <1> QED BY <1>2, <1>3, <1>4, <1>5 DEF ControlsOK, Alone

LEMMA CheckKeeps == ASSUME OneTimeInv, Check PROVE OneTimeInv'
  <1>1. checkbox' \in [checked : BOOLEAN, enabled : BOOLEAN]
    BY DEF Check, OneTimeInv, OneTimeTyped
  <1>2. enabled \in {"false", "pending"} /\ UNCHANGED <<otp, expired, cookie, server, unheard>>
    BY DEF Check, OneTimeInv, OneTimeTyped
  <1>3. CASE checkbox.checked
    <2>1. /\ enabled' = "false" /\ pressed' = pressed + 1 /\ overtook' = (overtook \/ Awaited # {})
          /\ UNCHANGED <<qrcode, fetches>>
      BY <1>3 DEF Check
    <2>2. OneTimeTyped' /\ ServerOK'
      BY <1>1, <1>2, <2>1 DEF OneTimeInv, OneTimeTyped, ServerOK, server
    <2>3. ~overtook' => ControlsOK'
      <3> SUFFICES ASSUME ~overtook' PROVE ControlsOK'
        OBVIOUS
      <3>1. Awaited = {} /\ Awaited' = {} /\ ControlsOK
        BY <2>1 DEF OneTimeInv, Awaited
      <3> QED BY <1>2, <2>1, <3>1 DEF ControlsOK, Alone, Settled, Ticked, InView, server
    <2> QED BY <2>2, <2>3 DEF OneTimeInv
  <1>4. CASE ~checkbox.checked
    <2>1. Fetch("enable", None) /\ qrcode' = None /\ enabled' = enabled
      BY <1>4 DEF Check
    <2>2. PICK d \in Fetches :
               /\ d.kind = "enable" /\ d.at = "sent" /\ ~d.ok /\ ~d.working /\ ~d.late
               /\ fetches' = fetches \cup {d} /\ pressed' \in Nat
               /\ ~overtook' => ~overtook /\ Awaited = {}
      BY <2>1, FetchSends, PlacesNamed
    <2>3. checkbox'.checked
      BY <1>4 DEF Check, OneTimeInv, OneTimeTyped
    <2>4. CASE overtook'
      <3>1. OneTimeTyped' /\ ServerOK'
        BY <1>1, <1>2, <2>1, <2>2 DEF OneTimeInv, OneTimeTyped, ServerOK, server
      <3> QED BY <2>4, <3>1 DEF OneTimeInv
    <2>5. CASE ~overtook'
      <3>1. enabled = "false"
        BY <1>2, <1>4, <2>2, <2>5 DEF OneTimeInv, ControlsOK, Ticked
      <3> QED BY <1>1, <1>2, <2>1, <2>2, <2>3, <3>1, PlacesNamed, ClickKeeps DEF Ticked
    <2> QED BY <2>4, <2>5
  <1> QED BY <1>3, <1>4

LEMMA ShowKeeps == ASSUME OneTimeInv, Show PROVE OneTimeInv'
  <1>1. /\ enabled # "false" /\ otp = "hide" /\ Fetch("show", None) /\ qrcode' = None
        /\ UNCHANGED <<enabled, otp, checkbox, expired, cookie, server, unheard>>
    BY DEF Show
  <1>2. PICK d \in Fetches :
             /\ d.kind = "show" /\ d.at = "sent" /\ ~d.ok /\ ~d.working /\ ~d.late
             /\ fetches' = fetches \cup {d} /\ pressed' \in Nat
             /\ ~overtook' => ~overtook /\ Awaited = {}
    BY <1>1, FetchSends, PlacesNamed
  <1>3. OneTimeTyped' /\ ServerOK'
    BY <1>1, <1>2 DEF OneTimeInv, OneTimeTyped, ServerOK, server
  <1>4. CASE ~overtook'
    <2>1. Ticked'
      BY <1>1, <1>2, <1>4 DEF OneTimeInv, ControlsOK, Ticked
    <2> QED BY <1>1, <1>2, <2>1, ClickKeeps DEF OneTimeInv, OneTimeTyped
  <1> QED BY <1>3, <1>4 DEF OneTimeInv

LEMMA HideKeeps == ASSUME OneTimeInv, Hide PROVE OneTimeInv'
  <1> USE DEF Hide, Shown
  <1>1. OneTimeTyped' /\ ServerOK'
    BY DEF OneTimeInv, OneTimeTyped, ServerOK, server
  <1>2. CASE ~overtook'
    <2>1. ControlsOK /\ Awaited' = Awaited
      BY <1>2 DEF OneTimeInv, Awaited
    <2>2. \A c \in Awaited : FetchOK(c)'
      BY <2>1 DEF ControlsOK, FetchOK, Lasting, Pictures, server
    <2>3. Settled'
      BY <2>1 DEF ControlsOK, Settled, FollowsStored, FetchOK, server
    <2> QED BY <1>1, <2>1, <2>2, <2>3 DEF OneTimeInv, ControlsOK, Alone, Ticked, InView, server
  <1> QED BY <1>1, <1>2 DEF OneTimeInv

LEMMA SubmitCodeKeeps == ASSUME OneTimeInv, SubmitCode PROVE OneTimeInv'
  <1>1. PICK code \in Keys \cup {None} : code = IF Shown THEN qrcode ELSE None
    BY DEF OneTimeInv, OneTimeTyped
  <1>2. enabled = "pending" /\ Fetch("verify", code) /\ UNCHANGED <<fields, cookie, server, unheard>>
    BY <1>1 DEF SubmitCode
  <1>3. PICK d \in Fetches :
             /\ d.kind = "verify" /\ d.at = "sent" /\ ~d.ok /\ ~d.working /\ ~d.late
             /\ fetches' = fetches \cup {d} /\ pressed' \in Nat
             /\ ~overtook' => ~overtook /\ Awaited = {}
    BY <1>2, FetchSends, PlacesNamed
  <1>4. OneTimeTyped' /\ ServerOK'
    BY <1>2, <1>3 DEF OneTimeInv, OneTimeTyped, ServerOK, server, fields
  <1>5. CASE ~overtook'
    <2>1. Ticked'
      BY <1>2, <1>3, <1>5 DEF OneTimeInv, ControlsOK, Ticked, fields
    <2> QED BY <1>2, <1>3, <2>1, ClickKeeps DEF OneTimeInv, OneTimeTyped, fields
  <1> QED BY <1>4, <1>5 DEF OneTimeInv

LEMMA RevokeKeeps == ASSUME OneTimeInv, Revoke PROVE OneTimeInv'
  <1>1. enabled = "true" /\ Fetch("revoke", None) /\ UNCHANGED <<fields, cookie, server, unheard>>
    BY DEF Revoke
  <1>2. PICK d \in Fetches :
             /\ d.kind = "revoke" /\ d.at = "sent" /\ ~d.ok /\ ~d.working /\ ~d.late
             /\ fetches' = fetches \cup {d} /\ pressed' \in Nat
             /\ ~overtook' => ~overtook /\ Awaited = {}
    BY <1>1, FetchSends, PlacesNamed
  <1>3. OneTimeTyped' /\ ServerOK'
    BY <1>1, <1>2 DEF OneTimeInv, OneTimeTyped, ServerOK, server, fields
  <1>4. CASE ~overtook'
    <2>1. Ticked'
      BY <1>1, <1>2, <1>4 DEF OneTimeInv, ControlsOK, Ticked, fields
    <2> QED BY <1>1, <1>2, <2>1, ClickKeeps DEF OneTimeInv, OneTimeTyped, fields
  <1> QED BY <1>3, <1>4 DEF OneTimeInv

-----------------------------------------------------------------------------
(* The server, the answers and the time. *)

\* The server keeps what it has for as long as it would have.
SecretsStay ==
    /\ secrets' \in [Keys -> [secret : Keys \cup {None}, ticks : 0..ServerTicks]]
    /\ \A k \in Keys : secrets'[k].ticks > 0 => secrets'[k].secret # None
    /\ \A k \in Keys : secrets[k].ticks > 0 =>
           secrets'[k].secret = secrets[k].secret /\ secrets'[k].ticks >= secrets[k].ticks

LEMMA LastingStays ==
    ASSUME OneTimeInv, SecretsStay, NEW k, NEW secret, NEW n \in Nat \ {0}, Lasting(k, secret, n)
    PROVE  Lasting(k, secret, n)'
  <1>1. k \in Keys /\ secrets[k].ticks \in 0..ServerTicks /\ secrets'[k].ticks \in 0..ServerTicks
    BY DEF Lasting, OneTimeInv, OneTimeTyped, SecretsStay
  <1> QED BY <1>1 DEF Lasting, SecretsStay

\* What is asked of the page and of a request that it waits for, when the server goes on.
LEMMA PageStays ==
    ASSUME OneTimeInv, ~overtook, SecretsStay, UNCHANGED <<fields, cookie>>
    PROVE  Ticked' /\ InView' /\ \A b \in Awaited : FetchOK(b)'
  <1> USE OneTimeAssumption DEF fields
  <1>1. ControlsOK
    BY DEF OneTimeInv
  <1>2. Ticked' /\ InView'
    <2>1. ASSUME enabled = "pending", otp = "show"
          PROVE  expired \in 0..PageTicks /\ Lasting(cookie.key, qrcode, expired + 1)' /\ cookie.ticks > expired
      <3>1. expired \in 0..PageTicks /\ Lasting(cookie.key, qrcode, expired + 1) /\ cookie.ticks > expired
        BY <1>1, <2>1 DEF ControlsOK, InView
      <3>2. expired + 1 \in Nat \ {0}
        BY <3>1
      <3>3. PICK n \in Nat \ {0} : n = expired + 1
        BY <3>2
      <3>4. Lasting(cookie.key, qrcode, n)'
        <4>1. PICK k : k = cookie.key
          OBVIOUS
        <4>2. PICK q : q = qrcode
          OBVIOUS
        <4>3. Lasting(k, q, n)'
          BY <3>1, <3>3, <4>1, <4>2, LastingStays
        <4> QED BY <4>1, <4>2, <4>3 DEF Lasting
      <3> QED BY <3>1, <3>3, <3>4 DEF Lasting
    <2> QED BY <1>1, <2>1 DEF ControlsOK, Ticked, InView
  <1>3. ASSUME NEW b \in Awaited PROVE FetchOK(b)'
    <2>1. FetchOK(b)
      BY <1>1 DEF ControlsOK
    <2>2. ASSUME NEW n \in Nat \ {0}, Lasting(b.key, b.code, n) PROVE Lasting(b.key, b.code, n)'
      BY <2>2, LastingStays
    <2>3. ServerTicks \in Nat \ {0} /\ ServerTicks - 1 \in Nat \ {0}
      OBVIOUS
    <2> QED BY <2>1, <2>2, <2>3 DEF FetchOK
  <1> QED BY <1>2, <1>3

\* A request is served: its answer is on its way, unless nobody waits for it.
LEMMA MovedKeeps ==
    ASSUME OneTimeInv, NEW c \in fetches, NEW d \in Fetches, c.at = "sent", d.at = "served",
           Answer(c, d), d.working = c.working, d.late = c.late,
           UNCHANGED <<fields, cookie, pressed>>, overtook' = overtook, SecretsStay,
           stored' \in Keys \cup {None}, unheard' \in BOOLEAN,
           c.working => unheard' \/ UNCHANGED <<stored, unheard>>,
           ~overtook /\ ~c.working => FetchOK(d)' /\ (~unheard' => FollowsStored(d)')
    PROVE  OneTimeInv'
  <1> USE DEF fields
  <1>1. OneTimeTyped' /\ ServerOK'
    <2>1. fetches' \subseteq fetches \cup {d}
      BY DEF Answer, Moves
    <2>2. OneTimeTyped'
      BY <2>1 DEF OneTimeInv, OneTimeTyped, SecretsStay
    <2>3. \A b \in fetches' : b \in fetches \/ (b = d /\ ~c.working)
      BY DEF Answer, Moves
    <2> QED BY <2>2, <2>3 DEF OneTimeInv, ServerOK, SecretsStay
  <1> SUFFICES ASSUME ~overtook PROVE ControlsOK'
    BY <1>1 DEF OneTimeInv
  <1>2. ControlsOK /\ Ticked' /\ InView' /\ \A b \in Awaited : FetchOK(b)'
    BY PageStays, AwaitedAre
  <1>3. CASE c.working
    <2>1. Awaited' = Awaited
      BY <1>3 DEF Answer, Awaited
    <2>2. Settled'
      BY <1>2, <1>3, <2>1 DEF ControlsOK, Settled, FollowsStored
    <2> QED BY <1>2, <2>1, <2>2 DEF ControlsOK, Alone
  <1>4. CASE ~c.working
    <2>1. Awaited' = {d}
      <3>1. \A b \in Awaited : b = c
        BY <1>2, <1>4 DEF ControlsOK, Alone, Awaited
      <3> QED BY <1>4, <3>1 DEF Answer, Moves, Awaited
    <2>2. FetchOK(d)' /\ (~unheard' => FollowsStored(d)')
      BY <1>4
    <2> QED BY <1>2, <2>1, <2>2 DEF ControlsOK, Alone, Settled
  <1> QED BY <1>3, <1>4

\* A request that is served was sent, and the page waits for no other.
LEMMA SentIs ==
    ASSUME OneTimeInv, NEW c \in fetches, c.at = "sent"
    PROVE  /\ c \in Fetches /\ ~c.late /\ ~c.ok
           /\ ~overtook /\ ~c.working => FetchOK(c) /\ (~unheard => FollowsStored(c))
  BY AwaitedAre DEF OneTimeInv, ServerOK, ControlsOK, Settled

LEMMA ServeSecretKeeps ==
    ASSUME OneTimeInv, NEW c \in fetches, c.at = "sent", ServeSecret(c), UNCHANGED <<fields, cookie, overtook, pressed>>
    PROVE  OneTimeInv'
  <1> USE OneTimeAssumption
  <1>1. c \in Fetches /\ c.kind \in Pictures /\ c.key \in Keys \cup {None} /\ UNCHANGED <<stored, unheard>>
    BY FetchFields, PlacesNamed DEF ServeSecret, OneTimeInv, OneTimeTyped, Pictures
  <1>2. PICK k \in Keys :
             LET secret == CASE Kept(c.key) -> secrets[k].secret
                             [] ~Kept(c.key) /\ stored # None -> stored
                             [] OTHER -> k
             IN  /\ IF Kept(c.key) THEN k = c.key ELSE secrets[k].ticks = 0
                 /\ secrets' = [secrets EXCEPT ![k] = [secret |-> secret, ticks |-> Lasts]]
                 /\ Answer(c, [c EXCEPT !.at = "served", !.key = k, !.code = secret, !.ok = TRUE])
    BY <1>1 DEF ServeSecret, Fresh, Kept
  <1>3. PICK secret : secret = CASE Kept(c.key) -> secrets[k].secret
                                 [] ~Kept(c.key) /\ stored # None -> stored
                                 [] OTHER -> k
    OBVIOUS
  <1>4. secret \in Keys
    BY <1>1, <1>2, <1>3 DEF Kept, OneTimeInv, OneTimeTyped, ServerOK
  <1>5. PICK d : d = [c EXCEPT !.at = "served", !.key = k, !.code = secret, !.ok = TRUE]
    OBVIOUS
  <1>6. /\ d \in Fetches /\ d.at = "served" /\ d.kind = c.kind /\ d.key = k /\ d.code = secret /\ d.ok = TRUE
        /\ d.working = c.working /\ d.late = c.late
    BY <1>1, <1>4, <1>5, PlacesNamed DEF Fetches
  <1>7. Answer(c, d) /\ ~c.late
    BY <1>2, <1>3, <1>5, SentIs
  <1>8. PICK kept : kept = [secret |-> secret, ticks |-> ServerTicks]
    OBVIOUS
  <1>9. kept \in [secret : Keys \cup {None}, ticks : 0..ServerTicks] /\ kept.secret = secret /\ kept.ticks = ServerTicks
    BY <1>4, <1>8
  <1>10. secrets' = [secrets EXCEPT ![k] = kept]
    BY <1>2, <1>3, <1>8 DEF Lasts
  <1>11. /\ secrets' \in [Keys -> [secret : Keys \cup {None}, ticks : 0..ServerTicks]]
         /\ secrets'[k] = kept /\ \A j \in Keys \ {k} : secrets'[j] = secrets[j]
    BY <1>9, <1>10 DEF OneTimeInv, OneTimeTyped
  <1>12. SecretsStay
    <2>1. secrets[k].ticks \in 0..ServerTicks /\ (secrets[k].ticks > 0 => secret = secrets[k].secret)
      <3>1. secrets[k].ticks \in 0..ServerTicks
        BY DEF OneTimeInv, OneTimeTyped
      <3>2. Kept(c.key) => secret = secrets[k].secret
        BY <1>3
      <3> QED BY <1>2, <3>1, <3>2
    <2>2. \A j \in Keys : secrets[j].ticks \in 0..ServerTicks
      BY DEF OneTimeInv, OneTimeTyped
    <2> QED BY <1>4, <1>9, <1>11, <2>1, <2>2 DEF SecretsStay, OneTimeInv, ServerOK
  <1>13. ASSUME ~overtook, ~c.working PROVE FetchOK(d)' /\ (~unheard' => FollowsStored(d)')
    <2>1. FetchOK(c) /\ (~unheard => FollowsStored(c))
      BY <1>13, SentIs
    <2>2. Lasting(k, secret, ServerTicks)'
      BY <1>4, <1>9, <1>11 DEF Lasting
    <2>3. c.kind = "enable" \/ c.kind = "show"
      BY <1>1 DEF Pictures
    <2>4. FetchOK(d)'
      BY <1>1, <1>6, <1>7, <2>1, <2>2, <2>3, PlacesNamed DEF FetchOK, fields
    <2> QED BY <1>1, <1>6, <2>1, <2>3, <2>4 DEF FollowsStored, fields
  <1>14. stored' \in Keys \cup {None} /\ unheard' \in BOOLEAN
    BY <1>1 DEF OneTimeInv, OneTimeTyped
  <1> QED BY <1>1, <1>6, <1>7, <1>12, <1>13, <1>14, MovedKeeps

\* The secrets are as they were.
LEMMA SecretsRest == ASSUME OneTimeInv, secrets' = secrets PROVE SecretsStay
  <1>1. \A k \in Keys : secrets[k].ticks \in 0..ServerTicks
    BY DEF OneTimeInv, OneTimeTyped
  <1> QED BY <1>1, OneTimeAssumption DEF SecretsStay, OneTimeInv, OneTimeTyped, ServerOK

LEMMA ServeVerifyKeeps ==
    ASSUME OneTimeInv, NEW c \in fetches, c.at = "sent", ServeVerify(c), UNCHANGED <<fields, cookie, overtook, pressed>>
    PROVE  OneTimeInv'
  <1> USE OneTimeAssumption
  <1>1. /\ c \in Fetches /\ c.kind = "verify" /\ SecretsStay
        /\ Valid(c) => stored' = c.code /\ unheard' = c.working
        /\ ~Valid(c) => UNCHANGED <<stored, unheard>>
    BY SecretsRest DEF ServeVerify, OneTimeInv, OneTimeTyped
  <1>2. c.key \in Keys \cup {None} /\ c.code \in Keys \cup {None} /\ c.working \in BOOLEAN /\ ~c.late
    BY <1>1, FetchFields, SentIs
  <1>3. /\ Valid(c) => c.code \in Keys
        /\ stored' \in Keys \cup {None} /\ unheard' \in BOOLEAN
    BY <1>1, <1>2 DEF Valid, Kept, OneTimeInv, OneTimeTyped, ServerOK
  <1>4. PICK valid \in BOOLEAN : valid = Valid(c)
    BY DEF Valid
  <1>5. PICK d : d = [c EXCEPT !.at = "served", !.ok = valid]
    OBVIOUS
  <1>6. Answer(c, d)
    BY <1>4, <1>5 DEF ServeVerify
  <1>7. d \in Fetches /\ d.at = "served" /\ d.kind = "verify" /\ d.ok = valid /\ d.working = c.working /\ d.late = c.late
    BY <1>1, <1>4, <1>5, PlacesNamed DEF Fetches
  <1>8. ASSUME ~overtook, ~c.working PROVE FetchOK(d)' /\ (~unheard' => FollowsStored(d)')
    <2>1. FetchOK(c) /\ (~unheard => FollowsStored(c))
      BY <1>8, SentIs
    <2>2. FetchOK(d)'
      BY <1>1, <1>7, <2>1, PlacesNamed DEF FetchOK, fields
    <2>3. ~unheard' => (stored' # None <=> valid)
      BY <1>1, <1>3, <1>4, <2>1 DEF FollowsStored
    <2> QED BY <1>7, <2>2, <2>3 DEF FollowsStored
  <1>9. c.working => unheard' \/ UNCHANGED <<stored, unheard>>
    BY <1>1
  <1> QED BY <1>3, <1>6, <1>7, <1>8, <1>9, <1>1, MovedKeeps

LEMMA ServeRevokeKeeps ==
    ASSUME OneTimeInv, NEW c \in fetches, c.at = "sent", ServeRevoke(c), UNCHANGED <<fields, cookie, overtook, pressed>>
    PROVE  OneTimeInv'
  <1>1. c \in Fetches /\ c.kind = "revoke" /\ SecretsStay /\ stored' = None /\ unheard' = c.working /\ c.working \in BOOLEAN
    BY SecretsRest, SentIs, FetchFields DEF ServeRevoke
  <1>2. PICK d : d = [c EXCEPT !.at = "served", !.ok = TRUE]
    OBVIOUS
  <1>3. Answer(c, d)
    BY <1>2 DEF ServeRevoke
  <1>4. d \in Fetches /\ d.at = "served" /\ d.kind = "revoke" /\ d.ok = TRUE /\ d.working = c.working /\ d.late = c.late
    BY <1>1, <1>2, PlacesNamed DEF Fetches
  <1>5. ASSUME ~overtook, ~c.working PROVE FetchOK(d)' /\ (~unheard' => FollowsStored(d)')
    <2>1. FetchOK(c)
      BY <1>5, SentIs
    <2> QED BY <1>1, <1>4, <2>1, PlacesNamed DEF FetchOK, FollowsStored, fields
  <1> QED BY <1>1, <1>3, <1>4, <1>5, MovedKeeps

LEMMA RefuseKeeps ==
    ASSUME OneTimeInv, NEW c \in fetches, c.at = "sent", Refuse(c), UNCHANGED <<fields, cookie, overtook, pressed>>
    PROVE  OneTimeInv'
  <1>1. c \in Fetches /\ SecretsStay /\ UNCHANGED <<stored, unheard>> /\ ~c.ok
    BY SecretsRest, SentIs DEF Refuse, server
  <1>2. PICK d : d = [c EXCEPT !.at = "served"]
    OBVIOUS
  <1>3. Answer(c, d)
    BY <1>2 DEF Refuse
  <1>4. d \in Fetches /\ d.at = "served" /\ d.kind = c.kind /\ ~d.ok /\ d.working = c.working /\ d.late = c.late
    BY <1>1, <1>2, PlacesNamed DEF Fetches
  <1>5. ASSUME ~overtook, ~c.working PROVE FetchOK(d)' /\ (~unheard' => FollowsStored(d)')
    <2>1. FetchOK(c) /\ (~unheard => FollowsStored(c))
      BY <1>5, SentIs
    <2>2. FetchOK(d)'
      BY <1>4, <2>1, PlacesNamed DEF FetchOK, fields
    <2> QED BY <1>1, <1>4, <2>1, <2>2 DEF FollowsStored, fields
  <1>6. stored' \in Keys \cup {None} /\ unheard' \in BOOLEAN
    BY <1>1 DEF OneTimeInv, OneTimeTyped
  <1> QED BY <1>1, <1>3, <1>4, <1>5, <1>6, MovedKeeps

\* The page waits for the request no more, whatever comes of it.
LEMMA CaughtKeeps ==
    ASSUME OneTimeInv, NEW c \in Awaited, Caught(c), Awaited' = Awaited \ {c},
           OneTimeTyped', ServerOK', UNCHANGED <<otp, qrcode, expired, cookie, server, overtook>>,
           ~unheard' => ~unheard /\ (c.kind \in {"verify", "revoke"} => ~c.ok)
    PROVE  OneTimeInv'
  <1> SUFFICES ASSUME ~overtook PROVE ControlsOK'
    BY DEF OneTimeInv
  <1>1. ControlsOK /\ FetchOK(c) /\ c.kind \in {"enable", "show", "verify", "revoke"} /\ (c.at = "sent" => ~c.ok)
    BY AwaitedAre, FetchFields DEF ControlsOK, Fetched, OneTimeInv, ServerOK
  <1>2. Awaited' = {}
    BY <1>1 DEF ControlsOK, Alone
  <1>3. c.kind # "enable" => UNCHANGED <<enabled, checkbox>>
    BY DEF Caught
  <1>4. c.kind = "enable" => enabled = "false" /\ enabled' = "false"
    BY <1>1 DEF Caught, FetchOK
  <1>5. Ticked' /\ InView'
    BY <1>1, <1>3, <1>4 DEF ControlsOK, Ticked, InView, Lasting, server
  <1>6. Settled'
    BY <1>1, <1>2, <1>3, <1>4 DEF ControlsOK, Settled, FetchOK, FollowsStored, server
  <1> QED BY <1>2, <1>5, <1>6 DEF ControlsOK, Alone

LEMMA CaughtTypes ==
    ASSUME OneTimeInv, NEW c \in fetches, Caught(c)
    PROVE  enabled' \in {"false", "pending", "true"} /\ checkbox' \in [checked : BOOLEAN, enabled : BOOLEAN]
  <1>1. checkbox \in [checked : BOOLEAN, enabled : BOOLEAN]
    BY DEF OneTimeInv, OneTimeTyped
  <1>2. CASE c.kind = "enable"
    BY <1>1, <1>2 DEF Caught
  <1>3. CASE c.kind # "enable"
    BY <1>1, <1>3 DEF Caught, OneTimeInv, OneTimeTyped
  <1> QED BY <1>2, <1>3

LEMMA GiveUpKeeps == ASSUME OneTimeInv, NEW c \in fetches, GiveUp(c) PROVE OneTimeInv'
  <1>1. /\ c \in Fetches /\ c \in Awaited /\ c.at = "sent" /\ ~c.late /\ ~c.ok /\ Caught(c)
        /\ UNCHANGED <<otp, qrcode, expired, cookie, server, overtook, unheard, pressed>>
    BY SentIs DEF GiveUp, Awaited
  <1>2. PICK d : d = [c EXCEPT !.working = TRUE]
    OBVIOUS
  <1>3. fetches' = (fetches \ {c}) \cup {d}
    BY <1>2 DEF GiveUp, Moves
  <1>4. d \in Fetches /\ d.late = c.late /\ d.ok = c.ok /\ d.at = c.at /\ d.working
    BY <1>1, <1>2 DEF Fetches
  <1>5. OneTimeTyped' /\ ServerOK'
    BY <1>1, <1>3, <1>4, CaughtTypes DEF OneTimeInv, OneTimeTyped, ServerOK, server
  <1>6. Awaited' = Awaited \ {c}
    BY <1>3, <1>4 DEF Awaited
  <1> QED BY <1>1, <1>5, <1>6, CaughtKeeps

LEMMA AnswerLostKeeps == ASSUME OneTimeInv, NEW c \in fetches, AnswerLost(c) PROVE OneTimeInv'
  <1>1. /\ c \in Awaited /\ Caught(c) /\ fetches' = fetches \ {c}
        /\ unheard' = (unheard \/ c.kind \in {"verify", "revoke"})
        /\ UNCHANGED <<otp, qrcode, expired, cookie, server, overtook, pressed>>
    BY AwaitedAre DEF AnswerLost
  <1>2. OneTimeTyped' /\ ServerOK'
    BY <1>1, CaughtTypes DEF OneTimeInv, OneTimeTyped, ServerOK, server
  <1>3. Awaited' = Awaited \ {c}
    BY <1>1 DEF Awaited
  <1> QED BY <1>1, <1>2, <1>3, CaughtKeeps

\* The headers of a picture: the cookie and the timer begin, a minute after the secret at most.
LEMMA ReadHeadersKeeps == ASSUME OneTimeInv, NEW c \in fetches, ReadHeaders(c) PROVE OneTimeInv'
  <1> USE OneTimeAssumption
  <1>1. /\ c \in Fetches /\ c.at = "served" /\ c.kind \in Pictures /\ c.ok /\ c \in Awaited
        /\ expired' = PageTicks
        /\ UNCHANGED <<enabled, otp, checkbox, qrcode, server, overtook, unheard, pressed>>
    BY PlacesNamed, AwaitedAre DEF ReadHeaders, Timer, OneTimeInv, OneTimeTyped
  <1>2. PICK d : d = [c EXCEPT !.at = "read"]
    OBVIOUS
  <1>3. fetches' = (fetches \ {c}) \cup {d}
    BY <1>2 DEF ReadHeaders, Moves
  <1>4. /\ d \in Fetches /\ d.at = "read" /\ d.kind = c.kind /\ d.ok = c.ok /\ d.working = c.working
        /\ d.key = c.key /\ d.code = c.code /\ d.key \in Keys \cup {None}
    BY <1>1, <1>2, PlacesNamed, FetchFields DEF Fetches
  <1>5. cookie' = [key |-> d.key, ticks |-> ServerTicks]
    BY <1>4 DEF ReadHeaders
  <1>6. OneTimeTyped' /\ ServerOK'
    <2>1. OneTimeTyped'
      BY <1>1, <1>3, <1>4, <1>5 DEF OneTimeInv, OneTimeTyped, server
    <2>2. ~c.working
      BY <1>1 DEF Awaited
    <2> QED BY <1>1, <1>3, <1>4, <2>1, <2>2 DEF OneTimeInv, ServerOK, server
  <1>7. ASSUME ~overtook PROVE ControlsOK'
    <2>1. ControlsOK /\ FetchOK(c) /\ \A b \in Awaited : b = c
      BY <1>1, <1>7, AwaitedAre DEF ControlsOK, Alone
    <2>2. Awaited' = {d}
      BY <1>1, <1>3, <1>4, <2>1 DEF Awaited
    <2>3. c.kind = "enable" \/ c.kind = "show"
      BY <1>1 DEF Pictures
    <2>4. Lasting(d.key, d.code, ServerTicks - 1)'
      BY <1>1, <1>4, <2>1 DEF FetchOK, Lasting, server, OneTimeInv, OneTimeTyped
    <2>5. FetchOK(d)'
      BY <1>1, <1>4, <1>5, <2>1, <2>3, <2>4, PlacesNamed DEF FetchOK, server
    <2>6. ~(enabled = "pending" /\ otp = "show")
      BY <2>1, <2>3 DEF FetchOK
    <2>7. Settled'
      BY <1>1, <1>4, <2>1, <2>2, <2>3 DEF ControlsOK, Settled, FollowsStored, server
    <2> QED BY <1>1, <2>1, <2>2, <2>5, <2>6, <2>7 DEF ControlsOK, Alone, Ticked, InView
  <1> QED BY <1>1, <1>6, <1>7 DEF OneTimeInv

LEMMA ReadPictureKeeps == ASSUME OneTimeInv, NEW c \in fetches, ReadPicture(c) PROVE OneTimeInv'
  <1> USE OneTimeAssumption
  <1>1. /\ c \in Fetches /\ c.at = "read" /\ qrcode' = c.code /\ otp' = "show" /\ fetches' = fetches \ {c}
        /\ enabled' = IF c.kind = "enable" THEN "pending" ELSE enabled
        /\ UNCHANGED <<checkbox, expired, cookie, server, overtook, unheard, pressed>> /\ c \in Awaited
    BY AwaitedAre DEF ReadPicture, OneTimeInv, OneTimeTyped
  <1>2. OneTimeTyped' /\ ServerOK'
    BY <1>1, FetchFields DEF OneTimeInv, OneTimeTyped, ServerOK, server
  <1>3. ASSUME ~overtook PROVE ControlsOK'
    <2>1. ControlsOK /\ FetchOK(c) /\ \A b \in Awaited : b = c
      BY <1>1, <1>3, AwaitedAre DEF ControlsOK, Alone
    <2>2. Awaited' = {}
      BY <1>1, <2>1 DEF Awaited
    <2>3. c.kind = "enable" \/ c.kind = "show"
      BY <1>1, <2>1 DEF FetchOK, Pictures
    <2>4. Settled' /\ Ticked'
      BY <1>1, <2>1, <2>2, <2>3 DEF ControlsOK, FetchOK, FollowsStored, Settled, Ticked, server
    <2>5. InView'
      <3>1. expired' = PageTicks /\ cookie'.key = c.key /\ cookie'.ticks = ServerTicks /\ PageTicks + 1 <= ServerTicks - 1
        BY <1>1, <2>1 DEF FetchOK
      <3>2. Lasting(c.key, c.code, PageTicks + 1)'
        BY <1>1, <2>1 DEF FetchOK, Lasting, server, OneTimeInv, OneTimeTyped
      <3> QED BY <1>1, <3>1, <3>2 DEF InView
    <2> QED BY <2>2, <2>4, <2>5 DEF ControlsOK, Alone
  <1> QED BY <1>1, <1>2, <1>3 DEF OneTimeInv

LEMMA ReadAnswerKeeps == ASSUME OneTimeInv, NEW c \in fetches, ReadAnswer(c) PROVE OneTimeInv'
  <1>1. /\ c \in Fetches /\ c.at = "served" /\ ~(c.kind \in Pictures /\ c.ok) /\ fetches' = fetches \ {c}
        /\ UNCHANGED <<otp, qrcode, expired, cookie, server, overtook, unheard, pressed>> /\ c \in Awaited
    BY AwaitedAre DEF ReadAnswer, Pictures, OneTimeInv, OneTimeTyped
  <1>2. \/ c.kind = "verify" /\ c.ok /\ enabled' = "true" /\ checkbox' = [checkbox EXCEPT !.enabled = FALSE]
        \/ c.kind = "revoke" /\ c.ok /\ enabled' = "false" /\ checkbox' = [checked |-> FALSE, enabled |-> TRUE]
        \/ ~c.ok /\ Caught(c)
    <2>1. c.kind \in {"enable", "show", "verify", "revoke"} /\ c.ok \in BOOLEAN
      BY <1>1, FetchFields DEF Fetched
    <2> QED BY <1>1, <2>1 DEF ReadAnswer, Accepted, Pictures
  <1>3. checkbox' \in [checked : BOOLEAN, enabled : BOOLEAN] /\ enabled' \in {"false", "pending", "true"}
    <2>2. checkbox \in [checked : BOOLEAN, enabled : BOOLEAN]
      BY DEF OneTimeInv, OneTimeTyped
    <2>3. CASE Caught(c)
      BY <2>3, CaughtTypes
    <2>4. CASE enabled' = "true" /\ checkbox' = [checkbox EXCEPT !.enabled = FALSE]
      BY <2>2, <2>4
    <2>5. CASE enabled' = "false" /\ checkbox' = [checked |-> FALSE, enabled |-> TRUE]
      BY <2>5
    <2> QED BY <1>2, <2>3, <2>4, <2>5
  <1>4. OneTimeTyped' /\ ServerOK'
    BY <1>1, <1>3 DEF OneTimeInv, OneTimeTyped, ServerOK, server
  <1>5. Awaited' = Awaited \ {c}
    BY <1>1 DEF Awaited
  <1>6. CASE ~c.ok /\ Caught(c)
    BY <1>1, <1>4, <1>5, <1>6, CaughtKeeps
  <1>7. ASSUME ~overtook, c.kind \in {"verify", "revoke"}, c.ok PROVE ControlsOK'
    <2>1. ControlsOK /\ FetchOK(c) /\ Awaited' = {} /\ (~unheard => FollowsStored(c))
      BY <1>1, <1>5, <1>7, AwaitedAre DEF ControlsOK, Alone, Settled
    <2>2. Settled'
      BY <1>1, <1>2, <1>7, <2>1 DEF Settled, FollowsStored, Caught, server
    <2>3. Ticked' /\ InView'
      BY <1>1, <1>2, <1>7, <2>1 DEF ControlsOK, Ticked, InView, Lasting, server
    <2> QED BY <2>1, <2>2, <2>3 DEF ControlsOK, Alone
  <1> QED BY <1>1, <1>2, <1>4, <1>6, <1>7 DEF OneTimeInv

LEMMA ExpireKeeps == ASSUME OneTimeInv, Expire PROVE OneTimeInv'
  <1> USE OneTimeAssumption DEF Expire
  <1>1. OneTimeTyped' /\ ServerOK'
    BY DEF OneTimeInv, OneTimeTyped, ServerOK, server
  <1>2. ASSUME ~overtook PROVE ControlsOK'
    <2>1. ControlsOK /\ Awaited' = Awaited
      BY <1>2 DEF OneTimeInv, Awaited
    <2>2. \A c \in Awaited : FetchOK(c)'
      BY <2>1 DEF ControlsOK, FetchOK, Lasting, Pictures, server
    <2>3. Settled'
      BY <2>1 DEF ControlsOK, Settled, FollowsStored, FetchOK, server
    <2> QED BY <2>1, <2>2, <2>3 DEF ControlsOK, Alone, Ticked, InView, Lasting, server
  <1> QED BY <1>1, <1>2 DEF OneTimeInv

\* A minute ends what is shown no later than what the server keeps for it.
LEMMA MinuteKeeps == ASSUME OneTimeInv, Minute PROVE OneTimeInv'
  <1> USE OneTimeAssumption
  <1>1. /\ expired # 0 /\ \A c \in fetches : c.at # "read" /\ ~c.late
        /\ expired' = IF expired = None THEN None ELSE expired - 1
        /\ fetches' = {[c EXCEPT !.late = (c.at = "served")] : c \in fetches}
        /\ UNCHANGED <<enabled, otp, checkbox, qrcode, stored, overtook, unheard, pressed>>
    BY DEF Minute
  <1>2. cookie' \in [key : Keys \cup {None}, ticks : 0..ServerTicks]
        /\ (cookie.ticks > 1 => cookie'.key = cookie.key /\ cookie'.ticks = cookie.ticks - 1)
    <2>1. CASE cookie.ticks <= 1
      BY <2>1 DEF Minute, NoCookie, OneTimeInv, OneTimeTyped
    <2>2. CASE cookie.ticks > 1
      <3>1. PICK n \in 0..ServerTicks : n = cookie.ticks - 1
        BY <2>2 DEF OneTimeInv, OneTimeTyped
      <3>2. cookie' = [cookie EXCEPT !.ticks = n]
        BY <2>2, <3>1 DEF Minute, OneTimeInv, OneTimeTyped
      <3> QED BY <3>1, <3>2 DEF OneTimeInv, OneTimeTyped
    <2> QED BY <2>1, <2>2 DEF OneTimeInv, OneTimeTyped
  <1>3. ASSUME NEW k \in Keys
        PROVE  /\ secrets'[k] \in [secret : Keys \cup {None}, ticks : 0..ServerTicks]
               /\ secrets[k].ticks > 1 => secrets'[k].secret = secrets[k].secret /\ secrets'[k].ticks = secrets[k].ticks - 1
               /\ secrets[k].ticks <= 1 => secrets'[k].ticks = 0
    <2>1. PICK kept \in [secret : Keys \cup {None}, ticks : 0..ServerTicks] : kept = secrets[k]
      BY DEF OneTimeInv, OneTimeTyped
    <2>2. secrets'[k] = IF kept.ticks <= 1 THEN NoSecret ELSE [kept EXCEPT !.ticks = @ - 1]
      BY <2>1 DEF Minute
    <2>3. CASE kept.ticks <= 1
      BY <2>1, <2>2, <2>3 DEF NoSecret
    <2>4. CASE kept.ticks > 1
      <3>1. PICK n \in 0..ServerTicks : n = kept.ticks - 1
        BY <2>4
      <3>2. secrets'[k] = [kept EXCEPT !.ticks = n]
        BY <2>2, <2>4, <3>1
      <3> QED BY <2>1, <2>4, <3>1, <3>2
    <2> QED BY <2>3, <2>4
  <1>4. secrets' \in [Keys -> [secret : Keys \cup {None}, ticks : 0..ServerTicks]]
    <2>1. PICK f : f = [k \in Keys |-> secrets'[k]]
      OBVIOUS
    <2>2. secrets' = f
      BY <2>1 DEF Minute
    <2> QED BY <1>3, <2>1, <2>2
  <1>5. ASSUME NEW d \in fetches'
        PROVE  \E c \in fetches : /\ d \in Fetches /\ d.at = c.at /\ d.kind = c.kind /\ d.key = c.key /\ d.code = c.code
                                  /\ d.ok = c.ok /\ d.working = c.working /\ (d.late <=> c.at = "served")
                                  /\ d = [c EXCEPT !.late = (c.at = "served")]
    <2>1. PICK c \in fetches : d = [c EXCEPT !.late = (c.at = "served")]
      BY <1>1
    <2>2. c \in Fetches
      BY DEF OneTimeInv, OneTimeTyped
    <2> QED BY <2>1, <2>2 DEF Fetches
  <1>6. OneTimeTyped'
    BY <1>1, <1>2, <1>4, <1>5 DEF OneTimeInv, OneTimeTyped
  <1>7. ServerOK'
    BY <1>3, <1>5, PlacesNamed DEF OneTimeInv, OneTimeTyped, ServerOK
  <1>8. ASSUME ~overtook PROVE ControlsOK'
    <2>0. ControlsOK
      BY <1>8 DEF OneTimeInv
    <2>a. ASSUME NEW d \in Awaited'
          PROVE  \E c \in Awaited : /\ d \in Fetches /\ d.at = c.at /\ d.kind = c.kind /\ d.key = c.key /\ d.code = c.code
                                    /\ d.ok = c.ok /\ (d.late <=> c.at = "served")
                                    /\ d = [c EXCEPT !.late = (c.at = "served")]
      BY <1>5 DEF Awaited
    <2>1. Alone'
      BY <2>a, <2>0 DEF ControlsOK, Alone
    <2>2. ASSUME NEW d \in Awaited' PROVE FetchOK(d)' /\ \E c \in Awaited : FollowsStored(c) => FollowsStored(d)'
      <3>1. PICK c \in Awaited :
                 /\ d \in Fetches /\ d.at = c.at /\ d.kind = c.kind /\ d.key = c.key /\ d.code = c.code
                 /\ d.ok = c.ok /\ (d.late <=> c.at = "served")
        BY <2>a
      <3>2. FetchOK(c) /\ c.at # "read" /\ ~c.late
        BY <1>1, <2>0 DEF ControlsOK, Awaited
      <3>3. Lasting(c.key, c.code, ServerTicks) => Lasting(d.key, d.code, ServerTicks - 1)'
        <4>1. ServerTicks > 1
          OBVIOUS
        <4>2. SUFFICES ASSUME Lasting(c.key, c.code, ServerTicks) PROVE Lasting(d.key, d.code, ServerTicks - 1)'
          OBVIOUS
        <4>3. c.key \in Keys /\ c.code \in Keys /\ secrets[c.key].secret = c.code /\ secrets[c.key].ticks >= ServerTicks
          BY <4>2 DEF Lasting
        <4>4. secrets[c.key].ticks \in 0..ServerTicks
          BY <4>3 DEF OneTimeInv, OneTimeTyped
        <4> QED BY <1>3, <3>1, <4>1, <4>3, <4>4 DEF Lasting
      <3>4. FetchOK(d)'
        BY <1>1, <3>1, <3>2, <3>3, PlacesNamed DEF FetchOK
      <3>5. FollowsStored(c) => FollowsStored(d)'
        BY <1>1, <3>1 DEF FollowsStored
      <3> QED BY <3>4, <3>5
    <2>3. Settled' /\ Ticked'
      <3>1. ASSUME NEW c \in Awaited PROVE [c EXCEPT !.late = (c.at = "served")] \in Awaited'
        <4>1. c \in Fetches /\ c \in fetches
          BY AwaitedAre
        <4>2. PICK d : d = [c EXCEPT !.late = (c.at = "served")]
          OBVIOUS
        <4>3. d \in fetches'
          BY <1>1, <4>1, <4>2, Zenon
        <4>4. d.working = c.working
          BY <4>1, <4>2 DEF Fetches
        <4> QED BY <4>2, <4>3, <4>4 DEF Awaited
      <3>2. Awaited' = {} => Awaited = {}
        BY <3>1
      <3>3. Settled'
        BY <1>1, <2>0, <2>2, <3>2 DEF ControlsOK, Settled
      <3> QED BY <1>1, <2>0, <3>3 DEF ControlsOK, Ticked
    <2>4. InView'
      <3> SUFFICES ASSUME enabled = "pending", otp = "show"
                   PROVE  expired' \in 0..PageTicks /\ Lasting(cookie.key, qrcode, expired + 1)' /\ cookie'.ticks > expired'
        BY <1>1 DEF InView
      <3>1. expired \in 1..PageTicks /\ Lasting(cookie.key, qrcode, expired + 1) /\ cookie.ticks > expired
        BY <1>1, <2>0 DEF ControlsOK, InView
      <3>2. cookie'.key = cookie.key /\ cookie'.ticks = cookie.ticks - 1 /\ cookie.ticks \in Nat
        BY <1>2, <3>1 DEF OneTimeInv, OneTimeTyped
      <3>3. expired' = expired - 1 /\ expired' + 1 = expired
        BY <1>1, <3>1
      <3>4. PICK k \in Keys : k = cookie.key
        BY <3>1 DEF Lasting
      <3>5. secrets[k].ticks \in Nat /\ secrets[k].ticks >= expired + 1 /\ secrets[k].secret = qrcode /\ qrcode \in Keys
        BY <3>1, <3>4 DEF Lasting, OneTimeInv, OneTimeTyped
      <3>6. secrets'[k].secret = qrcode /\ secrets'[k].ticks >= expired
        BY <1>3, <3>1, <3>5
      <3> QED BY <1>1, <3>1, <3>2, <3>3, <3>4, <3>5, <3>6 DEF Lasting
    <2> QED BY <2>1, <2>2, <2>3, <2>4 DEF ControlsOK
  <1> QED BY <1>1, <1>6, <1>7, <1>8 DEF OneTimeInv

-----------------------------------------------------------------------------
LEMMA OneTimeStep == ASSUME OneTimeInv, [OneTimeNext]_oneTimeVars PROVE OneTimeInv'
  <1>1. CASE UNCHANGED oneTimeVars
    <2>1. Awaited' = Awaited /\ OneTimeTyped' /\ ServerOK'
      BY <1>1 DEF oneTimeVars, fields, server, OneTimeInv, OneTimeTyped, ServerOK, Awaited
    <2>2. ControlsOK => ControlsOK'
      BY <1>1, <2>1
         DEF oneTimeVars, fields, server, ControlsOK, Alone, FetchOK, Settled, FollowsStored, Ticked, InView, Lasting
    <2> QED BY <1>1, <2>1, <2>2 DEF oneTimeVars, OneTimeInv
  <1>2. ASSUME NEW c \in fetches, Serve(c) PROVE OneTimeInv'
    BY <1>2, ServeSecretKeeps, ServeVerifyKeeps, ServeRevokeKeeps, RefuseKeeps DEF Serve
  <1> QED BY <1>1, <1>2, CheckKeeps, ShowKeeps, HideKeeps, SubmitCodeKeeps, RevokeKeeps, GiveUpKeeps,
             AnswerLostKeeps, ReadHeadersKeeps, ReadPictureKeeps, ReadAnswerKeeps, ExpireKeeps, MinuteKeeps
          DEF OneTimeNext

LEMMA OneTimeInvTypes == OneTimeInv => OneTimeTypeOK
  BY FetchFields DEF OneTimeInv, OneTimeTyped, OneTimeTypeOK

\* The types: the controls of the password page, the secrets of the server and the requests
\* (password.js, otp.go).
THEOREM OneTimeIsTyped == OneTimeSpec => []OneTimeTypeOK
  <1> QED BY StartsUnused, OneTimeStep, OneTimeInvTypes, PTL DEF OneTimeSpec

\* getOTP(), onVerifyOTP(), onRevokeOTP(), otp.go: the secret in view is hidden in time, and
\* until then it is the one the server accepts a code of, also when requests fail, answers are
\* lost or the server works on after 'timeout', unless the page was used while it waited for an
\* answer. It says 'enabled' when and only when a secret is stored, unless moreover the page
\* was not told of what was last stored or removed. For any number of secrets and requests.
THEOREM ThePageKnowsItsSecret == OneTimeSpec => []SecretsAgree
  <1>1. OneTimeInv => SecretsAgree
    <2> SUFFICES ASSUME OneTimeInv, ~overtook PROVE SecretsAgree
      BY DEF SecretsAgree, PendingTimesOut, ShownIsAccepted, EnabledIsStored
    <2>1. Settled /\ InView
      BY DEF OneTimeInv, ControlsOK
    <2>2. PendingTimesOut
      BY <2>1, OneTimeAssumption DEF PendingTimesOut, Shown, InView
    <2>3. ShownIsAccepted
      BY <2>1, OneTimeAssumption DEF ShownIsAccepted, Shown, InView, Lasting, Kept, OneTimeInv, OneTimeTyped
    <2>4. EnabledIsStored
      BY <2>1 DEF EnabledIsStored, Settled
    <2> QED BY <2>2, <2>3, <2>4 DEF SecretsAgree
  <1> QED BY StartsUnused, OneTimeStep, <1>1, PTL DEF OneTimeSpec

-----------------------------------------------------------------------------
(* MCAdmin: one part takes each step and the others rest, so that the      *)
(* invariant of each still holds.                                          *)

LEMMA EachStarts ==
    AdminInit => AccountsInit /\ SignInInit /\ OneTimeInit /\ PasswordInit /\ MaintenanceInit /\ FeedInit
BY DEF AdminInit

LEMMA EachRuns ==
    [AdminNext]_adminVars =>
        /\ [AccountsNext]_accountVars /\ [SignInNext]_signInVars /\ [OneTimeNext]_oneTimeVars
        /\ [PasswordNext]_passwordVars /\ [MaintenanceNext]_maintenanceVars /\ [FeedNext]_feedVars
BY DEF AdminNext, adminVars

AdminInv ==
    /\ AccountsInv /\ SignInInv /\ OneTimeInv /\ PasswordInv
    /\ ImportOK /\ BackupsOK /\ ContentsOK /\ PageOK
    /\ FeedInv

LEMMA AdminInvStarts == AdminInit => AdminInv
BY EachStarts, AccountsInvInit, StartsWell, StartsUnused, PasswordInvInit, ImportInit, BackupsInit, ContentsInit, PageInit,
   FeedInits DEF AdminInv

LEMMA AdminInvStep == AdminInv /\ [AdminNext]_adminVars => AdminInv'
BY EachRuns, AccountsInvStep, SignInStep, OneTimeStep, PasswordInvStep, ImportStep, BackupsStep, ContentsStep, PageStep,
   FeedStep DEF AdminInv

\* Accounts, sessions, secrets, passwords, imports, backups and lists keep their types together, and the list of the
\* backups has those that were reported.
THEOREM AdminIsTyped == AdminSpec => []AdminTypeOK
<1>1. AdminInv => AdminTypeOK
  BY AccountsInvTypes, SignInInvTypes, OneTimeInvTypes, PasswordInvTypes, MaintenanceInvTypes, BackupsOKLists, FeedIsTyped
     DEF AdminInv, AdminTypeOK
<1> QED  BY <1>1, AdminInvStarts, AdminInvStep, PTL DEF AdminSpec

\* The lists of events and logs, within MCAdmin.
THEOREM TheFeedIsComplete == AdminSpec => FeedIsComplete
<1>1. AdminInv => (at = "feed" => NoHoles /\ MoreWhileOlder)
  BY NothingPassedOver, OlderCanBeAskedFor DEF AdminInv
<1>2. AdminInv /\ [AdminNext]_adminVars => [RowsTurnInOrder]_feedVars
  BY EachRuns, RowsStep DEF AdminInv
<1> QED  BY <1>1, <1>2, AdminInvStarts, AdminInvStep, PTL DEF AdminSpec, FeedIsComplete, RowsInOrder, RowsTurnInOrder

=============================================================================
