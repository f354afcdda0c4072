----------------------------- MODULE TableProofs -----------------------------
(***************************************************************************)
(* Proofs about Table, for any records, texts and requests in flight: its  *)
(* types, that no value is left unmarked, and that it implements Drafts;   *)
(* about the fields of CardDates and Combobox, the OIDs of Objects; and    *)
(* that in MCTables, which has them all, fields agree with the server.     *)
(***************************************************************************)
EXTENDS MCTables, ListProofs, FiniteSetTheorems

-----------------------------------------------------------------------------
(* Sequences. *)

\* Where the element at j was before the one at i was taken out.
Before(i, j) == IF j < i THEN j ELSE j + 1

\* What is left of a sequence is its other elements, each once.
LEMMA RemoveAtKeeps ==
    ASSUME NEW S, NEW s \in Seq(S), NEW i \in DOMAIN s
    PROVE  /\ RemoveAt(s, i) \in Seq(S)
           /\ \A j \in DOMAIN RemoveAt(s, i) :
                  Before(i, j) \in DOMAIN s /\ Before(i, j) # i /\ RemoveAt(s, i)[j] = s[Before(i, j)]
           /\ \A j, k \in DOMAIN RemoveAt(s, i) : j # k => Before(i, j) # Before(i, k)
           /\ \A k \in DOMAIN s : k # i => \E j \in DOMAIN RemoveAt(s, i) : RemoveAt(s, i)[j] = s[k]
<1> DEFINE front == SubSeq(s, 1, i - 1)
           back == SubSeq(s, i + 1, Len(s))
           left == RemoveAt(s, i)
<1>1. Len(s) \in Nat /\ i \in 1 .. Len(s) /\ DOMAIN s = 1 .. Len(s) /\ \A k \in 1 .. Len(s) : s[k] \in S
  BY LenProperties, ElementOfSeq
<1>2. front \in Seq(S) /\ Len(front) = i - 1 /\ \A k \in 1 .. i - 1 : front[k] = s[k]
  BY <1>1, SubSeqProperties
<1>3. back \in Seq(S) /\ Len(back) = Len(s) - i /\ \A k \in 1 .. Len(s) - i : back[k] = s[i + k]
  BY <1>1, SubSeqProperties
<1>4. left = front \o back
  BY DEF RemoveAt
<1> HIDE DEF front, back, left
<1>5. /\ left \in Seq(S) /\ Len(left) = Len(s) - 1
      /\ \A k \in 1 .. Len(s) - 1 : left[k] = IF k <= i - 1 THEN front[k] ELSE back[k - (i - 1)]
  <2>1. /\ left \in Seq(S) /\ Len(left) = Len(front) + Len(back)
        /\ \A k \in 1 .. Len(front) + Len(back) : left[k] = IF k <= Len(front) THEN front[k] ELSE back[k - Len(front)]
    BY <1>2, <1>3, <1>4, ConcatProperties
  <2>2. Len(front) + Len(back) = Len(s) - 1 /\ Len(front) = i - 1
    BY <1>1, <1>2, <1>3
  <2> QED  BY <2>1, <2>2
<1>6. DOMAIN left = 1 .. Len(s) - 1
  BY <1>5, LenProperties
<1>7. \A k \in DOMAIN left : Before(i, k) \in DOMAIN s /\ Before(i, k) # i /\ left[k] = s[Before(i, k)]
  <2> SUFFICES ASSUME NEW k \in 1 .. Len(s) - 1
               PROVE  Before(i, k) \in 1 .. Len(s) /\ Before(i, k) # i /\ left[k] = s[Before(i, k)]
    BY <1>1, <1>6
  <2>1. CASE k < i
    <3>1. left[k] = front[k] /\ front[k] = s[k]
      BY <2>1, <1>1, <1>2, <1>5
    <3> QED  BY <2>1, <3>1, <1>1 DEF Before
  <2>2. CASE ~(k < i)
    <3>1. left[k] = back[k - (i - 1)] /\ k - (i - 1) \in 1 .. Len(s) - i /\ i + (k - (i - 1)) = k + 1
      BY <2>2, <1>1, <1>5
    <3>2. back[k - (i - 1)] = s[k + 1]
      BY <3>1, <1>3
    <3> QED  BY <2>2, <3>1, <3>2, <1>1 DEF Before
  <2> QED  BY <2>1, <2>2
<1>8. \A j, k \in DOMAIN left : j # k => Before(i, j) # Before(i, k)
  BY <1>1, <1>6 DEF Before
<1>9. \A k \in DOMAIN s : k # i => \E j \in DOMAIN left : left[j] = s[k]
  <2> SUFFICES ASSUME NEW k \in 1 .. Len(s), k # i PROVE \E j \in DOMAIN left : left[j] = s[k]
    BY <1>1
  <2> DEFINE j == IF k < i THEN k ELSE k - 1
  <2>1. j \in 1 .. Len(s) - 1 /\ Before(i, j) = k
    BY <1>1 DEF Before
  <2> HIDE DEF j
  <2> QED  BY <2>1, <1>6, <1>7
<1> QED  BY <1>5, <1>7, <1>8, <1>9 DEF left

-----------------------------------------------------------------------------
(* The fields of a row. *)

Signs == {"modified", "pending", "conflict"}

LEMMA CellIs == Cell = [original : Texts, value : Texts, display : Texts, marks : SUBSET Signs, new : BOOLEAN]
  BY DEF Cell, Signs

\* A mark is put on or taken off, and nothing else changes.
LEMMA WithKeeps ==
    ASSUME NEW cell \in Cell, NEW mark \in Signs, NEW on \in BOOLEAN
    PROVE  /\ With(cell, mark, on) \in Cell
           /\ With(cell, mark, on).original = cell.original /\ With(cell, mark, on).value = cell.value
           /\ With(cell, mark, on).display = cell.display /\ With(cell, mark, on).new = cell.new
           /\ \A m \in Signs : m \in With(cell, mark, on).marks <=> IF m = mark THEN on ELSE m \in cell.marks
<1> DEFINE ms == IF on THEN cell.marks \cup {mark} ELSE cell.marks \ {mark}
           c == [cell EXCEPT !.marks = ms]
<1>1. With(cell, mark, on) = c
  BY DEF With
<1>2. ms \in SUBSET Signs /\ \A m \in Signs : m \in ms <=> IF m = mark THEN on ELSE m \in cell.marks
  BY CellIs
<1> HIDE DEF ms
<1>3. c \in Cell /\ c.original = cell.original /\ c.value = cell.value /\ c.display = cell.display
      /\ c.new = cell.new /\ c.marks = ms
  BY <1>2, CellIs
<1> QED  BY <1>1, <1>2, <1>3

LEMMA ConflictKeeps ==
    ASSUME NEW cell \in Cell, NEW on \in BOOLEAN
    PROVE  LET c == With(cell, "conflict", on) IN
           /\ c \in Cell /\ c.original = cell.original /\ c.value = cell.value /\ c.display = cell.display
           /\ c.new = cell.new /\ ("modified" \in c.marks <=> "modified" \in cell.marks)
           /\ "pending" \in c.marks <=> "pending" \in cell.marks
<1>1. "conflict" \in Signs /\ "modified" \in Signs /\ "pending" \in Signs
  BY DEF Signs
<1> QED  BY <1>1, WithKeeps

LEMMA ModifiedKeeps ==
    ASSUME NEW cell \in Cell, NEW on \in BOOLEAN
    PROVE  LET c == With(cell, "modified", on) IN
           /\ c \in Cell /\ c.original = cell.original /\ c.value = cell.value /\ c.display = cell.display
           /\ c.new = cell.new /\ ("modified" \in c.marks <=> on)
           /\ "pending" \in c.marks <=> "pending" \in cell.marks
<1>1. "modified" \in Signs /\ "pending" \in Signs
  BY DEF Signs
<1> QED  BY <1>1, WithKeeps

LEMMA PendingKeeps ==
    ASSUME NEW cell \in Cell, NEW on \in BOOLEAN
    PROVE  LET c == With(cell, "pending", on) IN
           /\ c \in Cell /\ c.original = cell.original /\ c.value = cell.value /\ c.display = cell.display
           /\ c.new = cell.new /\ ("modified" \in c.marks <=> "modified" \in cell.marks)
           /\ "pending" \in c.marks <=> on
<1>1. "modified" \in Signs /\ "pending" \in Signs
  BY DEF Signs
<1> QED  BY <1>1, WithKeeps

\* set(): the field is marked as modified just when it differs.
LEMMA SetKeeps ==
    ASSUME NEW cell \in Cell, NEW v \in Texts
    PROVE  /\ Set(cell, v) \in Cell
           /\ Set(cell, v).original = cell.original /\ Set(cell, v).value = v
           /\ Set(cell, v).display = cell.display /\ Set(cell, v).new = cell.new
           /\ "modified" \in Set(cell, v).marks <=> v # cell.original
           /\ "pending" \in Set(cell, v).marks <=> "pending" \in cell.marks
<1> DEFINE c == [cell EXCEPT !.value = v]
<1>1. c \in Cell /\ c.original = cell.original /\ c.value = v /\ c.display = cell.display
      /\ c.new = cell.new /\ c.marks = cell.marks
  BY CellIs
<1> DEFINE on == v # cell.original
           d == With(c, "modified", on)
<1>2. Set(cell, v) = d
  BY DEF Set
<1>3. on \in BOOLEAN /\ (on <=> v # cell.original)
  OBVIOUS
<1> HIDE DEF c, on
<1>4. /\ d \in Cell /\ d.original = c.original /\ d.value = c.value /\ d.display = c.display /\ d.new = c.new
      /\ "modified" \in d.marks <=> on
      /\ "pending" \in d.marks <=> "pending" \in c.marks
  BY <1>1, <1>3, ModifiedKeeps
<1> HIDE DEF d
<1> QED  BY <1>1, <1>2, <1>3, <1>4

\* Revert of the displayed value.
LEMMA RevertKeeps ==
    ASSUME NEW cell \in Cell
    PROVE  /\ Revert(cell) \in Cell
           /\ Revert(cell).original = cell.original /\ Revert(cell).value = cell.original
           /\ Revert(cell).new = cell.new
           /\ "pending" \in Revert(cell).marks <=> "pending" \in cell.marks
<1> DEFINE c == [cell EXCEPT !.display = cell.original]
<1>1. c \in Cell /\ c.original = cell.original /\ c.new = cell.new /\ c.marks = cell.marks /\ cell.original \in Texts
  BY CellIs
<1>2. Revert(cell) = Set(c, cell.original)
  BY DEF Revert
<1> HIDE DEF c
<1> QED  BY <1>1, <1>2, SetKeeps

\* update(): the value of a field that is modified or pending is the user's, and one that has the
\* focus keeps what it displays.
LEMMA UpdateKeeps ==
    ASSUME NEW cell \in Cell, NEW v \in Texts, NEW inFocus \in BOOLEAN
    PROVE  LET c == UpdateCell(cell, v, inFocus) IN
           /\ c \in Cell /\ c.original = v /\ c.new = cell.new
           /\ "pending" \in c.marks <=> "pending" \in cell.marks
           /\ inFocus => c.display = cell.display
           /\ "modified" \in c.marks <=> "modified" \in cell.marks /\ cell.value # v
           /\ "modified" \in cell.marks \/ "pending" \in cell.marks => c.value = cell.value
           /\ ~("modified" \in cell.marks \/ "pending" \in cell.marks) => c.value = v
<1> DEFINE new == [cell EXCEPT !.original = v]
           clash == cell.original # v /\ cell.value # v
           shown == [new EXCEPT !.display = IF inFocus THEN new.display ELSE v]
           c == UpdateCell(cell, v, inFocus)
<1>1. new \in Cell /\ new.original = v /\ new.value = cell.value /\ new.display = cell.display
      /\ new.new = cell.new /\ new.marks = cell.marks
  BY CellIs
<1>2. shown \in Cell /\ shown.original = v /\ shown.value = cell.value /\ (inFocus => shown.display = cell.display)
      /\ shown.new = cell.new /\ shown.marks = cell.marks
  <2> HIDE DEF new
  <2>1. new.display \in Texts
    BY <1>1, CellIs
  <2>2. CASE inFocus
    BY <1>1, <2>1, <2>2, CellIs
  <2>3. CASE ~inFocus
    BY <1>1, <2>3, CellIs
  <2> QED  BY <2>2, <2>3
<1>3. /\ "modified" \in cell.marks /\ cell.value = v => c = With(With(new, "conflict", FALSE), "modified", FALSE)
      /\ "modified" \in cell.marks /\ cell.value # v => c = With(new, "conflict", clash)
      /\ "modified" \notin cell.marks /\ "pending" \in cell.marks => c = With(new, "conflict", clash)
      /\ "modified" \notin cell.marks /\ "pending" \notin cell.marks => c = Set(shown, v)
  BY DEF UpdateCell
<1>4. clash \in BOOLEAN
  OBVIOUS
<1> HIDE DEF new, clash, shown, c
<1>5. CASE "modified" \in cell.marks /\ cell.value = v
  <2> DEFINE b == With(new, "conflict", FALSE)
             a == With(b, "modified", FALSE)
  <2>1. /\ b \in Cell /\ b.original = v /\ b.value = cell.value /\ b.display = cell.display /\ b.new = cell.new
        /\ "pending" \in b.marks <=> "pending" \in cell.marks
    BY <1>1, ConflictKeeps
  <2> HIDE DEF b
  <2>2. /\ a \in Cell /\ a.original = v /\ a.value = cell.value /\ a.display = cell.display /\ a.new = cell.new
        /\ "modified" \notin a.marks /\ ("pending" \in a.marks <=> "pending" \in cell.marks)
    BY <2>1, ModifiedKeeps
  <2>3. c = a
    BY <1>3, <1>5 DEF b
  <2> HIDE DEF a
  <2> QED  BY <1>5, <2>2, <2>3 DEF c
<1>6. CASE ("modified" \in cell.marks /\ cell.value # v) \/ ("modified" \notin cell.marks /\ "pending" \in cell.marks)
  <2>1. c = With(new, "conflict", clash)
    BY <1>3, <1>6
  <2>2. /\ c \in Cell /\ c.original = v /\ c.value = cell.value /\ c.display = cell.display /\ c.new = cell.new
        /\ ("modified" \in c.marks <=> "modified" \in cell.marks) /\ ("pending" \in c.marks <=> "pending" \in cell.marks)
    BY <1>1, <1>4, <2>1, ConflictKeeps
  <2> QED  BY <1>6, <2>2 DEF c
<1>7. CASE "modified" \notin cell.marks /\ "pending" \notin cell.marks
  <2>1. c = Set(shown, v)
    BY <1>3, <1>7
  <2>2. /\ c \in Cell /\ c.original = v /\ c.value = v /\ (inFocus => c.display = cell.display) /\ c.new = cell.new
        /\ "modified" \notin c.marks /\ ("pending" \in c.marks <=> "pending" \in cell.marks)
    BY <1>2, <2>1, SetKeeps
  <2> QED  BY <1>7, <2>2 DEF c
<1> QED  BY <1>5, <1>6, <1>7

-----------------------------------------------------------------------------
(* The invariant. *)

Known == [text : Texts, new : BOOLEAN, deleted : BOOLEAN]
Entry == [state : States, text : Texts]
Listings == UNION {[R -> Entry] : R \in SUBSET Records}
Updates == UNION {[R -> Texts] : R \in SUBSET Records}
Answers == {Unserved} \cup {<<l>> : l \in Listings}
Stops == {"sent", "accepted", "refused", "answered"}

Post == [at : Stops, cells : SUBSET Records, updated : Updates, deleted : SUBSET Records,
         created : Records \cup {None}, answer : Answers]

Rows == [Records -> Cell \cup {None}]
Datas == [Records -> Known \cup {None}]
Focuses == [at : Records, shown : Texts] \cup {None}

RequestsOK == gets \in Seq(Answers) /\ posts \in Seq(Post)

\* There is a row just for each record of DB that is not deleted, and it was told of it.
RowsFollow ==
    \A r \in Records : (row[r] # None <=> alive(db[r])) /\ (row[r] # None => row[r].original = db[r].text)

\* A request that was accepted lists something.
AnswersOK == \A i \in DOMAIN posts : posts[i].at \in {"accepted", "answered"} => posts[i].answer # Unserved

\* The fields that a request will mark when it ends are on the page, and marked as pending.
CellsHeld ==
    \A i \in DOMAIN posts : \A r \in posts[i].cells : row[r] # None /\ (r \notin twice => "pending" \in row[r].marks)

\* Only what was submitted twice is in two requests.
SubmittedOnce == \A i, j \in DOMAIN posts : i # j => posts[i].cells \cap posts[j].cells \subseteq twice

TableInv ==
    /\ TypeOK /\ RequestsOK
    /\ RowsFollow /\ AnswersOK /\ CellsHeld /\ SubmittedOnce
    /\ UnmarkedIsStored

\* Once all rows are refreshed.
AllUnmarkedStored ==
    \A r \in Records : row[r] # None /\ row[r].marks \cap {"modified", "pending"} = {} => row[r].value = row[r].original

LEMMA NoneIsOther ==
    None \notin Records /\ None \notin Texts /\ None \notin Known /\ None \notin Cell /\ None \notin [at : Records, shown : Texts]
  BY TableAssumption DEF Known, Cell

LEMMA TypesAre ==
    ASSUME TypeOK
    PROVE  /\ server \in [Records -> Entry] /\ db \in Datas /\ row \in Rows /\ focus \in Focuses
           /\ focus # None => row[Focused] # None
           /\ hand \in {"user", "browser"}
  BY DEF TypeOK, Entry, Datas, Known, Rows, Focuses

LEMMA AreTypes ==
    ASSUME server \in [Records -> Entry], db \in Datas, row \in Rows, focus \in Focuses,
           focus # None => row[Focused] # None, hand \in {"user", "browser"}
    PROVE  TypeOK
  BY DEF TypeOK, Entry, Datas, Known, Rows, Focuses

\* The focus is nowhere or in a row.
LEMMA FocusedIs ==
    ASSUME TypeOK
    PROVE  (focus = None => Focused = None) /\ (focus # None => Focused \in Records /\ focus.at = Focused)
  BY TypesAre DEF Focused, Focuses

-----------------------------------------------------------------------------
(* What is read from an answer. *)

LEMMA ListingsAre ==
    ASSUME NEW l \in Listings
    PROVE  DOMAIN l \subseteq Records /\ \A r \in DOMAIN l : l[r].state \in States /\ l[r].text \in Texts
<1>1. PICK R \in SUBSET Records : l \in [R -> Entry]
  BY DEF Listings
<1> QED  BY <1>1 DEF Entry

\* The records and what is known of them stay typed.
LEMMA UpdatedTyped ==
    ASSUME TypeOK, NEW l \in Listings
    PROVE  Updated(l) \in Datas
<1> SUFFICES ASSUME NEW r \in Records PROVE Updated(l)[r] \in Known \cup {None}
  BY DEF Updated, Datas
<1>1. CASE r \notin DOMAIN l
  BY <1>1, TypesAre DEF Updated, Datas
<1>2. CASE r \in DOMAIN l /\ l[r].state = "deleted"
  <2>1. (IF db[r] = None THEN Blank ELSE db[r].text) \in Texts
    BY TypesAre, TableAssumption DEF Datas, Known
  <2>2. Updated(l)[r] = [text |-> IF db[r] = None THEN Blank ELSE db[r].text, new |-> FALSE, deleted |-> TRUE]
    BY <1>2 DEF Updated
  <2> QED  BY <2>1, <2>2 DEF Known
<1>3. CASE r \in DOMAIN l /\ l[r].state # "deleted"
  <2>1. l[r].text \in Texts
    BY <1>3, ListingsAre
  <2>2. Updated(l)[r] = [text |-> l[r].text, new |-> l[r].state = "new", deleted |-> FALSE]
    BY <1>3 DEF Updated
  <2> QED  BY <2>1, <2>2 DEF Known
<1> QED  BY <1>1, <1>2, <1>3

\* refreshed(): a row for each record that is there; what the user entered or is entering stays.
LEMMA RefreshedIs ==
    ASSUME TypeOK, NEW d \in Datas, NEW r \in Records
    PROVE  LET c == refreshed(d)[r] IN
           /\ ~alive(d[r]) => c = None
           /\ alive(d[r]) => c \in Cell /\ c.original = d[r].text
           /\ alive(d[r]) /\ row[r] = None =>
                  c.value = c.original /\ "modified" \notin c.marks /\ "pending" \notin c.marks
           /\ alive(d[r]) /\ row[r] # None =>
                  /\ "pending" \in c.marks <=> "pending" \in row[r].marks
                  /\ "modified" \in c.marks <=> "modified" \in row[r].marks /\ row[r].value # c.original
                  /\ "modified" \in row[r].marks \/ "pending" \in row[r].marks => c.value = row[r].value
                  /\ ~("modified" \in row[r].marks \/ "pending" \in row[r].marks) => c.value = c.original
                  /\ Focused = r => c.display = row[r].display
<1> DEFINE was == IF row[r] = None THEN EmptyRow ELSE row[r]
           inFocus == Focused = r
           u == UpdateCell(was, d[r].text, inFocus)
           c == [u EXCEPT !.new = d[r].new]
<1>1. CASE ~alive(d[r])
  BY <1>1 DEF refreshed
<1>2. CASE alive(d[r])
  <2>1. refreshed(d)[r] = c
    BY <1>2 DEF refreshed
  <2>2. d[r] \in Known
    BY <1>2 DEF alive, Datas
  <2>3. d[r].text \in Texts /\ d[r].new \in BOOLEAN
    BY <2>2 DEF Known
  <2>4. EmptyRow \in Cell /\ "modified" \notin EmptyRow.marks /\ "pending" \notin EmptyRow.marks
    BY TableAssumption DEF EmptyRow, Cell
  <2>5. was \in Cell /\ (row[r] # None => was = row[r]) /\ (row[r] = None => was = EmptyRow)
    BY <2>4, TypesAre DEF Rows
  <2>6. inFocus \in BOOLEAN /\ (inFocus <=> Focused = r)
    OBVIOUS
  <2> HIDE DEF was, inFocus
  <2>7. /\ u \in Cell /\ u.original = d[r].text
        /\ "pending" \in u.marks <=> "pending" \in was.marks
        /\ inFocus => u.display = was.display
        /\ "modified" \in u.marks <=> "modified" \in was.marks /\ was.value # d[r].text
        /\ "modified" \in was.marks \/ "pending" \in was.marks => u.value = was.value
        /\ ~("modified" \in was.marks \/ "pending" \in was.marks) => u.value = d[r].text
    BY <2>3, <2>5, <2>6, UpdateKeeps
  <2> HIDE DEF u
  <2>8. /\ c \in Cell /\ c.original = u.original /\ c.marks = u.marks /\ c.value = u.value /\ c.display = u.display
    BY <2>3, <2>7 DEF Cell
  <2> HIDE DEF c
  <2> QED  BY <1>2, <2>1, <2>4, <2>5, <2>6, <2>7, <2>8
<1> QED  BY <1>1, <1>2

LEMMA TrimmedFocus ==
    ASSUME TypeOK, row' \in Rows, focus' = IF focus # None /\ row'[Focused] = None THEN None ELSE focus
    PROVE  /\ focus' \in Focuses /\ (focus' # None => row'[Focused'] # None)
           /\ \A r \in Records : row'[r] # None => (Focused' = r <=> Focused = r)
<1>1. focus \in Focuses /\ None \notin Records
  BY TypesAre, NoneIsOther
<1>2. CASE focus # None /\ row'[Focused] = None
  <2>1. focus' = None /\ Focused' = None
    BY <1>2 DEF Focused
  <2> QED  BY <1>1, <1>2, <2>1 DEF Focuses
<1>3. CASE ~(focus # None /\ row'[Focused] = None)
  <2>1. focus' = focus /\ Focused' = Focused
    BY <1>3 DEF Focused
  <2> QED  BY <1>1, <1>3, <2>1
<1> QED  BY <1>2, <1>3

\* All rows are refreshed from DB, and the elements of those that are gone are out of the page.
LEMMA TrimmedKeeps ==
    ASSUME TypeOK, db' \in Datas, Trimmed(refreshed(db'))
    PROVE  /\ row' \in Rows /\ focus' \in Focuses /\ (focus' # None => row'[Focused'] # None)
           /\ RowsFollow' /\ AllUnmarkedStored'
           /\ \A r \in Records : row'[r] # None => (Focused' = r <=> Focused = r)
           /\ \A r \in Records : row[r] # None /\ row'[r] # None /\ "pending" \in row[r].marks => "pending" \in row'[r].marks
<1>1. row' = refreshed(db') /\ focus' = IF focus # None /\ row'[Focused] = None THEN None ELSE focus
  BY DEF Trimmed
<1>2. \A r \in Records : refreshed(db')[r] \in Cell \cup {None}
  BY RefreshedIs
<1>3. row' \in Rows
  BY <1>1, <1>2 DEF refreshed, Rows
<1>4. RowsFollow'
  <2> SUFFICES ASSUME NEW r \in Records
               PROVE  (row'[r] # None <=> alive(db'[r])) /\ (row'[r] # None => row'[r].original = db'[r].text)
    BY DEF RowsFollow, alive
  <2> QED  BY <1>1, RefreshedIs, NoneIsOther
<1>5. AllUnmarkedStored'
  <2> SUFFICES ASSUME NEW r \in Records, row'[r] # None, "modified" \notin row'[r].marks, "pending" \notin row'[r].marks
               PROVE  row'[r].value = row'[r].original
    BY DEF AllUnmarkedStored
  <2>1. alive(db'[r]) /\ row'[r] = refreshed(db')[r]
    BY <1>1, RefreshedIs
  <2> QED  BY <2>1, RefreshedIs
<1>6. \A r \in Records : row[r] # None /\ row'[r] # None /\ "pending" \in row[r].marks => "pending" \in row'[r].marks
  <2> SUFFICES ASSUME NEW r \in Records, row[r] # None, row'[r] # None, "pending" \in row[r].marks
               PROVE  "pending" \in row'[r].marks
    OBVIOUS
  <2>1. alive(db'[r]) /\ row'[r] = refreshed(db')[r]
    BY <1>1, RefreshedIs
  <2> QED  BY <2>1, RefreshedIs
<1> QED  BY <1>1, <1>3, <1>4, <1>5, <1>6, TrimmedFocus

-----------------------------------------------------------------------------
(* The requests in flight. *)

LEMMA IsSeq == ASSUME NEW S, NEW n \in Nat, NEW f \in [1 .. n -> S] PROVE f \in Seq(S)
  OBVIOUS

LEMMA PostIs ==
    ASSUME RequestsOK, NEW i \in DOMAIN posts
    PROVE  posts[i] \in Post /\ posts[i].cells \in SUBSET Records
<1>1. posts[i] \in Post
  BY ElementOfSeq, LenProperties DEF RequestsOK
<1> QED  BY <1>1 DEF Post

\* What is out of the page is forgotten by the requests, and nothing else.
LEMMA AttachedIs ==
    ASSUME NEW ps \in Seq(Post)
    PROVE  /\ Attached(ps) \in Seq(Post) /\ DOMAIN Attached(ps) = DOMAIN ps
           /\ \A i \in DOMAIN ps :
                  /\ Attached(ps)[i].cells = {r \in ps[i].cells : row'[r] # None}
                  /\ Attached(ps)[i].at = ps[i].at /\ Attached(ps)[i].answer = ps[i].answer
<1>1. Len(ps) \in Nat /\ DOMAIN ps = 1 .. Len(ps) /\ \A i \in DOMAIN ps : ps[i] \in Post
  BY LenProperties, ElementOfSeq
<1>2. ASSUME NEW i \in DOMAIN ps
      PROVE  /\ Attached(ps)[i] \in Post /\ Attached(ps)[i].cells = {r \in ps[i].cells : row'[r] # None}
             /\ Attached(ps)[i].at = ps[i].at /\ Attached(ps)[i].answer = ps[i].answer
  <2> DEFINE left == {r \in ps[i].cells : row'[r] # None}
             p == [ps[i] EXCEPT !.cells = left]
  <2>1. Attached(ps)[i] = p
    BY DEF Attached
  <2>2. left \in SUBSET Records /\ ps[i] \in Post
    BY <1>1 DEF Post
  <2> HIDE DEF left
  <2>3. p \in Post /\ p.cells = left /\ p.at = ps[i].at /\ p.answer = ps[i].answer
    BY <2>2 DEF Post
  <2> QED  BY <2>1, <2>3 DEF left
<1>3. Attached(ps) \in [1 .. Len(ps) -> Post]
  BY <1>1, <1>2 DEF Attached
<1> QED  BY <1>1, <1>2, <1>3, IsSeq

\* Requests that end, or forget some fields, one by one.
LEMMA FewerPosts ==
    ASSUME AnswersOK, SubmittedOnce, twice' = twice,
           NEW m \in [DOMAIN posts' -> DOMAIN posts],
           \A j \in DOMAIN posts' : /\ posts'[j].cells \subseteq posts[m[j]].cells
                                    /\ posts'[j].at = posts[m[j]].at /\ posts'[j].answer = posts[m[j]].answer,
           \A j, k \in DOMAIN posts' : j # k => m[j] # m[k]
    PROVE  AnswersOK' /\ SubmittedOnce'
<1>1. AnswersOK'
  BY DEF AnswersOK
<1>2. SubmittedOnce'
  BY DEF SubmittedOnce
<1> QED  BY <1>1, <1>2

\* As many requests as before.
LEMMA AttachedKeeps ==
    ASSUME TableInv, posts' = Attached(posts), twice' = twice,
           \A r \in Records : row[r] # None /\ row'[r] # None /\ "pending" \in row[r].marks => "pending" \in row'[r].marks
    PROVE  posts' \in Seq(Post) /\ AnswersOK' /\ SubmittedOnce' /\ CellsHeld'
<1>1. /\ posts' \in Seq(Post) /\ DOMAIN posts' = DOMAIN posts
      /\ \A i \in DOMAIN posts : /\ posts'[i].cells = {r \in posts[i].cells : row'[r] # None}
                                 /\ posts'[i].at = posts[i].at /\ posts'[i].answer = posts[i].answer
  BY AttachedIs DEF TableInv, RequestsOK
<1>2. AnswersOK' /\ SubmittedOnce'
  BY <1>1 DEF TableInv, AnswersOK, SubmittedOnce
<1>3. CellsHeld'
  <2> SUFFICES ASSUME NEW i \in DOMAIN posts, NEW r \in posts[i].cells, row'[r] # None
               PROVE  r \notin twice => "pending" \in row'[r].marks
    BY <1>1 DEF CellsHeld
  <2>1. r \in Records /\ row[r] # None /\ (r \notin twice => "pending" \in row[r].marks)
    BY PostIs DEF TableInv, CellsHeld
  <2> QED  BY <2>1
<1> QED  BY <1>1, <1>2, <1>3

\* One request fewer.
LEMMA RemovedKeeps ==
    ASSUME TableInv, NEW i \in DOMAIN posts, twice' = twice,
           \/ posts' = RemoveAt(posts, i)
           \/ posts' = Attached(RemoveAt(posts, i))
    PROVE  /\ posts' \in Seq(Post) /\ AnswersOK' /\ SubmittedOnce'
           /\ \A j \in DOMAIN posts' : \A r \in posts'[j].cells :
                  /\ r \in Records /\ row[r] # None /\ (r \notin twice => "pending" \in row[r].marks)
                  /\ r \in posts[i].cells => r \in twice
                  /\ posts' = Attached(RemoveAt(posts, i)) => row'[r] # None
           /\ \A k \in DOMAIN posts : k # i => \E j \in DOMAIN posts' : posts'[j].at = posts[k].at
<1> DEFINE left == RemoveAt(posts, i)
<1>1. /\ left \in Seq(Post)
      /\ \A j \in DOMAIN left : Before(i, j) \in DOMAIN posts /\ Before(i, j) # i /\ left[j] = posts[Before(i, j)]
      /\ \A j, k \in DOMAIN left : j # k => Before(i, j) # Before(i, k)
      /\ \A k \in DOMAIN posts : k # i => \E j \in DOMAIN left : left[j] = posts[k]
  BY RemoveAtKeeps DEF TableInv, RequestsOK
<1> HIDE DEF left
<1>2. /\ posts' \in Seq(Post) /\ DOMAIN posts' = DOMAIN left
      /\ \A j \in DOMAIN left : /\ posts'[j].cells \subseteq left[j].cells
                                /\ posts'[j].at = left[j].at /\ posts'[j].answer = left[j].answer
                                /\ posts' = Attached(left) => \A r \in posts'[j].cells : row'[r] # None
  <2>1. CASE posts' = Attached(left)
    BY <2>1, <1>1, AttachedIs
  <2>2. CASE posts' = left /\ posts' # Attached(left)
    BY <2>2, <1>1
  <2> QED  BY <2>1, <2>2 DEF left
<1> DEFINE m == [j \in DOMAIN posts' |-> Before(i, j)]
<1>3. m \in [DOMAIN posts' -> DOMAIN posts] /\ \A j \in DOMAIN posts' : m[j] = Before(i, j) /\ m[j] # i
  BY <1>1, <1>2
<1> HIDE DEF m
<1>4. AnswersOK' /\ SubmittedOnce'
  <2>1. \A j \in DOMAIN posts' : /\ posts'[j].cells \subseteq posts[m[j]].cells
                                 /\ posts'[j].at = posts[m[j]].at /\ posts'[j].answer = posts[m[j]].answer
    BY <1>1, <1>2, <1>3
  <2>2. \A j, k \in DOMAIN posts' : j # k => m[j] # m[k]
    BY <1>1, <1>2, <1>3
  <2>3. AnswersOK /\ SubmittedOnce
    BY DEF TableInv
  <2> QED  BY <1>3, <2>1, <2>2, <2>3, FewerPosts
<1>5. ASSUME NEW j \in DOMAIN posts', NEW r \in posts'[j].cells
      PROVE  /\ r \in Records /\ row[r] # None /\ (r \notin twice => "pending" \in row[r].marks)
             /\ r \in posts[i].cells => r \in twice
             /\ posts' = Attached(left) => row'[r] # None
  <2>1. Before(i, j) \in DOMAIN posts /\ Before(i, j) # i /\ r \in posts[Before(i, j)].cells
    BY <1>1, <1>2
  <2>2. r \in Records
    BY <2>1, PostIs DEF TableInv
  <2>3. row[r] # None /\ (r \notin twice => "pending" \in row[r].marks)
    BY <2>1 DEF TableInv, CellsHeld
  <2>4. r \in posts[i].cells => r \in twice
    BY <2>1 DEF TableInv, SubmittedOnce
  <2> QED  BY <1>2, <2>2, <2>3, <2>4
<1>6. ASSUME NEW k \in DOMAIN posts, k # i PROVE \E j \in DOMAIN posts' : posts'[j].at = posts[k].at
  BY <1>1, <1>2, <1>6
<1> QED  BY <1>2, <1>4, <1>5, <1>6 DEF left

\* One request goes on.
LEMMA OnePost ==
    ASSUME TableInv, NEW i \in DOMAIN posts, NEW q \in Post, posts' = [posts EXCEPT ![i] = q], twice' = twice,
           q.cells \subseteq posts[i].cells, q.at \in {"accepted", "answered"} => q.answer # Unserved
    PROVE  /\ posts' \in Seq(Post) /\ DOMAIN posts' = DOMAIN posts /\ AnswersOK' /\ SubmittedOnce'
           /\ \A j \in DOMAIN posts : posts'[j] = IF j = i THEN q ELSE posts[j]
<1>1. posts \in Seq(Post) /\ DOMAIN posts = 1 .. Len(posts)
  BY LenProperties DEF TableInv, RequestsOK
<1>2. posts' \in Seq(Post) /\ DOMAIN posts' = DOMAIN posts /\ \A j \in DOMAIN posts : posts'[j] = IF j = i THEN q ELSE posts[j]
  BY <1>1, ExceptSeq, LenProperties
<1>3. AnswersOK' /\ SubmittedOnce'
  BY <1>2 DEF TableInv, AnswersOK, SubmittedOnce
<1> QED  BY <1>2, <1>3

-----------------------------------------------------------------------------
(* Every step keeps the invariant. *)

\* Nothing happens on the page.
LEMMA SamePage ==
    ASSUME TableInv, UNCHANGED <<page, posts, twice>>, server' \in [Records -> Entry], gets' \in Seq(Answers),
           hand' \in {"user", "browser"}
    PROVE  TableInv'
<1>1. db' = db /\ row' = row /\ focus' = focus /\ posts' = posts /\ twice' = twice /\ Focused' = Focused
  BY DEF page, Focused
<1>2. TypeOK'
  BY <1>1, TypesAre DEF TableInv, TypeOK, Entry, Rows, Datas, Known, Focuses
<1> QED  BY <1>1, <1>2 DEF TableInv, RequestsOK, RowsFollow, alive, AnswersOK, CellsHeld, SubmittedOnce, UnmarkedIsStored

\* What is kept of the page, put together.
LEMMA Assemble ==
    ASSUME TableInv, server' \in [Records -> Entry], db' \in Datas, row' \in Rows, focus' \in Focuses,
           focus' # None => row'[Focused'] # None, hand' \in {"user", "browser"},
           gets' \in Seq(Answers), posts' \in Seq(Post),
           RowsFollow', AnswersOK', CellsHeld', SubmittedOnce',
           (\A i \in DOMAIN posts' : posts'[i].at # "answered") => AllUnmarkedStored'
    PROVE  TableInv'
<1>1. TypeOK'
  BY DEF TypeOK, Entry, Rows, Datas, Known, Focuses
<1>2. UnmarkedIsStored'
  BY DEF UnmarkedIsStored, AllUnmarkedStored
<1> QED  BY <1>1, <1>2 DEF TableInv, RequestsOK

\* One field is changed: it stays pending, and is marked or at what is stored if it was.
LEMMA OneCell ==
    ASSUME TableInv, NEW r \in Records, row[r] # None, NEW c \in Cell, row' = [row EXCEPT ![r] = c], db' = db,
           c.original = row[r].original, "pending" \in row[r].marks => "pending" \in c.marks,
           \/ "modified" \in c.marks \/ c.value = c.original
           \/ c.marks = row[r].marks /\ c.value = row[r].value
    PROVE  /\ row' \in Rows /\ RowsFollow' /\ (AllUnmarkedStored => AllUnmarkedStored')
           /\ \A q \in Records : row'[q] # None <=> row[q] # None
           /\ \A q \in Records : row[q] # None /\ row'[q] # None /\ "pending" \in row[q].marks => "pending" \in row'[q].marks
<1>1. row \in Rows /\ None \notin Cell
  BY TypesAre, NoneIsOther DEF TableInv
<1>2. row' \in Rows /\ \A q \in Records : row'[q] = IF q = r THEN c ELSE row[q]
  BY <1>1 DEF Rows
<1>3. \A q \in Records : (row'[q] # None <=> row[q] # None) /\ (row[q] # None => row'[q].original = row[q].original)
  BY <1>1, <1>2
<1>4. RowsFollow'
  BY <1>3 DEF TableInv, RowsFollow, alive
<1>5. AllUnmarkedStored => AllUnmarkedStored'
  <2> SUFFICES ASSUME AllUnmarkedStored, NEW q \in Records, row'[q] # None, row'[q].marks \cap {"modified", "pending"} = {}
               PROVE  row'[q].value = row'[q].original
    BY DEF AllUnmarkedStored
  <2>1. CASE q # r
    BY <2>1, <1>2 DEF AllUnmarkedStored
  <2>2. CASE q = r
    BY <2>2, <1>2 DEF AllUnmarkedStored
  <2> QED  BY <2>1, <2>2
<1> QED  BY <1>2, <1>3, <1>4, <1>5

LEMMA UnmarkedIs == UnmarkedIsStored <=> ((\A i \in DOMAIN posts : posts[i].at # "answered") => AllUnmarkedStored)
  BY DEF UnmarkedIsStored, AllUnmarkedStored

\* The user edits one field.
LEMMA OneEdit ==
    ASSUME TableInv, UNCHANGED <<server, db, gets, posts, twice>>, hand' = "user",
           NEW r \in Records, row[r] # None, NEW c \in Cell, row' = [row EXCEPT ![r] = c],
           c.original = row[r].original, "pending" \in row[r].marks => "pending" \in c.marks,
           \/ "modified" \in c.marks \/ c.value = c.original
           \/ c.marks = row[r].marks /\ c.value = row[r].value,
           focus' = focus \/ focus' = None
    PROVE  TableInv'
<1>1. /\ row' \in Rows /\ RowsFollow' /\ (AllUnmarkedStored => AllUnmarkedStored')
      /\ \A q \in Records : row'[q] # None <=> row[q] # None
      /\ \A q \in Records : row[q] # None /\ row'[q] # None /\ "pending" \in row[q].marks => "pending" \in row'[q].marks
  BY OneCell
<1>2. focus' \in Focuses /\ (focus' # None => row'[Focused'] # None)
  <2>1. CASE focus' = None
    BY <2>1 DEF Focuses
  <2>2. CASE focus' = focus /\ focus # None
    <3>1. Focused' = Focused /\ Focused \in Records /\ row[Focused] # None /\ focus \in Focuses
      BY <2>2, FocusedIs, TypesAre DEF TableInv, Focused
    <3> QED  BY <1>1, <2>2, <3>1
  <2> QED  BY <2>1, <2>2
<1>3. CellsHeld'
  <2> SUFFICES ASSUME NEW i \in DOMAIN posts, NEW q \in posts[i].cells
               PROVE  row'[q] # None /\ (q \notin twice => "pending" \in row'[q].marks)
    BY DEF CellsHeld
  <2>1. q \in Records
    BY PostIs DEF TableInv
  <2> QED  BY <1>1, <2>1 DEF TableInv, CellsHeld
<1>4. AnswersOK' /\ SubmittedOnce' /\ posts' \in Seq(Post) /\ gets' \in Seq(Answers)
  BY DEF TableInv, RequestsOK, AnswersOK, SubmittedOnce
<1>5. (\A i \in DOMAIN posts' : posts'[i].at # "answered") => AllUnmarkedStored'
  BY <1>1, UnmarkedIs DEF TableInv
<1>6. server' \in [Records -> Entry] /\ db' \in Datas
  BY TypesAre DEF TableInv
<1> QED  BY <1>1, <1>2, <1>3, <1>4, <1>5, <1>6, Assemble

LEMMA FocusStep == TableInv /\ Focus => TableInv'
<1> SUFFICES ASSUME TableInv, Focus PROVE TableInv'  OBVIOUS
<1>1. PICK r \in Records : row[r] # None /\ focus' = [at |-> r, shown |-> row[r].display]
  BY DEF Focus
<1>2. hand' = "user" /\ UNCHANGED <<server, db, row, gets, posts, twice>>
  BY DEF Focus, ByUser
<1>3. row[r].display \in Texts
  BY <1>1, TypesAre DEF TableInv, Rows, Cell
<1>4. focus' \in Focuses /\ Focused' = r
  BY <1>1, <1>3, NoneIsOther DEF Focuses, Focused
<1>5. RowsFollow' /\ AnswersOK' /\ CellsHeld' /\ SubmittedOnce' /\ posts' \in Seq(Post) /\ gets' \in Seq(Answers)
  BY <1>2 DEF TableInv, RequestsOK, RowsFollow, alive, AnswersOK, CellsHeld, SubmittedOnce
<1>6. (\A i \in DOMAIN posts' : posts'[i].at # "answered") => AllUnmarkedStored'
  BY <1>2, UnmarkedIs DEF TableInv, AllUnmarkedStored
<1>7. server' \in [Records -> Entry] /\ db' \in Datas /\ row' \in Rows
  BY <1>2, TypesAre DEF TableInv
<1> QED  BY <1>1, <1>2, <1>4, <1>5, <1>6, <1>7, Assemble

LEMMA TypeStep == TableInv /\ Type => TableInv'
<1> SUFFICES ASSUME TableInv, Type PROVE TableInv'  OBVIOUS
<1>1. PICK t \in Texts : row' = [row EXCEPT ![Focused].display = t]
  BY DEF Type
<1>2. hand' = "user" /\ focus # None /\ UNCHANGED <<server, db, focus, gets, posts, twice>>
  BY DEF Type, ByUser
<1>3. Focused \in Records /\ row[Focused] # None /\ row[Focused] \in Cell
  BY <1>2, FocusedIs, TypesAre DEF TableInv, Rows
<1> DEFINE c == [row[Focused] EXCEPT !.display = t]
<1>4. row' = [row EXCEPT ![Focused] = c]
  BY <1>1
<1>5. c \in Cell /\ c.original = row[Focused].original /\ c.marks = row[Focused].marks /\ c.value = row[Focused].value
  BY <1>3 DEF Cell
<1> HIDE DEF c
<1>6. PICK d \in Cell : /\ row' = [row EXCEPT ![Focused] = d] /\ d.original = row[Focused].original
                        /\ d.marks = row[Focused].marks /\ d.value = row[Focused].value
  BY <1>4, <1>5
<1>7. PICK r \in Records : r = Focused
  BY <1>3
<1> QED  BY <1>2, <1>3, <1>6, <1>7, OneEdit

LEMMA EnteredStep == TableInv /\ Entered => TableInv'
<1> SUFFICES ASSUME TableInv, Entered PROVE TableInv'  OBVIOUS
<1>1. hand' = "user" /\ focus # None /\ focus' = None /\ UNCHANGED <<server, db, gets, posts, twice>>
  BY DEF Entered
<1>2. Focused \in Records /\ row[Focused] # None /\ row[Focused] \in Cell
  BY <1>1, FocusedIs, TypesAre DEF TableInv, Rows
<1>3. PICK r \in Records : r = Focused
  BY <1>2
<1>4. row[r] \in Cell /\ row[r] # None /\ row[r].display \in Texts
  BY <1>2, <1>3 DEF Cell
<1>5. CASE row' = [row EXCEPT ![Focused] = Set(@, @.display)]
  <2>1. PICK c \in Cell : c = Set(row[r], row[r].display)
    BY <1>4, SetKeeps
  <2>2. /\ c.original = row[r].original /\ ("modified" \in c.marks \/ c.value = c.original)
        /\ "pending" \in row[r].marks => "pending" \in c.marks
    BY <1>4, <2>1, SetKeeps
  <2>3. row' = [row EXCEPT ![r] = c]
    BY <1>3, <1>5, <2>1
  <2> QED  BY <1>1, <1>4, <2>2, <2>3, OneEdit
<1>6. CASE row' = row
  <2>1. row' = [row EXCEPT ![r] = row[r]]
    BY <1>6, TypesAre DEF TableInv, Rows
  <2>2. PICK c \in Cell : c = row[r]
    BY <1>4
  <2> QED  BY <1>1, <1>4, <2>1, <2>2, OneEdit
<1> QED  BY <1>5, <1>6 DEF Entered

\* All rows are refreshed, and the requests forget what is gone.
LEMMA Refreshed ==
    ASSUME TableInv, db' \in Datas, Trimmed(refreshed(db')), twice' = twice, server' = server,
           hand' \in {"user", "browser"}, gets' \in Seq(Answers),
           posts' \in Seq(Post), AnswersOK', SubmittedOnce', CellsHeld'
    PROVE  TableInv'
<1>1. /\ row' \in Rows /\ focus' \in Focuses /\ (focus' # None => row'[Focused'] # None)
      /\ RowsFollow' /\ AllUnmarkedStored'
  BY TrimmedKeeps DEF TableInv
<1>2. server' \in [Records -> Entry]
  BY TypesAre DEF TableInv
<1> QED  BY <1>1, <1>2, Assemble

LEMMA PendingIsKept ==
    ASSUME TypeOK, db' \in Datas, Trimmed(refreshed(db'))
    PROVE  \A r \in Records : row[r] # None /\ row'[r] # None /\ "pending" \in row[r].marks => "pending" \in row'[r].marks
  BY TrimmedKeeps

LEMMA RollbackStep == TableInv /\ Rollback => TableInv'
<1> SUFFICES ASSUME TableInv, Rollback PROVE TableInv'  OBVIOUS
<1>1. PICK r \in Records : row[r] # None /\ RolledBack(r)
  BY DEF Rollback
<1>2. /\ hand' = "user" /\ focus = None /\ posts' = Attached(posts)
      /\ server' = server /\ gets' = gets /\ twice' = twice
  BY DEF Rollback, ByUser
<1>3. TypeOK /\ gets' \in Seq(Answers) /\ server' \in [Records -> Entry]
  BY <1>2, TypesAre DEF TableInv, RequestsOK
<1>4. CASE row[r].new
  <2>1. db' = Deleted(r) /\ Trimmed(refreshed(db'))
    BY <1>1, <1>4 DEF RolledBack
  <2>2. db' \in Datas
    BY <1>3, <2>1, TypesAre DEF Deleted, Datas
  <2>3. posts' \in Seq(Post) /\ AnswersOK' /\ SubmittedOnce' /\ CellsHeld'
    BY <1>2, <1>3, <2>1, <2>2, PendingIsKept, AttachedKeeps
  <2> QED  BY <1>2, <1>3, <2>1, <2>2, <2>3, Refreshed
<1>5. CASE ~row[r].new
  <2>1. row' = [row EXCEPT ![r] = Revert(@)] /\ db' = db /\ focus' = focus
    BY <1>1, <1>5 DEF RolledBack
  <2>2. row[r] \in Cell
    BY <1>1, <1>3, TypesAre DEF Rows
  <2>3. PICK c \in Cell : c = Revert(row[r])
    BY <2>2, RevertKeeps
  <2>4. c.original = row[r].original /\ c.value = c.original /\ ("pending" \in row[r].marks => "pending" \in c.marks)
    BY <2>2, <2>3, RevertKeeps
  <2>5. row' = [row EXCEPT ![r] = c]
    BY <2>1, <2>3
  <2>6. /\ row' \in Rows /\ RowsFollow' /\ (AllUnmarkedStored => AllUnmarkedStored')
        /\ \A q \in Records : row'[q] # None <=> row[q] # None
        /\ \A q \in Records : row[q] # None /\ row'[q] # None /\ "pending" \in row[q].marks => "pending" \in row'[q].marks
    BY <1>1, <2>1, <2>4, <2>5, OneCell
  <2>7. posts' \in Seq(Post) /\ AnswersOK' /\ SubmittedOnce' /\ CellsHeld'
    BY <1>2, <2>6, AttachedKeeps
  <2>8. (\A i \in DOMAIN posts' : posts'[i].at # "answered") => AllUnmarkedStored'
    <3>1. posts \in Seq(Post)
      BY DEF TableInv, RequestsOK
    <3>2. DOMAIN posts' = DOMAIN posts /\ \A i \in DOMAIN posts : posts'[i].at = posts[i].at
      BY <1>2, <3>1, AttachedIs
    <3> QED  BY <2>6, <3>2, UnmarkedIs DEF TableInv
  <2>9. db' \in Datas /\ focus' = None /\ focus' \in Focuses
    BY <1>2, <1>3, <2>1, TypesAre DEF Focuses
  <2> QED  BY <1>2, <1>3, <2>6, <2>7, <2>8, <2>9, Assemble
<1> QED  BY <1>4, <1>5

-----------------------------------------------------------------------------
(* Submissions. *)

LEMMA AppendIs ==
    ASSUME RequestsOK, NEW p \in Post, posts' = Append(posts, p)
    PROVE  /\ posts' \in Seq(Post) /\ Len(posts') = Len(posts) + 1 /\ Len(posts) \in Nat
           /\ DOMAIN posts = 1 .. Len(posts) /\ DOMAIN posts' = 1 .. Len(posts) + 1
           /\ \A i \in DOMAIN posts : i \in DOMAIN posts' /\ posts'[i] = posts[i]
           /\ posts'[Len(posts')] = p
           /\ \A i \in DOMAIN posts' : i \in DOMAIN posts \/ (posts'[i] = p /\ i = Len(posts'))
<1>1. posts \in Seq(Post) /\ Len(posts) \in Nat /\ DOMAIN posts = 1 .. Len(posts)
  BY LenProperties DEF RequestsOK
<1>2. /\ posts' \in Seq(Post) /\ Len(posts') = Len(posts) + 1
      /\ \A i \in 1 .. Len(posts) : posts'[i] = posts[i]
      /\ posts'[Len(posts) + 1] = p
  BY <1>1, AppendProperties
<1>3. DOMAIN posts' = 1 .. Len(posts) + 1 /\ posts'[Len(posts')] = p
  BY <1>2, LenProperties
<1>4. \A i \in 1 .. Len(posts) : i \in 1 .. Len(posts) + 1
  BY <1>1
<1>5. \A i \in 1 .. Len(posts) + 1 : i \in 1 .. Len(posts) \/ i = Len(posts) + 1
  BY <1>1
<1>6. \A i \in DOMAIN posts : i \in DOMAIN posts' /\ posts'[i] = posts[i]
  BY <1>1, <1>2, <1>3, <1>4
<1>7. \A i \in DOMAIN posts' : i \in DOMAIN posts \/ (posts'[i] = p /\ i = Len(posts'))
  <2> SUFFICES ASSUME NEW i \in DOMAIN posts' PROVE i \in DOMAIN posts \/ (posts'[i] = p /\ i = Len(posts'))
    OBVIOUS
  <2>1. i \in 1 .. Len(posts) \/ i = Len(posts) + 1
    BY <1>3, <1>5
  <2>2. Len(posts') = Len(posts) + 1 /\ posts'[Len(posts) + 1] = p /\ DOMAIN posts = 1 .. Len(posts)
    BY <1>1, <1>2
  <2> QED  BY <2>1, <2>2
<1> QED  BY <1>1, <1>2, <1>3, <1>6, <1>7

\* What a commit sends, and what becomes of the rows.
LEMMA CommitIs ==
    ASSUME TableInv, Commit
    PROVE  \E sent \in SUBSET Records : \E p \in Post :
               /\ posts' = Append(posts, p) /\ p.at = "sent" /\ p.cells = sent /\ DOMAIN p.updated = sent
               /\ \A r \in sent : row[r] # None /\ "modified" \in row[r].marks
               /\ row' = [r \in Records |->
                              IF r \in sent THEN With(With(row[r], "pending", TRUE), "modified", FALSE) ELSE row[r]]
               /\ twice' = twice \cup (sent \cap UNION {posts[i].cells : i \in DOMAIN posts})
<1> DEFINE toSend == {r \in Records : row[r] # None /\ (row[r].new \/ "modified" \in row[r].marks)}
           deleted(rs) == {r \in rs : Deletable(r)}
           sent(rs) == {r \in rs \ deleted(rs) : "modified" \in row[r].marks}
           p(rs) == [at |-> "sent", cells |-> sent(rs), updated |-> [r \in sent(rs) |-> row[r].value],
                     deleted |-> deleted(rs), created |-> None, answer |-> Unserved]
<1>1. PICK rs \in SUBSET toSend :
          /\ posts' = Append(posts, p(rs))
          /\ row' = [r \in Records |->
                         IF r \in sent(rs) THEN With(With(row[r], "pending", TRUE), "modified", FALSE) ELSE row[r]]
  BY DEF Commit, Posted
<1>2. /\ sent(rs) \in SUBSET Records /\ deleted(rs) \in SUBSET Records
      /\ \A r \in sent(rs) : row[r] # None /\ "modified" \in row[r].marks
  BY <1>1
<1>3. \A r \in sent(rs) : row[r].value \in Texts
  BY <1>2, TypesAre DEF TableInv, Rows, Cell
<1>4. PICK s \in SUBSET Records : s = sent(rs)
  BY <1>2
<1>5. PICK d \in SUBSET Records : d = deleted(rs)
  BY <1>2
<1> DEFINE q == [at |-> "sent", cells |-> s, updated |-> [r \in s |-> row[r].value],
                 deleted |-> d, created |-> None, answer |-> Unserved]
<1>6. p(rs) = q
  BY <1>4, <1>5
<1> HIDE DEF toSend, deleted, sent, p
<1>7. [r \in s |-> row[r].value] \in Updates
  <2>1. [r \in s |-> row[r].value] \in [s -> Texts]
    BY <1>3, <1>4
  <2> QED  BY <2>1 DEF Updates
<1>8. q \in Post
  <2>1. "sent" \in Stops /\ None \in Records \cup {None} /\ Unserved \in Answers
    BY DEF Stops, Answers
  <2> QED  BY <1>7, <2>1 DEF Post
<1>9. q.at = "sent" /\ q.cells = s /\ DOMAIN q.updated = s
  OBVIOUS
<1> HIDE DEF q
<1>10. posts' = Append(posts, q)
  BY <1>1, <1>6
<1>11. twice' = twice \cup (s \cap UNION {posts[i].cells : i \in DOMAIN posts})
  <2>1. twice' = twice \cup (DOMAIN posts'[Len(posts')].updated \cap UNION {posts[i].cells : i \in DOMAIN posts})
    BY DEF Commit
  <2>2. posts'[Len(posts')] = q
    BY <1>8, <1>10, AppendIs DEF TableInv
  <2> QED  BY <1>9, <2>1, <2>2
<1> QED  BY <1>1, <1>2, <1>4, <1>8, <1>9, <1>10, <1>11

\* What is sent is pending from then on, and modified again only when the user changes it.
LEMMA SentIs ==
    ASSUME NEW cell \in Cell
    PROVE  LET c == With(With(cell, "pending", TRUE), "modified", FALSE) IN
           /\ c \in Cell /\ c.original = cell.original /\ c.value = cell.value /\ c.display = cell.display
           /\ "pending" \in c.marks /\ "modified" \notin c.marks
<1>1. PICK b \in Cell : b = With(cell, "pending", TRUE)
  BY PendingKeeps
<1>2. b.original = cell.original /\ b.value = cell.value /\ b.display = cell.display /\ "pending" \in b.marks
  BY <1>1, PendingKeeps
<1>3. PICK c \in Cell : c = With(b, "modified", FALSE)
  BY ModifiedKeeps
<1>4. c.original = b.original /\ c.value = b.value /\ c.display = b.display /\ "pending" \in c.marks /\ "modified" \notin c.marks
  BY <1>2, <1>3, ModifiedKeeps
<1>5. c = With(With(cell, "pending", TRUE), "modified", FALSE)
  BY <1>1, <1>3
<1> QED  BY <1>2, <1>4, <1>5

LEMMA CommitStep == TableInv /\ Commit => TableInv'
<1> SUFFICES ASSUME TableInv, Commit PROVE TableInv'  OBVIOUS
<1>1. PICK sent \in SUBSET Records, p \in Post :
          /\ posts' = Append(posts, p) /\ p.at = "sent" /\ p.cells = sent /\ DOMAIN p.updated = sent
          /\ \A r \in sent : row[r] # None /\ "modified" \in row[r].marks
          /\ row' = [r \in Records |->
                         IF r \in sent THEN With(With(row[r], "pending", TRUE), "modified", FALSE) ELSE row[r]]
          /\ twice' = twice \cup (sent \cap UNION {posts[i].cells : i \in DOMAIN posts})
  BY CommitIs
<1>2. hand' = "user" /\ focus = None /\ UNCHANGED <<server, db, focus, gets>>
  BY DEF Commit, ByUser
<1>3. TypeOK /\ gets' \in Seq(Answers) /\ server' \in [Records -> Entry] /\ db' \in Datas /\ focus' \in Focuses /\ focus' = None
  BY <1>2, TypesAre DEF TableInv, RequestsOK, Focuses
<1>4. /\ posts' \in Seq(Post) /\ Len(posts') = Len(posts) + 1 /\ Len(posts) \in Nat
      /\ DOMAIN posts = 1 .. Len(posts) /\ DOMAIN posts' = 1 .. Len(posts) + 1
      /\ \A i \in DOMAIN posts : i \in DOMAIN posts' /\ posts'[i] = posts[i]
      /\ \A i \in DOMAIN posts' : i \in DOMAIN posts \/ (posts'[i] = p /\ i = Len(posts'))
  BY <1>1, AppendIs DEF TableInv
<1>5. ASSUME NEW r \in Records
      PROVE  /\ row'[r] \in Cell \cup {None} /\ (row'[r] # None <=> row[r] # None)
             /\ row[r] # None => row'[r].original = row[r].original /\ ("pending" \in row[r].marks => "pending" \in row'[r].marks)
             /\ r \in sent => "pending" \in row'[r].marks
             /\ r \notin sent => row'[r] = row[r]
  <2>1. row[r] \in Cell \cup {None} /\ None \notin Cell
    BY <1>3, TypesAre, NoneIsOther DEF Rows
  <2>2. CASE r \in sent
    <3>1. row[r] \in Cell /\ row'[r] = With(With(row[r], "pending", TRUE), "modified", FALSE)
      BY <1>1, <2>1, <2>2
    <3> QED  BY <2>1, <2>2, <3>1, SentIs
  <2>3. CASE r \notin sent
    BY <1>1, <2>1, <2>3
  <2> QED  BY <2>2, <2>3
<1>6. row' \in Rows
  BY <1>1, <1>5 DEF Rows
<1>7. RowsFollow'
  BY <1>2, <1>5 DEF TableInv, RowsFollow, alive
<1>8. AnswersOK'
  BY <1>1, <1>4 DEF TableInv, AnswersOK
<1>9. CellsHeld'
  <2> SUFFICES ASSUME NEW i \in DOMAIN posts', NEW r \in posts'[i].cells
               PROVE  row'[r] # None /\ (r \notin twice' => "pending" \in row'[r].marks)
    BY DEF CellsHeld
  <2>1. CASE i \in DOMAIN posts
    <3>1. r \in posts[i].cells /\ r \in Records
      BY <1>4, <2>1, PostIs DEF TableInv
    <3>2. row[r] # None /\ (r \notin twice => "pending" \in row[r].marks)
      BY <2>1, <3>1 DEF TableInv, CellsHeld
    <3> QED  BY <1>1, <1>5, <3>1, <3>2
  <2>2. CASE posts'[i] = p
    BY <1>1, <1>5, <2>2
  <2> QED  BY <1>4, <2>1, <2>2
<1>10. SubmittedOnce'
  <2> SUFFICES ASSUME NEW i \in DOMAIN posts', NEW j \in DOMAIN posts', i # j, NEW r \in posts'[i].cells, r \in posts'[j].cells
               PROVE  r \in twice'
    BY DEF SubmittedOnce
  <2>1. CASE i \in DOMAIN posts /\ j \in DOMAIN posts
    BY <1>1, <1>4, <2>1 DEF TableInv, SubmittedOnce
  <2>2. CASE i \in DOMAIN posts /\ posts'[j] = p
    BY <1>1, <1>4, <2>2
  <2>3. CASE j \in DOMAIN posts /\ posts'[i] = p
    BY <1>1, <1>4, <2>3
  <2> QED  BY <1>4, <2>1, <2>2, <2>3
<1>11. (\A i \in DOMAIN posts' : posts'[i].at # "answered") => AllUnmarkedStored'
  <2> SUFFICES ASSUME \A i \in DOMAIN posts' : posts'[i].at # "answered",
                      NEW r \in Records, row'[r] # None, row'[r].marks \cap {"modified", "pending"} = {}
               PROVE  row'[r].value = row'[r].original
    BY DEF AllUnmarkedStored
  <2>1. r \notin sent /\ row'[r] = row[r]
    BY <1>5
  <2>2. AllUnmarkedStored
    BY <1>4, UnmarkedIs DEF TableInv
  <2> QED  BY <2>1, <2>2 DEF AllUnmarkedStored
<1>12. hand' \in {"user", "browser"}
  BY <1>2
<1> QED  BY <1>3, <1>4, <1>6, <1>7, <1>8, <1>9, <1>10, <1>11, <1>12, Assemble

-----------------------------------------------------------------------------
(* The server. *)

LEMMA EntriesAre ==
    ASSUME TypeOK, NEW r \in Records
    PROVE  server[r] \in Entry /\ server[r].state \in States /\ server[r].text \in Texts
<1>1. server[r] \in Entry
  BY TypesAre
<1> QED  BY <1>1 DEF Entry

LEMMA NamedStates == "new" \in States /\ "live" \in States /\ "deleted" \in States /\ "swept" \in States
  BY DEF States

LEMMA AppliedTyped ==
    ASSUME TypeOK, NEW updated \in Updates, NEW deleted \in SUBSET Records
    PROVE  Applied(updated, deleted) \in [Records -> Entry]
<1>1. PICK R \in SUBSET Records : updated \in [R -> Texts]
  BY DEF Updates
<1> SUFFICES ASSUME NEW r \in Records PROVE Applied(updated, deleted)[r] \in Entry
  BY DEF Applied
<1>2. server[r] \in Entry /\ server[r].text \in Texts
  BY EntriesAre
<1>3. [server[r] EXCEPT !.state = "deleted"] \in Entry
  BY <1>2, NamedStates DEF Entry
<1>4. r \in DOMAIN updated => [state |-> "live", text |-> updated[r]] \in Entry
  BY <1>1, NamedStates DEF Entry
<1> QED  BY <1>2, <1>3, <1>4 DEF Applied

LEMMA ChangedTyped ==
    ASSUME TypeOK, NEW s \in [Records -> Entry]
    PROVE  Changed(s) \in Listings
<1> DEFINE R == {q \in Records : s[q] # server[q]}
<1>1. R \in SUBSET Records /\ Changed(s) \in [R -> Entry]
  BY DEF Changed
<1> QED  BY <1>1 DEF Listings

LEMMA ListingTyped == ASSUME TypeOK PROVE Listing \in Listings
<1> DEFINE R == {q \in Records : server[q].state \in {"live", "deleted"}}
<1>1. R \in SUBSET Records /\ Listing \in [R -> Entry]
  BY TypesAre DEF Listing
<1> QED  BY <1>1 DEF Listings

LEMMA AnswersAre ==
    /\ \A l \in Listings : <<l>> \in Answers /\ <<l>> # Unserved /\ <<l>>[1] = l
    /\ \A a \in Answers : a # Unserved => a[1] \in Listings
<1>1. \A l \in Listings : <<l>> \in Answers /\ <<l>>[1] = l
  BY DEF Answers
<1>2. \A l \in Listings : <<l>> # Unserved
  BY DEF Unserved
<1> QED  BY <1>1, <1>2 DEF Answers

LEMMA GetsAre ==
    ASSUME RequestsOK, NEW i \in DOMAIN gets
    PROVE  gets[i] \in Answers /\ RemoveAt(gets, i) \in Seq(Answers) /\ DOMAIN gets = 1 .. Len(gets)
<1>1. gets \in Seq(Answers)
  BY DEF RequestsOK
<1> QED  BY <1>1, LenProperties, ElementOfSeq, RemoveAtKeeps

LEMMA PollStep == TableInv /\ Poll => TableInv'
<1> SUFFICES ASSUME TableInv, Poll PROVE TableInv'  OBVIOUS
<1>1. gets' = Append(gets, Unserved) /\ hand' = "browser" /\ UNCHANGED <<page, posts, twice>> /\ server' = server
  BY DEF Poll, ByBrowser
<1>2. gets \in Seq(Answers) /\ Unserved \in Answers
  BY DEF TableInv, RequestsOK, Answers
<1>3. gets' \in Seq(Answers) /\ server' \in [Records -> Entry]
  BY <1>1, <1>2, AppendProperties, TypesAre DEF TableInv
<1> QED  BY <1>1, <1>3, SamePage

LEMMA GetServedStep == TableInv /\ GetServed => TableInv'
<1> SUFFICES ASSUME TableInv, GetServed PROVE TableInv'  OBVIOUS
<1>1. hand' = "browser" /\ UNCHANGED <<page, posts, twice>> /\ server' = server
  BY DEF GetServed, ByBrowser
<1>2. PICK i \in DOMAIN gets : gets' = [gets EXCEPT ![i] = <<Listing>>]
  BY DEF GetServed
<1>3. TypeOK /\ RequestsOK
  BY DEF TableInv
<1>4. <<Listing>> \in Answers
  BY <1>3, ListingTyped, AnswersAre
<1>5. gets \in Seq(Answers) /\ i \in 1 .. Len(gets)
  BY <1>3, GetsAre DEF RequestsOK
<1>6. gets' \in Seq(Answers)
  BY <1>2, <1>4, <1>5, ExceptSeq
<1> QED  BY <1>1, <1>3, <1>6, TypesAre, SamePage

LEMMA GetFailsStep == TableInv /\ GetFails => TableInv'
<1> SUFFICES ASSUME TableInv, GetFails PROVE TableInv'  OBVIOUS
<1>1. hand' = "browser" /\ UNCHANGED <<page, posts, twice>> /\ server' = server
  BY DEF GetFails
<1>2. gets' \in Seq(Answers)
  BY GetsAre DEF GetFails, TableInv
<1> QED  BY <1>1, <1>2, TypesAre, SamePage DEF TableInv

LEMMA ElsewhereStep == TableInv /\ Elsewhere => TableInv'
<1> SUFFICES ASSUME TableInv, Elsewhere PROVE TableInv'  OBVIOUS
<1>1. hand' = "browser" /\ UNCHANGED <<page, gets, posts, twice>>
  BY DEF Elsewhere
<1>2. PICK r \in Records :
          \/ \E t \in Texts : server' = [server EXCEPT ![r] = [state |-> "live", text |-> t]]
          \/ server' = [server EXCEPT ![r].state = "deleted"]
          \/ server' = [server EXCEPT ![r].state = "swept"]
  BY DEF Elsewhere
<1>3. TypeOK /\ server \in [Records -> Entry] /\ server[r] \in Entry /\ gets \in Seq(Answers)
  BY TypesAre DEF TableInv, RequestsOK
<1>4. \A t \in Texts : [state |-> "live", text |-> t] \in Entry
  BY NamedStates DEF Entry
<1>5. [server[r] EXCEPT !.state = "deleted"] \in Entry /\ [server[r] EXCEPT !.state = "swept"] \in Entry
  BY <1>3, NamedStates DEF Entry
<1>6. server' \in [Records -> Entry]
  BY <1>2, <1>3, <1>4, <1>5
<1> QED  BY <1>1, <1>3, <1>6, SamePage

LEMMA CreateStep == TableInv /\ Create => TableInv'
<1> SUFFICES ASSUME TableInv, Create PROVE TableInv'  OBVIOUS
<1>1. hand' = "user" /\ UNCHANGED <<server, page, gets, twice>>
  BY DEF Create, ByUser
<1>2. PICK r \in Records : Creates(r)
  BY DEF Create
<1> DEFINE p == [at |-> "sent", cells |-> {}, updated |-> [q \in {} |-> Blank], deleted |-> {},
                 created |-> r, answer |-> Unserved]
<1>3. posts' = Append(posts, p)
  BY <1>2 DEF Creates, Posted
<1>4. p \in Post
  <2>1. [q \in {} |-> Blank] \in [{} -> Texts]
    OBVIOUS
  <2>2. [q \in {} |-> Blank] \in Updates
    BY <2>1 DEF Updates
  <2>3. "sent" \in Stops /\ Unserved \in Answers
    BY DEF Stops, Answers
  <2> QED  BY <2>2, <2>3 DEF Post
<1>5. p.at = "sent" /\ p.cells = {}
  OBVIOUS
<1>6. PICK q \in Post : posts' = Append(posts, q) /\ q.at = "sent" /\ q.cells = {}
  <2> HIDE DEF p
  <2> QED  BY <1>3, <1>4, <1>5
<1>7. /\ posts' \in Seq(Post)
      /\ \A i \in DOMAIN posts : i \in DOMAIN posts' /\ posts'[i] = posts[i]
      /\ \A i \in DOMAIN posts' : i \in DOMAIN posts \/ posts'[i] = q
  BY <1>6, AppendIs DEF TableInv
<1>8. db' = db /\ row' = row /\ focus' = focus /\ Focused' = Focused /\ TypeOK /\ RequestsOK
  BY <1>1 DEF page, Focused, TableInv
<1>9. RowsFollow' /\ gets' \in Seq(Answers)
  BY <1>1, <1>8 DEF TableInv, RowsFollow, alive, RequestsOK
<1>10. AnswersOK'
  BY <1>6, <1>7 DEF TableInv, AnswersOK
<1>11. CellsHeld'
  BY <1>1, <1>6, <1>7, <1>8 DEF TableInv, CellsHeld
<1>12. SubmittedOnce'
  BY <1>1, <1>6, <1>7 DEF TableInv, SubmittedOnce
<1>13. (\A i \in DOMAIN posts' : posts'[i].at # "answered") => AllUnmarkedStored'
  BY <1>7, <1>8, UnmarkedIs DEF TableInv, AllUnmarkedStored
<1> QED  BY <1>1, <1>7, <1>8, <1>9, <1>10, <1>11, <1>12, <1>13, TypesAre, Assemble

LEMMA PostServedStep == TableInv /\ PostServed => TableInv'
<1> SUFFICES ASSUME TableInv, PostServed PROVE TableInv'  OBVIOUS
<1>1. hand' = "browser" /\ UNCHANGED <<page, gets, twice>>
  BY DEF PostServed, ByBrowser
<1> DEFINE s(p) == IF p.created = None THEN Applied(p.updated, p.deleted)
                   ELSE [server EXCEPT ![p.created] = IF @.state = "none" THEN [state |-> "new", text |-> Blank] ELSE @]
<1>2. PICK i \in DOMAIN posts :
          /\ posts[i].at = "sent"
          /\ \/ server' = s(posts[i]) /\ posts' = [posts EXCEPT ![i].at = "accepted", ![i].answer = <<Changed(s(posts[i]))>>]
             \/ server' = server /\ posts' = [posts EXCEPT ![i].at = "refused"]
  BY DEF PostServed
<1>3. posts[i] \in Post /\ TypeOK /\ server \in [Records -> Entry] /\ posts \in Seq(Post) /\ gets' \in Seq(Answers)
  BY <1>1, PostIs, TypesAre DEF TableInv, RequestsOK
<1>4. s(posts[i]) \in [Records -> Entry]
  <2>1. posts[i].updated \in Updates /\ posts[i].deleted \in SUBSET Records /\ posts[i].created \in Records \cup {None}
    BY <1>3 DEF Post
  <2>2. CASE posts[i].created = None
    BY <1>3, <2>1, <2>2, AppliedTyped
  <2>3. CASE posts[i].created # None
    <3>1. [state |-> "new", text |-> Blank] \in Entry
      BY NamedStates, TableAssumption DEF Entry
    <3> QED  BY <1>3, <2>1, <2>3, <3>1
  <2> QED  BY <2>2, <2>3
<1>5. PICK t \in [Records -> Entry] : t = s(posts[i])
  BY <1>4
<1> HIDE DEF s
<1>6. server' \in [Records -> Entry]
  BY <1>2, <1>3, <1>5
<1>7. \E q \in Post : /\ posts' = [posts EXCEPT ![i] = q] /\ q.cells = posts[i].cells
                      /\ q.at \in {"accepted", "refused"} /\ (q.at = "accepted" => q.answer # Unserved)
  <2>1. "accepted" \in Stops /\ "refused" \in Stops
    BY DEF Stops
  <2>2. CASE posts' = [posts EXCEPT ![i].at = "accepted", ![i].answer = <<Changed(t)>>]
    <3>1. PICK a \in Answers : a = <<Changed(t)>> /\ a # Unserved
      BY <1>3, ChangedTyped, AnswersAre
    <3> DEFINE q == [posts[i] EXCEPT !.at = "accepted", !.answer = a]
    <3>2. posts' = [posts EXCEPT ![i] = q]
      BY <2>2, <3>1, <1>3
    <3>3. q \in Post /\ q.cells = posts[i].cells /\ q.at = "accepted" /\ q.answer = a
      BY <1>3, <2>1, <3>1 DEF Post
    <3> HIDE DEF q
    <3> QED  BY <3>1, <3>2, <3>3
  <2>3. CASE posts' = [posts EXCEPT ![i].at = "refused"]
    <3> DEFINE q == [posts[i] EXCEPT !.at = "refused"]
    <3>1. posts' = [posts EXCEPT ![i] = q]
      BY <2>3
    <3>2. q \in Post /\ q.cells = posts[i].cells /\ q.at = "refused"
      BY <1>3, <2>1 DEF Post
    <3> HIDE DEF q
    <3> QED  BY <3>1, <3>2
  <2> QED  BY <1>2, <1>5, <2>2, <2>3
<1>8. PICK q \in Post : /\ posts' = [posts EXCEPT ![i] = q] /\ q.cells = posts[i].cells
                        /\ q.at \in {"accepted", "refused"} /\ (q.at = "accepted" => q.answer # Unserved)
  BY <1>7
<1>9. /\ posts' \in Seq(Post) /\ DOMAIN posts' = DOMAIN posts /\ AnswersOK' /\ SubmittedOnce'
      /\ \A j \in DOMAIN posts : posts'[j] = IF j = i THEN q ELSE posts[j]
  BY <1>1, <1>8, OnePost
<1>10. db' = db /\ row' = row /\ focus' = focus /\ Focused' = Focused /\ twice' = twice
  BY <1>1 DEF page, Focused
<1>11. RowsFollow' /\ CellsHeld'
  BY <1>8, <1>9, <1>10 DEF TableInv, RowsFollow, alive, CellsHeld
<1>12. (\A j \in DOMAIN posts' : posts'[j].at # "answered") => AllUnmarkedStored'
  <2> SUFFICES ASSUME \A j \in DOMAIN posts' : posts'[j].at # "answered" PROVE AllUnmarkedStored'
    OBVIOUS
  <2>1. \A j \in DOMAIN posts : posts[j].at # "answered"
    BY <1>2, <1>9
  <2> QED  BY <1>10, <2>1, UnmarkedIs DEF TableInv, AllUnmarkedStored
<1> QED  BY <1>1, <1>3, <1>6, <1>9, <1>10, <1>11, <1>12, TypesAre, Assemble

-----------------------------------------------------------------------------
(* What the answers do. *)

LEMMA GetArrivesStep == TableInv /\ GetArrives => TableInv'
<1> SUFFICES ASSUME TableInv, GetArrives PROVE TableInv'  OBVIOUS
<1>1. /\ Trimmed(refreshed(db')) /\ posts' = Attached(posts)
      /\ hand' = "browser" /\ twice' = twice /\ server' = server
  BY DEF GetArrives, ByBrowser
<1>2. PICK i \in DOMAIN gets : gets[i] # Unserved /\ db' = Updated(gets[i][1]) /\ gets' = RemoveAt(gets, i)
  BY DEF GetArrives
<1>3. TypeOK /\ RequestsOK
  BY DEF TableInv
<1>4. gets' \in Seq(Answers) /\ gets[i][1] \in Listings
  BY <1>2, <1>3, GetsAre, AnswersAre
<1>5. db' \in Datas
  BY <1>2, <1>3, <1>4, UpdatedTyped
<1>6. posts' \in Seq(Post) /\ AnswersOK' /\ SubmittedOnce' /\ CellsHeld'
  BY <1>1, <1>3, <1>5, PendingIsKept, AttachedKeeps
<1> QED  BY <1>1, <1>4, <1>5, <1>6, Refreshed

\* The listing that an answer holds.
LEMMA AnswerIs ==
    ASSUME TableInv, NEW i \in DOMAIN posts, posts[i].at \in {"accepted", "answered"}
    PROVE  posts[i].answer # Unserved /\ posts[i].answer[1] \in Listings
<1>1. posts[i].answer \in Answers
  BY PostIs DEF TableInv, Post
<1>2. posts[i].answer # Unserved
  BY DEF TableInv, AnswersOK
<1> QED  BY <1>1, <1>2, AnswersAre

LEMMA PostReadStep == TableInv /\ PostRead => TableInv'
<1> SUFFICES ASSUME TableInv, PostRead PROVE TableInv'  OBVIOUS
<1>1. hand' = "browser" /\ twice' = twice /\ server' = server /\ gets' = gets
  BY DEF PostRead, ByBrowser
<1>2. PICK i \in DOMAIN posts :
          /\ posts[i].at = "answered" /\ db' = Updated(posts[i].answer[1])
          /\ Trimmed(refreshed(db')) /\ posts' = Attached(RemoveAt(posts, i))
  BY DEF PostRead
<1>3. TypeOK /\ gets' \in Seq(Answers)
  BY <1>1 DEF TableInv, RequestsOK
<1>4. db' \in Datas
  BY <1>2, <1>3, AnswerIs, UpdatedTyped
<1>5. /\ posts' \in Seq(Post) /\ AnswersOK' /\ SubmittedOnce'
      /\ \A j \in DOMAIN posts' : \A r \in posts'[j].cells :
             /\ r \in Records /\ row[r] # None /\ (r \notin twice => "pending" \in row[r].marks)
             /\ row'[r] # None
  BY <1>1, <1>2, RemovedKeeps
<1>6. CellsHeld'
  <2> SUFFICES ASSUME NEW j \in DOMAIN posts', NEW r \in posts'[j].cells
               PROVE  row'[r] # None /\ (r \notin twice => "pending" \in row'[r].marks)
    BY <1>1 DEF CellsHeld
  <2> QED  BY <1>2, <1>3, <1>4, <1>5, PendingIsKept
<1> QED  BY <1>1, <1>2, <1>3, <1>4, <1>5, <1>6, Refreshed

\* cleanup() and reset() leave what the fields show and hold.
LEMMA CleanedIs ==
    ASSUME TypeOK, NEW asked \in SUBSET Records, \A r \in asked : row[r] # None, NEW r \in Records
    PROVE  LET c == Cleaned(asked)[r] IN
           /\ r \notin asked => c = row[r]
           /\ r \in asked => /\ c \in Cell /\ c.original = row[r].original /\ c.value = row[r].value
                             /\ c.display = row[r].display /\ "pending" \notin c.marks
                             /\ "modified" \in c.marks <=> "modified" \in row[r].marks
<1>1. CASE r \in asked
  <2>1. row[r] \in Cell /\ Cleaned(asked)[r] = With(row[r], "pending", FALSE)
    BY <1>1, TypesAre DEF Cleaned, Rows
  <2>2. PICK c \in Cell : c = With(row[r], "pending", FALSE)
    BY <2>1, PendingKeeps
  <2>3. /\ c.original = row[r].original /\ c.value = row[r].value /\ c.display = row[r].display /\ "pending" \notin c.marks
        /\ "modified" \in c.marks <=> "modified" \in row[r].marks
    BY <2>1, <2>2, PendingKeeps
  <2> QED  BY <1>1, <2>1, <2>2, <2>3
<1>2. CASE r \notin asked
  BY <1>2 DEF Cleaned
<1> QED  BY <1>1, <1>2

LEMMA ResetIs ==
    ASSUME TypeOK, NEW asked \in SUBSET Records, \A r \in asked : row[r] # None, NEW r \in Records
    PROVE  LET c == Reset(asked)[r] IN
           /\ r \notin asked => c = row[r]
           /\ r \in asked => /\ c \in Cell /\ c.original = row[r].original /\ c.value = row[r].value
                             /\ c.display = row[r].display /\ "modified" \in c.marks /\ "pending" \notin c.marks
<1>1. CASE r \in asked
  <2>1. row[r] \in Cell /\ Reset(asked)[r] = With(With(row[r], "pending", FALSE), "modified", TRUE)
    BY <1>1, TypesAre DEF Reset, Rows
  <2>2. PICK b \in Cell : b = With(row[r], "pending", FALSE)
    BY <2>1, PendingKeeps
  <2>3. b.original = row[r].original /\ b.value = row[r].value /\ b.display = row[r].display /\ "pending" \notin b.marks
    BY <2>1, <2>2, PendingKeeps
  <2>4. Reset(asked)[r] = With(b, "modified", TRUE)
    BY <2>1, <2>2
  <2>5. PICK c \in Cell : c = With(b, "modified", TRUE)
    BY ModifiedKeeps
  <2>6. /\ c.original = b.original /\ c.value = b.value /\ c.display = b.display /\ "modified" \in c.marks
        /\ "pending" \in c.marks <=> "pending" \in b.marks
    BY <2>5, ModifiedKeeps
  <2> QED  BY <1>1, <2>3, <2>4, <2>5, <2>6
<1>2. CASE r \notin asked
  BY <1>2 DEF Reset
<1> QED  BY <1>1, <1>2

\* The rows that one request marked, in either way.
LEMMA MarksKeep ==
    ASSUME TableInv, NEW i \in DOMAIN posts, db' = db, focus' = focus,
           row' = Cleaned(posts[i].cells) \/ row' = Reset(posts[i].cells)
    PROVE  /\ row' \in Rows /\ RowsFollow' /\ focus' \in Focuses /\ (focus' # None => row'[Focused'] # None)
           /\ \A r \in Records : row'[r] # None <=> row[r] # None
           /\ \A r \in Records : r \notin posts[i].cells => row'[r] = row[r]
           /\ row' = Reset(posts[i].cells) =>
                  \A r \in Records : r \in posts[i].cells => "modified" \in row'[r].marks
<1> DEFINE asked == posts[i].cells
<1>1. TypeOK /\ asked \in SUBSET Records /\ (\A r \in asked : row[r] # None) /\ row \in Rows /\ None \notin Cell
  BY PostIs, TypesAre, NoneIsOther DEF TableInv, CellsHeld
<1> HIDE DEF asked
<1>2. \A r \in Records :
          /\ r \notin asked => row'[r] = row[r]
          /\ r \in asked => row'[r] \in Cell /\ row'[r].original = row[r].original
          /\ row' = Reset(asked) /\ r \in asked => "modified" \in row'[r].marks
  <2>1. CASE row' = Cleaned(asked) /\ row' # Reset(asked)
    BY <1>1, <2>1, CleanedIs
  <2>2. CASE row' = Reset(asked)
    BY <1>1, <2>2, ResetIs
  <2> QED  BY <2>1, <2>2 DEF asked
<1>3. \A r \in Records : (row'[r] # None <=> row[r] # None) /\ (row[r] # None => row'[r].original = row[r].original)
  BY <1>1, <1>2
<1>4. row' \in Rows
  <2>1. \A r \in Records : row'[r] \in Cell \cup {None}
    BY <1>1, <1>2 DEF Rows
  <2> QED  BY <2>1 DEF Cleaned, Reset, Rows
<1>5. RowsFollow'
  BY <1>3 DEF TableInv, RowsFollow, alive
<1>6. focus' \in Focuses /\ (focus' # None => row'[Focused'] # None)
  <2>1. focus \in Focuses /\ Focused' = Focused /\ (focus # None => Focused \in Records /\ row[Focused] # None)
    BY <1>1, TypesAre, FocusedIs DEF Focused
  <2> QED  BY <1>3, <2>1
<1> QED  BY <1>2, <1>3, <1>4, <1>5, <1>6 DEF asked

LEMMA PostAnsweredIs ==
    ASSUME TableInv, PostAnswered
    PROVE  \E i \in DOMAIN posts : \E q \in Post :
               /\ posts[i].at = "accepted" /\ row' = Cleaned(posts[i].cells) /\ posts' = [posts EXCEPT ![i] = q]
               /\ q.at = "answered" /\ q.cells = {} /\ q.answer # Unserved
<1>1. PICK i \in DOMAIN posts :
          /\ posts[i].at = "accepted" /\ row' = Cleaned(posts[i].cells)
          /\ posts' = [posts EXCEPT ![i].at = "answered", ![i].cells = {}]
  BY DEF PostAnswered
<1> DEFINE q == [posts[i] EXCEPT !.at = "answered", !.cells = {}]
<1>2. posts' = [posts EXCEPT ![i] = q]
  BY <1>1
<1>3. posts[i] \in Post /\ "answered" \in Stops /\ posts[i].answer # Unserved
  BY <1>1, PostIs, AnswerIs DEF TableInv, Stops
<1>4. q \in Post /\ q.at = "answered" /\ q.cells = {} /\ q.answer = posts[i].answer
  BY <1>3 DEF Post
<1> HIDE DEF q
<1> QED  BY <1>1, <1>2, <1>3, <1>4

LEMMA PostAnsweredStep == TableInv /\ PostAnswered => TableInv'
<1> SUFFICES ASSUME TableInv, PostAnswered PROVE TableInv'  OBVIOUS
<1>1. PICK i \in DOMAIN posts, q \in Post :
          /\ posts[i].at = "accepted" /\ row' = Cleaned(posts[i].cells) /\ posts' = [posts EXCEPT ![i] = q]
          /\ q.at = "answered" /\ q.cells = {} /\ q.answer # Unserved
  BY PostAnsweredIs
<1>2. hand' = "browser" /\ UNCHANGED <<server, db, focus, gets, twice>>
  BY DEF PostAnswered, ByBrowser
<1>3. /\ row' \in Rows /\ RowsFollow' /\ focus' \in Focuses /\ (focus' # None => row'[Focused'] # None)
      /\ \A r \in Records : row'[r] # None <=> row[r] # None
      /\ \A r \in Records : r \notin posts[i].cells => row'[r] = row[r]
  BY <1>1, <1>2, MarksKeep
<1>4. /\ posts' \in Seq(Post) /\ DOMAIN posts' = DOMAIN posts /\ AnswersOK' /\ SubmittedOnce'
      /\ \A j \in DOMAIN posts : posts'[j] = IF j = i THEN q ELSE posts[j]
  BY <1>1, <1>2, OnePost
<1>5. CellsHeld'
  <2> SUFFICES ASSUME NEW j \in DOMAIN posts, NEW r \in posts'[j].cells
               PROVE  row'[r] # None /\ (r \notin twice => "pending" \in row'[r].marks)
    BY <1>2, <1>4 DEF CellsHeld
  <2>1. j # i /\ r \in posts[j].cells
    BY <1>1, <1>4
  <2>2. r \in Records /\ row[r] # None /\ (r \notin twice => "pending" \in row[r].marks)
    BY <2>1, PostIs DEF TableInv, CellsHeld
  <2>3. r \notin twice => r \notin posts[i].cells
    BY <2>1 DEF TableInv, SubmittedOnce
  <2> QED  BY <1>3, <2>2, <2>3
<1>6. (\A j \in DOMAIN posts' : posts'[j].at # "answered") => AllUnmarkedStored'
  BY <1>1, <1>4
<1>7. server' \in [Records -> Entry] /\ db' \in Datas /\ gets' \in Seq(Answers)
  BY <1>2, TypesAre DEF TableInv, RequestsOK
<1> QED  BY <1>2, <1>3, <1>4, <1>5, <1>6, <1>7, Assemble

LEMMA PostFailsStep == TableInv /\ PostFails => TableInv'
<1> SUFFICES ASSUME TableInv, PostFails PROVE TableInv'  OBVIOUS
<1>1. PICK i \in DOMAIN posts :
          posts[i].at # "answered" /\ row' = Reset(posts[i].cells) /\ posts' = RemoveAt(posts, i)
  BY DEF PostFails
<1>2. hand' = "browser" /\ UNCHANGED <<server, db, focus, gets, twice>>
  BY DEF PostFails
<1>3. /\ row' \in Rows /\ RowsFollow' /\ focus' \in Focuses /\ (focus' # None => row'[Focused'] # None)
      /\ \A r \in Records : row'[r] # None <=> row[r] # None
      /\ \A r \in Records : r \notin posts[i].cells => row'[r] = row[r]
      /\ \A r \in Records : r \in posts[i].cells => "modified" \in row'[r].marks
  BY <1>1, <1>2, MarksKeep
<1>4. /\ posts' \in Seq(Post) /\ AnswersOK' /\ SubmittedOnce'
      /\ \A j \in DOMAIN posts' : \A r \in posts'[j].cells :
             /\ r \in Records /\ row[r] # None /\ (r \notin twice => "pending" \in row[r].marks)
             /\ r \in posts[i].cells => r \in twice
      /\ \A k \in DOMAIN posts : k # i => \E j \in DOMAIN posts' : posts'[j].at = posts[k].at
  BY <1>1, <1>2, RemovedKeeps
<1>5. CellsHeld'
  BY <1>2, <1>3, <1>4 DEF CellsHeld
<1>6. (\A j \in DOMAIN posts' : posts'[j].at # "answered") => AllUnmarkedStored'
  <2> SUFFICES ASSUME \A j \in DOMAIN posts' : posts'[j].at # "answered",
                      NEW r \in Records, row'[r] # None, row'[r].marks \cap {"modified", "pending"} = {}
               PROVE  row'[r].value = row'[r].original
    BY DEF AllUnmarkedStored
  <2>1. row'[r] = row[r]
    BY <1>3
  <2>2. \A k \in DOMAIN posts : posts[k].at # "answered"
    BY <1>1, <1>4
  <2> QED  BY <2>1, <2>2, UnmarkedIs DEF TableInv, AllUnmarkedStored
<1>7. server' \in [Records -> Entry] /\ db' \in Datas /\ gets' \in Seq(Answers)
  BY <1>2, TypesAre DEF TableInv, RequestsOK
<1> QED  BY <1>2, <1>3, <1>4, <1>5, <1>6, <1>7, Assemble

\* A row is only swept from DB once it is out of the page.
LEMMA SweepStep == TableInv /\ SweepDB => TableInv'
<1> SUFFICES ASSUME TableInv, SweepDB PROVE TableInv'  OBVIOUS
<1>1. PICK r \in Records : db[r] # None /\ db[r].deleted /\ db' = [db EXCEPT ![r] = None]
  BY DEF SweepDB
<1>2. hand' = "browser" /\ UNCHANGED <<server, row, focus, gets, posts, twice>> /\ Focused' = Focused
  BY DEF SweepDB, ByBrowser, Focused
<1>3. db \in Datas /\ server' \in [Records -> Entry] /\ row' \in Rows /\ focus' \in Focuses /\ (focus' # None => row'[Focused'] # None)
  BY <1>2, TypesAre DEF TableInv
<1>4. db' \in Datas /\ \A q \in Records : db'[q] = IF q = r THEN None ELSE db[q]
  BY <1>1, <1>3 DEF Datas
<1>5. RowsFollow'
  BY <1>1, <1>2, <1>4 DEF TableInv, RowsFollow, alive
<1>6. AnswersOK' /\ CellsHeld' /\ SubmittedOnce' /\ posts' \in Seq(Post) /\ gets' \in Seq(Answers)
  BY <1>2 DEF TableInv, AnswersOK, CellsHeld, SubmittedOnce, RequestsOK
<1>7. (\A j \in DOMAIN posts' : posts'[j].at # "answered") => AllUnmarkedStored'
  BY <1>2, UnmarkedIs DEF TableInv, AllUnmarkedStored
<1> QED  BY <1>2, <1>3, <1>4, <1>5, <1>6, <1>7, Assemble

LEMMA TableInvInit == Init => TableInv
<1> SUFFICES ASSUME Init PROVE TableInv  OBVIOUS
<1>1. /\ server \in [Records -> [state : {"none", "live"}, text : Texts]]
      /\ db = [r \in Records |-> None] /\ row = [r \in Records |-> None] /\ focus = None
      /\ gets = <<Unserved>> /\ posts = <<>> /\ hand = "browser" /\ twice = {}
  BY DEF Init
<1>2. server \in [Records -> Entry]
  BY <1>1 DEF Entry, States
<1>3. db \in Datas /\ row \in Rows /\ focus \in Focuses
  BY <1>1 DEF Datas, Rows, Focuses
<1>4. TypeOK
  BY <1>1, <1>2, <1>3, AreTypes
<1>5. RequestsOK
  <2>1. Unserved \in Answers
    BY DEF Answers
  <2> QED  BY <1>1, <2>1 DEF RequestsOK
<1>6. DOMAIN posts = {}
  BY <1>1
<1>7. AnswersOK /\ CellsHeld /\ SubmittedOnce
  BY <1>6 DEF AnswersOK, CellsHeld, SubmittedOnce
<1>8. RowsFollow /\ UnmarkedIsStored
  BY <1>1 DEF RowsFollow, alive, UnmarkedIsStored
<1> QED  BY <1>4, <1>5, <1>7, <1>8 DEF TableInv

LEMMA TableInvStep == TableInv /\ [Next]_vars => TableInv'
<1> SUFFICES ASSUME TableInv, [Next]_vars PROVE TableInv'  OBVIOUS
<1>1. CASE UNCHANGED vars
  <2>1. UNCHANGED <<page, posts, twice>> /\ server' = server /\ gets' = gets /\ hand' = hand
    BY <1>1 DEF vars
  <2>2. server' \in [Records -> Entry] /\ gets' \in Seq(Answers) /\ hand' \in {"user", "browser"}
    BY <2>1, TypesAre DEF TableInv, RequestsOK
  <2> QED  BY <2>1, <2>2, SamePage
<1>2. CASE Next
  BY <1>2, PollStep, GetServedStep, GetArrivesStep, GetFailsStep, FocusStep, TypeStep, EnteredStep, RollbackStep,
     CommitStep, CreateStep, PostServedStep, PostAnsweredStep, PostReadStep, PostFailsStep, SweepStep, ElsewhereStep
     DEF Next
<1> QED  BY <1>1, <1>2

LEMMA TableInvHolds == Spec => []TableInv
  BY TableInvInit, TableInvStep, PTL DEF Spec

-----------------------------------------------------------------------------
(* The table implements Drafts: each step is one of its steps or none.     *)

\* What Promise takes for text and known.
Written(r) == IF Stage(r) = "none" THEN None ELSE IF Stage(r) = "typing" THEN row[r].display ELSE row[r].value
Heard(r) == IF row[r] = None THEN None ELSE row[r].original

MappedTyped ==
    \A r \in Records :
        Stage(r) \in Promise!Stages /\ Written(r) \in Texts \cup {None} /\ Heard(r) \in Texts \cup {None}

LEMMA TypedMapped == TableInv => MappedTyped
<1> SUFFICES ASSUME TableInv, NEW r \in Records
             PROVE  Stage(r) \in Promise!Stages /\ Written(r) \in Texts \cup {None} /\ Heard(r) \in Texts \cup {None}
  BY DEF MappedTyped
<1>1. row[r] \in Cell \cup {None}
  BY TypesAre DEF TableInv, Rows
<1>2. row[r] # None => row[r].display \in Texts /\ row[r].value \in Texts /\ row[r].original \in Texts
  BY <1>1 DEF Cell
<1>3. row[r] = None => Stage(r) = "none"
  BY DEF Stage
<1> QED  BY <1>2, <1>3 DEF Stage, Written, Heard, Promise!Stages

LEMMA TypedMappedNext == TableInv' => MappedTyped'
  BY TypedMapped, PTL

\* The user may do anything to the drafts, and makes nothing up about the server.
LEMMA IsUser ==
    ASSUME TableInv', hand' = "user", \A r \in Records : Heard(r)' \in {Heard(r), None}
    PROVE  Promise!User
<1>1. \A r \in Records :
          Stage(r)' \in Promise!Stages /\ Written(r)' \in Texts \cup {None} /\ Heard(r)' \in Texts \cup {None}
  BY TypedMappedNext DEF MappedTyped
<1> QED  BY <1>1 DEF Promise!User, Written, Heard

LEMMA IsHear ==
    ASSUME TableInv', hand' = "browser",
           \A r \in Records :
               \/ Stage(r)' = Stage(r) /\ Written(r)' = Written(r) /\ Heard(r)' # None
               \/ Heard(r)' = None /\ Stage(r)' = "none" /\ Written(r)' = None
               \/ /\ Stage(r) = "unsent" /\ Heard(r)' = Written(r)
                  /\ \/ Stage(r)' = "none" /\ Written(r)' = None
                     \/ Stage(r)' = "sent" /\ Written(r)' = Written(r)
    PROVE  Promise!Hear
<1>1. \A r \in Records : Heard(r)' \in Texts \cup {None}
  BY TypedMappedNext DEF MappedTyped
<1> QED  BY <1>1 DEF Promise!Hear, Written, Heard

LEMMA IsAnswer ==
    ASSUME hand' = "browser", \A r \in Records : Heard(r)' = Heard(r),
           \A r \in Records :
               \/ Stage(r)' = Stage(r) /\ Written(r)' = Written(r)
               \/ Stage(r) = "sent" /\ Stage(r)' = "unsent" /\ Written(r)' = Written(r)
               \/ Stage(r) = "sent" /\ Stage(r)' = "none" /\ Written(r)' = None
    PROVE  Promise!Answer
  BY DEF Promise!Answer, Written, Heard

LEMMA DraftsInit == Init => Promise!Init
<1> SUFFICES ASSUME Init PROVE Promise!Init  OBVIOUS
<1>1. row = [r \in Records |-> None] /\ hand = "browser"
  BY DEF Init
<1>2. \A r \in Records : Stage(r) = "none" /\ Written(r) = None /\ Heard(r) = None
  BY <1>1 DEF Stage, Written, Heard
<1> QED  BY <1>1, <1>2 DEF Promise!Init, Written, Heard

\* The page stays as it is.
LEMMA NothingHeard ==
    ASSUME UNCHANGED <<row, focus, twice>>, hand' = "browser"
    PROVE  Promise!Answer
<1>1. \A r \in Records : Stage(r)' = Stage(r) /\ Written(r)' = Written(r) /\ Heard(r)' = Heard(r)
  BY DEF Stage, Written, Heard, Focused
<1> QED  BY <1>1, IsAnswer

\* Something is read, and all rows are refreshed.
LEMMA SomethingHeard ==
    ASSUME TableInv, TableInv', db' \in Datas, Trimmed(refreshed(db')), twice' = twice, hand' = "browser"
    PROVE  Promise!Hear
<1>1. TypeOK /\ row' = refreshed(db')
  BY DEF TableInv, Trimmed
<1> SUFFICES ASSUME NEW r \in Records
             PROVE  \/ Stage(r)' = Stage(r) /\ Written(r)' = Written(r) /\ Heard(r)' # None
                    \/ Heard(r)' = None /\ Stage(r)' = "none" /\ Written(r)' = None
                    \/ /\ Stage(r) = "unsent" /\ Heard(r)' = Written(r)
                       /\ \/ Stage(r)' = "none" /\ Written(r)' = None
                          \/ Stage(r)' = "sent" /\ Written(r)' = Written(r)
  BY IsHear
<1>2. CASE row'[r] = None
  <2>1. Stage(r)' = "none" /\ Heard(r)' = None
    BY <1>2 DEF Stage, Heard
  <2>2. Written(r)' = None
    BY <2>1 DEF Written
  <2> QED  BY <2>1, <2>2
<1>3. CASE row'[r] # None
  <2>1. alive(db'[r]) /\ row'[r] = refreshed(db')[r]
    BY <1>1, <1>3, RefreshedIs
  <2>2. row'[r] \in Cell /\ Heard(r)' = row'[r].original /\ Heard(r)' # None
    <3>1. row'[r] \in Cell
      BY <1>1, <2>1, RefreshedIs
    <3> QED  BY <1>3, <3>1, NoneIsOther DEF Heard, Cell
  <2>3. Focused' = r <=> Focused = r
    BY <1>1, <1>3, TrimmedKeeps
  <2>4. CASE r \in twice
    <3>1. Stage(r) = "none" /\ Stage(r)' = "none"
      BY <2>4 DEF Stage
    <3>2. Written(r) = None /\ Written(r)' = None
      BY <3>1 DEF Written
    <3> QED  BY <2>2, <3>1, <3>2
  <2>5. CASE r \notin twice /\ row[r] = None
    <3>1. "modified" \notin row'[r].marks /\ "pending" \notin row'[r].marks
      BY <1>1, <2>1, <2>5, RefreshedIs
    <3>2. Focused # r
      BY <1>1, <2>5, FocusedIs, TypesAre, NoneIsOther
    <3>3. Stage(r) = "none" /\ Stage(r)' = "none"
      BY <2>3, <2>5, <3>1, <3>2 DEF Stage
    <3>4. Written(r) = None /\ Written(r)' = None
      BY <3>3 DEF Written
    <3> QED  BY <2>2, <3>3, <3>4
  <2>6. CASE r \notin twice /\ row[r] # None
    <3>1. /\ "pending" \in row'[r].marks <=> "pending" \in row[r].marks
          /\ "modified" \in row'[r].marks <=> "modified" \in row[r].marks /\ row[r].value # row'[r].original
          /\ "modified" \in row[r].marks \/ "pending" \in row[r].marks => row'[r].value = row[r].value
          /\ Focused = r => row'[r].display = row[r].display
      BY <1>1, <2>1, <2>6, RefreshedIs
    <3>2. CASE Focused = r
      <4>1. Stage(r) = "typing" /\ Stage(r)' = "typing"
        BY <1>3, <2>3, <2>6, <3>2 DEF Stage
      <4>2. Written(r)' = Written(r)
        BY <3>1, <3>2, <4>1 DEF Written
      <4> QED  BY <2>2, <4>1, <4>2
    <3>3. CASE Focused # r /\ "modified" \in row[r].marks
      <4>1. Stage(r) = "unsent" /\ Written(r) = row[r].value
        BY <2>6, <3>3 DEF Stage, Written
      <4>2. CASE row[r].value # row'[r].original
        <5>1. Stage(r)' = "unsent"
          BY <1>3, <2>3, <2>6, <3>1, <3>3, <4>2 DEF Stage
        <5>2. Written(r)' = Written(r)
          BY <3>1, <3>3, <4>1, <5>1 DEF Written
        <5> QED  BY <2>2, <4>1, <5>1, <5>2
      <4>3. CASE row[r].value = row'[r].original /\ "pending" \in row[r].marks
        <5>1. Stage(r)' = "sent"
          BY <1>3, <2>3, <2>6, <3>1, <3>3, <4>3 DEF Stage
        <5>2. Written(r)' = Written(r)
          BY <3>1, <3>3, <4>1, <5>1 DEF Written
        <5> QED  BY <2>2, <4>1, <4>3, <5>1, <5>2
      <4>4. CASE row[r].value = row'[r].original /\ "pending" \notin row[r].marks
        <5>1. Stage(r)' = "none"
          BY <1>3, <2>3, <2>6, <3>1, <3>3, <4>4 DEF Stage
        <5>2. Written(r)' = None
          BY <5>1 DEF Written
        <5> QED  BY <2>2, <4>1, <4>4, <5>1, <5>2
      <4> QED  BY <4>2, <4>3, <4>4
    <3>4. CASE Focused # r /\ "modified" \notin row[r].marks /\ "pending" \in row[r].marks
      <4>1. Stage(r) = "sent" /\ Stage(r)' = "sent"
        BY <1>3, <2>3, <2>6, <3>1, <3>4 DEF Stage
      <4>2. Written(r)' = Written(r)
        BY <3>1, <3>4, <4>1 DEF Written
      <4> QED  BY <2>2, <4>1, <4>2
    <3>5. CASE Focused # r /\ "modified" \notin row[r].marks /\ "pending" \notin row[r].marks
      <4>1. Stage(r) = "none" /\ Stage(r)' = "none"
        BY <1>3, <2>3, <2>6, <3>1, <3>5 DEF Stage
      <4>2. Written(r) = None /\ Written(r)' = None
        BY <4>1 DEF Written
      <4> QED  BY <2>2, <4>1, <4>2
    <3> QED  BY <3>2, <3>3, <3>4, <3>5
  <2> QED  BY <2>4, <2>5, <2>6
<1> QED  BY <1>2, <1>3

\* A submission ends: its fields are stored, or the user's again.
LEMMA SubmissionEnds ==
    ASSUME TableInv, NEW i \in DOMAIN posts, UNCHANGED <<db, focus, twice>>, hand' = "browser",
           row' = Cleaned(posts[i].cells) \/ row' = Reset(posts[i].cells)
    PROVE  Promise!Answer
<1> DEFINE asked == posts[i].cells
<1>1. TypeOK /\ asked \in SUBSET Records /\ \A r \in asked : row[r] # None /\ (r \notin twice => "pending" \in row[r].marks)
  BY PostIs DEF TableInv, CellsHeld
<1>2. row' = Cleaned(asked) \/ row' = Reset(asked)
  OBVIOUS
<1> HIDE DEF asked
<1>3. None \notin Cell /\ Focused' = Focused
  BY NoneIsOther DEF Focused
<1>4. ASSUME NEW r \in Records
      PROVE  /\ Heard(r)' = Heard(r)
             /\ \/ Stage(r)' = Stage(r) /\ Written(r)' = Written(r)
                \/ Stage(r) = "sent" /\ Stage(r)' = "unsent" /\ Written(r)' = Written(r)
                \/ Stage(r) = "sent" /\ Stage(r)' = "none" /\ Written(r)' = None
  <2>1. CASE r \notin asked
    <3>1. row'[r] = row[r]
      BY <1>1, <1>2, <2>1, CleanedIs, ResetIs
    <3> QED  BY <1>3, <3>1 DEF Stage, Written, Heard
  <2>2. CASE r \in asked
    <3>1. /\ row'[r] \in Cell /\ row'[r].original = row[r].original /\ row'[r].value = row[r].value
          /\ row'[r].display = row[r].display /\ "pending" \notin row'[r].marks
          /\ "modified" \in row[r].marks => "modified" \in row'[r].marks
      <4>1. CASE row' = Cleaned(asked)
        BY <1>1, <2>2, <4>1, CleanedIs
      <4>2. CASE row' = Reset(asked)
        BY <1>1, <2>2, <4>2, ResetIs
      <4> QED  BY <1>2, <4>1, <4>2
    <3>2. row[r] # None /\ row'[r] # None
      BY <1>1, <1>3, <2>2, <3>1
    <3>3. Heard(r)' = Heard(r)
      BY <3>1, <3>2 DEF Heard
    <3>4. CASE r \in twice
      <4>1. Stage(r)' = "none" /\ Stage(r) = "none"
        BY <3>4 DEF Stage
      <4> QED  BY <3>3, <4>1 DEF Written
    <3>5. CASE r \notin twice /\ Focused = r
      <4>1. Stage(r)' = "typing" /\ Stage(r) = "typing"
        BY <1>3, <3>2, <3>5 DEF Stage
      <4> QED  BY <3>1, <3>3, <4>1 DEF Written
    <3>6. CASE r \notin twice /\ Focused # r /\ "modified" \in row[r].marks
      <4>1. Stage(r)' = "unsent" /\ Stage(r) = "unsent"
        BY <1>3, <3>1, <3>2, <3>6 DEF Stage
      <4> QED  BY <3>1, <3>3, <4>1 DEF Written
    <3>7. CASE r \notin twice /\ Focused # r /\ "modified" \notin row[r].marks
      <4>1. Stage(r) = "sent" /\ Written(r) = row[r].value
        BY <1>1, <2>2, <3>2, <3>7 DEF Stage, Written
      <4>2. CASE "modified" \in row'[r].marks
        <5>1. Stage(r)' = "unsent"
          BY <1>3, <3>2, <3>7, <4>2 DEF Stage
        <5> QED  BY <3>1, <3>3, <4>1, <5>1 DEF Written
      <4>3. CASE "modified" \notin row'[r].marks
        <5>1. Stage(r)' = "none"
          BY <1>3, <3>1, <3>2, <3>7, <4>3 DEF Stage
        <5> QED  BY <3>3, <4>1, <5>1 DEF Written
      <4> QED  BY <4>2, <4>3
    <3> QED  BY <3>4, <3>5, <3>6, <3>7
  <2> QED  BY <2>1, <2>2
<1> QED  BY <1>4, IsAnswer

\* Whatever the user does, rows hold on to what the server was heard to have.
LEMMA UserEdits ==
    ASSUME TableInv, TableInv', hand' = "user",
           \A r \in Records : row'[r] # None => row[r] # None /\ row'[r].original = row[r].original
    PROVE  Promise!User
<1>1. \A r \in Records : Heard(r)' \in {Heard(r), None}
  BY DEF Heard
<1> QED  BY <1>1, IsUser

LEMMA UserSteps ==
    ASSUME TableInv, TableInv', Focus \/ Type \/ Entered \/ Rollback \/ Commit \/ Create
    PROVE  Promise!User
<1>1. hand' = "user"
  BY DEF Focus, Type, Entered, Rollback, Commit, Create, ByUser
<1>2. \A r \in Records : row'[r] # None => row[r] # None /\ row'[r].original = row[r].original
  \* Rows follow DB, so it is enough that DB only loses records.
  <2>1. \A r \in Records : db'[r] = db[r] \/ db'[r] = None
    <3>1. CASE Rollback
      <4>1. PICK r \in Records : RolledBack(r)
        BY <3>1 DEF Rollback
      <4>2. db' = db \/ db' = [db EXCEPT ![r] = None]
        BY <4>1 DEF RolledBack, Deleted
      <4>3. db \in Datas
        BY TypesAre DEF TableInv
      <4> QED  BY <4>2, <4>3 DEF Datas
    <3>2. CASE Focus \/ Type \/ Entered \/ Commit \/ Create
      BY <3>2 DEF Focus, Type, Entered, Commit, Create, page
    <3> QED  BY <3>1, <3>2
  <2> SUFFICES ASSUME NEW r \in Records, row'[r] # None PROVE row[r] # None /\ row'[r].original = row[r].original
    OBVIOUS
  <2>2. alive(db'[r]) /\ row'[r].original = db'[r].text
    BY DEF TableInv, RowsFollow, alive
  <2>3. db'[r] = db[r] /\ alive(db[r])
    BY <2>1, <2>2 DEF alive
  <2> QED  BY <2>2, <2>3 DEF TableInv, RowsFollow
<1> QED  BY <1>1, <1>2, UserEdits

LEMMA DraftsStep == TableInv /\ TableInv' /\ [Next]_vars => [Promise!Next]_Promise!vars
<1> SUFFICES ASSUME TableInv, TableInv', [Next]_vars PROVE [Promise!Next]_Promise!vars  OBVIOUS
<1>1. CASE UNCHANGED vars
  <2>1. UNCHANGED <<row, focus, twice, hand>>
    BY <1>1 DEF vars, page
  <2>2. \A r \in Records : Stage(r)' = Stage(r) /\ Written(r)' = Written(r) /\ Heard(r)' = Heard(r)
    BY <2>1 DEF Stage, Written, Heard, Focused
  <2> QED  BY <2>1, <2>2 DEF Promise!vars, Written, Heard
<1>2. CASE Poll \/ GetServed \/ GetFails \/ PostServed \/ SweepDB \/ Elsewhere
  <2>1. UNCHANGED <<row, focus, twice>> /\ hand' = "browser"
    BY <1>2 DEF Poll, GetServed, GetFails, PostServed, SweepDB, Elsewhere, ByBrowser, page
  <2> QED  BY <2>1, NothingHeard DEF Promise!Next
<1>3. CASE GetArrives
  <2>1. PICK i \in DOMAIN gets : gets[i] # Unserved /\ db' = Updated(gets[i][1])
    BY <1>3 DEF GetArrives
  <2>2. db' \in Datas
    BY <2>1, GetsAre, AnswersAre, UpdatedTyped DEF TableInv
  <2>3. Trimmed(refreshed(db')) /\ twice' = twice /\ hand' = "browser"
    BY <1>3 DEF GetArrives, ByBrowser
  <2> QED  BY <2>2, <2>3, SomethingHeard DEF Promise!Next
<1>4. CASE PostRead
  <2>1. PICK i \in DOMAIN posts : posts[i].at = "answered" /\ db' = Updated(posts[i].answer[1])
    BY <1>4 DEF PostRead
  <2>2. db' \in Datas
    BY <2>1, AnswerIs, UpdatedTyped DEF TableInv
  <2>3. Trimmed(refreshed(db')) /\ twice' = twice /\ hand' = "browser"
    BY <1>4 DEF PostRead, ByBrowser
  <2> QED  BY <2>2, <2>3, SomethingHeard DEF Promise!Next
<1>5. CASE PostAnswered \/ PostFails
  <2>1. PICK i \in DOMAIN posts : row' = Cleaned(posts[i].cells) \/ row' = Reset(posts[i].cells)
    BY <1>5 DEF PostAnswered, PostFails
  <2>2. UNCHANGED <<db, focus, twice>> /\ hand' = "browser"
    BY <1>5 DEF PostAnswered, PostFails, ByBrowser
  <2> QED  BY <2>1, <2>2, SubmissionEnds DEF Promise!Next
<1>6. CASE Focus \/ Type \/ Entered \/ Rollback \/ Commit \/ Create
  BY <1>6, UserSteps DEF Promise!Next
<1> QED  BY <1>1, <1>2, <1>3, <1>4, <1>5, <1>6 DEF Next

-----------------------------------------------------------------------------
(* Theorems. *)

\* Records, rows, focus and requests keep to their types, and the focus is in a row.
THEOREM TableIsTyped == Spec => []TypeOK
<1>1. TableInv => TypeOK
  BY DEF TableInv
<1> QED  BY <1>1, TableInvHolds, PTL

\* Whatever is refreshed, submitted, refused, lost or rolled back, and in whatever order the
\* answers come: what a commit would not send is what the page was last told, unless an answer is
\* just being read.
THEOREM NothingIsLeftUnmarked == Spec => []UnmarkedIsStored
<1>1. TableInv => UnmarkedIsStored
  BY DEF TableInv
<1> QED  BY <1>1, TableInvHolds, PTL

\* tabular.js implements Drafts: every step of a table page is one that Drafts allows, or is not
\* seen there.
THEOREM TableKeepsDrafts == Spec => DraftsAreKept
<1>1. Spec => Promise!Spec
  BY TableInvHolds, DraftsInit, DraftsStep, PTL DEF Spec, Promise!Spec
<1> QED  BY <1>1 DEF DraftsAreKept

-----------------------------------------------------------------------------
(* CardDates, as Date: what waits to be sent is only ever set from what    *)
(* was chosen.                                                             *)

IsField(f) == f = [shown |-> f.shown, value |-> f.value, original |-> f.original,
                   modified |-> f.modified, defval |-> f.defval]

FieldOK == IsField(date) /\ (date.modified => date.value = chosen)

LEMMA SetSays ==
    ASSUME NEW f, IsField(f), NEW v
    PROVE  LET g == Date!Set(f, v) IN
           /\ IsField(g) /\ g.value = v /\ g.original = f.original /\ g.shown = f.shown
           /\ g.modified = (v # f.original)
<1>1. PICK g : g = Date!Set(f, v)
  OBVIOUS
<1>2. g = [shown |-> f.shown, value |-> v, original |-> f.original, modified |-> v # f.original, defval |-> f.defval]
  BY <1>1 DEF Date!Set, IsField
<1> QED  BY <1>1, <1>2 DEF IsField

LEMMA DefaultSays ==
    ASSUME NEW f, IsField(f), NEW v
    PROVE  LET g == Date!WithDefault(f, v) IN
           /\ IsField(g) /\ g.value = f.value /\ g.original = f.original /\ g.modified = f.modified
<1>1. PICK g : g = Date!WithDefault(f, v)
  OBVIOUS
<1>2. \E shown, defval : g = [shown |-> shown, value |-> f.value, original |-> f.original,
                              modified |-> f.modified, defval |-> defval]
  BY <1>1 DEF Date!WithDefault, IsField
<1> QED  BY <1>1, <1>2 DEF IsField

LEMMA EditSays ==
    ASSUME NEW f, IsField(f)
    PROVE  LET g == Date!Edited(f) IN IsField(g) /\ g.value = f.shown
<1>1. IsField(Date!Set(f, f.shown)) /\ Date!Set(f, f.shown).value = f.shown
  BY SetSays
<1> QED  BY <1>1, DefaultSays DEF Date!Edited

\* A refresh keeps the value of a field that is modified.
LEMMA RefreshSays ==
    ASSUME NEW f, IsField(f), NEW v
    PROVE  LET g == Date!Refreshed(f, v) IN
           IsField(g) /\ (g.modified => f.modified /\ g.value = f.value)
<1>1. PICK new : new = [f EXCEPT !.original = v]
  OBVIOUS
<1>2. new = [shown |-> f.shown, value |-> f.value, original |-> v, modified |-> f.modified, defval |-> f.defval]
  BY <1>1 DEF IsField
<1>3. PICK updated : updated = IF f.modified THEN [new EXCEPT !.modified = f.value # v]
                                             ELSE Date!Set([new EXCEPT !.shown = v], v)
  OBVIOUS
<1>4. IsField(updated) /\ (updated.modified => f.modified /\ updated.value = f.value)
  <2>1. CASE f.modified
    <3>1. updated = [shown |-> f.shown, value |-> f.value, original |-> v, modified |-> f.value # v, defval |-> f.defval]
      BY <2>1, <1>2, <1>3
    <3> QED  BY <2>1, <3>1 DEF IsField
  <2>2. CASE ~f.modified
    <3>1. PICK seen : seen = [new EXCEPT !.shown = v]
      OBVIOUS
    <3>2. IsField(seen) /\ seen.original = v
      BY <3>1, <1>2 DEF IsField
    <3> QED  BY <2>2, <3>1, <3>2, <1>3, SetSays
  <2> QED  BY <2>1, <2>2
<1>5. Date!Refreshed(f, v) = Date!WithDefault(updated, v)
  BY <1>1, <1>3 DEF Date!Refreshed
<1> QED  BY <1>4, <1>5, DefaultSays

LEMMA DateInits == Date!DatesInit => FieldOK
  BY DEF Date!DatesInit, FieldOK, IsField

\* What is modified goes on being what was chosen.
LEMMA DateStep == FieldOK /\ [Date!DatesNext]_Date!dateVars => FieldOK'
<1> SUFFICES ASSUME FieldOK, [Date!DatesNext]_Date!dateVars PROVE FieldOK'  OBVIOUS
<1>0. IsField(date)
  BY DEF FieldOK
<1>1. CASE Date!Type
  <2>1. PICK v : date' = Date!Edited([date EXCEPT !.shown = v]) /\ chosen' = v
    BY <1>1 DEF Date!Type
  <2>2. PICK f : f = [date EXCEPT !.shown = v]
    OBVIOUS
  <2>3. IsField(f) /\ f.shown = v
    BY <2>2, <1>0 DEF IsField
  <2>4. IsField(date') /\ date'.value = chosen'
    BY <2>1, <2>2, <2>3, EditSays
  <2> QED  BY <2>4 DEF FieldOK, IsField
<1>2. CASE Date!Enter
  <2>1. date' = Date!Set(date, date.shown) /\ chosen' = date.shown
    BY <1>2 DEF Date!Enter
  <2>2. IsField(date') /\ date'.value = chosen'
    BY <2>1, <1>0, SetSays
  <2> QED  BY <2>2 DEF FieldOK, IsField
<1>3. CASE Date!Rollback
  <2>1. PICK f : f = [date EXCEPT !.shown = date.original]
    OBVIOUS
  <2>2. IsField(f) /\ f.original = date.original
    BY <2>1, <1>0 DEF IsField
  <2>3. date' = Date!Set(f, date.original)
    BY <1>3, <2>1 DEF Date!Rollback
  <2>4. IsField(date') /\ ~date'.modified
    BY <2>2, <2>3, SetSays
  <2> QED  BY <2>4 DEF FieldOK, IsField
<1>4. CASE Date!Commit
  <2>1. PICK f : f = [date EXCEPT !.modified = FALSE]
    OBVIOUS
  <2>2. IsField(f) /\ ~f.modified
    BY <2>1, <1>0 DEF IsField
  <2>3. date' = Date!Refreshed(f, date.value)
    BY <1>4, <2>1 DEF Date!Commit
  <2>4. IsField(date') /\ ~date'.modified
    BY <2>2, <2>3, RefreshSays
  <2> QED  BY <2>4 DEF FieldOK, IsField
<1>5. CASE Date!Hear
  <2>1. date' = Date!Refreshed(date, stored) /\ chosen' = chosen
    BY <1>5 DEF Date!Hear
  <2>2. IsField(date') /\ (date'.modified => date.modified /\ date'.value = date.value)
    BY <2>1, <1>0, RefreshSays
  <2> QED  BY <2>1, <2>2 DEF FieldOK, IsField
<1>6. CASE Date!HearSystem \/ Date!Elsewhere \/ UNCHANGED Date!dateVars
  BY <1>6 DEF Date!HearSystem, Date!Elsewhere, Date!dateVars, FieldOK, IsField
<1> QED  BY <1>1, <1>2, <1>3, <1>4, <1>5, <1>6 DEF Date!DatesNext

\* onDateEdit(), onEnter(), updateFromDB(): a default that is shown in place of a date is never what
\* a field submits, whatever is typed, confirmed, rolled back, committed and refreshed.
THEOREM DefaultsStayHere ==
    Date!DatesInit /\ [][Date!DatesNext]_Date!dateVars => []Date!DefaultsAreNotSent
<1>1. FieldOK => Date!DefaultsAreNotSent
  BY DEF FieldOK, Date!DefaultsAreNotSent
<1> QED  BY <1>1, DateInits, DateStep, PTL

-----------------------------------------------------------------------------
(* Combobox, as Combo: the flags say no more than what is, and the list    *)
(* has the focus only while it is open, but for a click.                   *)

FlagsOK ==
    /\ closing \in Nat
    /\ inputHasFocus \/ listHasFocus => focused
    /\ hasHover => over
    /\ open /\ ~focused /\ ~over => closing > 0

ListOK ==
    /\ listHasFocus => open \/ clicked
    /\ ~open /\ ~clicked => marked = NoChoice

TextOK ==
    /\ ~focused => ~typed
    /\ ~typed /\ ~tabbed => shownText = taken

ComboInv == FlagsOK /\ ListOK /\ TextOK

LEMMA ComboInits == Combo!ComboInit => ComboInv
  BY DEF Combo!ComboInit, ComboInv, FlagsOK, ListOK, TextOK

LEMMA ComboStep == ComboInv /\ [Combo!ComboNext]_Combo!comboVars => ComboInv'
<1> SUFFICES ASSUME ComboInv, [Combo!ComboNext]_Combo!comboVars PROVE ComboInv'  OBVIOUS
<1> USE DEF ComboInv, FlagsOK, ListOK, TextOK, Combo!SetFocusCombobox, Combo!SetVisualFocusListbox,
            Combo!RemoveVisualFocusAll, Combo!Choose, Combo!Left, Combo!Select, Combo!Opens, Combo!Closes,
            Combo!Key, Combo!flags, Combo!strays, Combo!ClosesLater
<1>1. CASE Combo!Focus
  BY <1>1 DEF Combo!Focus
<1>2. CASE Combo!LeaveField
  BY <1>2 DEF Combo!LeaveField
<1>3. CASE Combo!Close
  BY <1>3 DEF Combo!Close
<1>4. CASE Combo!Enter
  BY <1>4 DEF Combo!Enter
<1>5. CASE Combo!ArrowDown \/ Combo!ArrowUp
  <2>1. listHasFocus' = TRUE /\ inputHasFocus' = FALSE /\ focused /\ focused' = focused
    BY <1>5 DEF Combo!ArrowDown, Combo!ArrowUp
  <2>3. open' \/ clicked
    <3>1. open' = TRUE \/ open' = (open \/ ~listHasFocus)
      BY <1>5 DEF Combo!ArrowDown, Combo!ArrowUp
    <3> QED  BY <3>1
  <2>2. UNCHANGED <<over, hasHover, shownText, typed, taken, closing, tabbed, clicked>>
    BY <1>5 DEF Combo!ArrowDown, Combo!ArrowUp
  <2> QED  BY <2>1, <2>2, <2>3
<1>6. CASE Combo!AltDown \/ Combo!AltUp
  BY <1>6 DEF Combo!AltDown, Combo!AltUp
<1>7. CASE Combo!Escape
  BY <1>7 DEF Combo!Escape
<1>8. CASE Combo!Tab
  BY <1>8 DEF Combo!Tab
<1>9. CASE Combo!Moves(TRUE) \/ Combo!Moves(FALSE)
  <2>1. /\ focused /\ focused' = focused /\ inputHasFocus' = TRUE /\ listHasFocus' = FALSE /\ marked' = NoChoice
        /\ UNCHANGED <<over, hasHover, open, taken, closing, tabbed, clicked>>
    BY <1>9 DEF Combo!Moves
  <2>2. typed' = (typed \/ shownText' # shownText)
    BY <1>9 DEF Combo!Moves
  <2>3. TextOK'
    BY <2>1, <2>2
  <2> QED  BY <2>1, <2>3
<1>10. CASE Combo!Type
  BY <1>10 DEF Combo!Type
<1>11. CASE Combo!ClickField
  BY <1>11 DEF Combo!ClickField
<1>12. CASE Combo!ClickOption
  BY <1>12 DEF Combo!ClickOption
<1>13. CASE Combo!MouseOver
  BY <1>13 DEF Combo!MouseOver
<1>14. CASE Combo!MouseOut
  BY <1>14 DEF Combo!MouseOut
<1>15. CASE UNCHANGED Combo!comboVars
  BY <1>15 DEF Combo!comboVars
<1> QED  BY <1>1, <1>2, <1>3, <1>4, <1>5, <1>6, <1>7, <1>8, <1>9, <1>10, <1>11, <1>12, <1>13, <1>14, <1>15
         DEF Combo!ComboNext

\* combobox.js: for any options and texts, a list that nothing holds open is about to be closed, it
\* opens with nothing selected, and a field that is left shows what it said with 'change'.
THEOREM TheComboboxSettles ==
    Combo!Spec => [](Combo!OpenListCloses /\ Combo!OpensUnselected /\ Combo!ShownIsTaken)
<1>1. ComboInv => Combo!OpenListCloses /\ Combo!OpensUnselected /\ Combo!ShownIsTaken
  BY DEF ComboInv, FlagsOK, ListOK, TextOK, Combo!OpenListCloses, Combo!OpensUnselected, Combo!ShownIsTaken
<1> QED  BY <1>1, ComboInits, ComboStep, PTL DEF Combo!Spec

-----------------------------------------------------------------------------
(* Objects, as Object: what DB will have once it has heard what is on its  *)
(* way agrees with what the server has.                                    *)

Kinds == DOMAIN Object!Fields
RecordFields == DOMAIN Object!Fields[list] \cup DOMAIN Object!ListedFields[list]
Unread(k, f) == k = "interfaces" /\ f \in {"created", "deleted"}
Apart(k) == \A f, g \in DOMAIN Object!ListedFields[k] : Object!ListedFields[k][f] = Object!ListedFields[k][g] => f = g
Read(k) == \A f \in DOMAIN Object!ListedFields[k] : Unread(k, f) \/ Object!SuffixOf(f) = Object!ListedFields[k][f]

\* The kinds of records there are.
LEMMA TheKinds == Kinds = {"system", "interfaces", "controllers", "doors", "cards", "groups", "events", "logs", "users"}
BY DEF Kinds, Object!Fields

\* catalog/schema: no two fields of a kind are listed under one OID.
LEMMA ListedApart == \A k \in Kinds : Apart(k)
<1> SUFFICES ASSUME NEW k \in Kinds PROVE Apart(k)
  OBVIOUS
<1>1. k = "system" => Apart(k)
  BY DEF Apart, Object!ListedFields
<1>2. k = "interfaces" => Apart(k)
  BY DEF Apart, Object!ListedFields
<1>3. k = "controllers" => Apart(k)
  BY DEF Apart, Object!ListedFields
<1>4. k = "doors" => Apart(k)
  BY DEF Apart, Object!ListedFields
<1>5. k = "cards" => Apart(k)
  BY DEF Apart, Object!ListedFields
<1>6. k = "groups" => Apart(k)
  BY DEF Apart, Object!ListedFields
<1>7. k = "events" => Apart(k)
  BY DEF Apart, Object!ListedFields
<1>8. k = "logs" => Apart(k)
  BY DEF Apart, Object!ListedFields
<1>9. k = "users" => Apart(k)
  BY DEF Apart, Object!ListedFields
<1> QED  BY <1>1, <1>2, <1>3, <1>4, <1>5, <1>6, <1>7, <1>8, <1>9, TheKinds

\* schema.js and db.js know every OID that is listed, but for two of the interface.
LEMMA ListedIsRead == list \in Kinds => Read(list)
<1> SUFFICES ASSUME list \in Kinds PROVE Read(list)
  OBVIOUS
<1>1. list = "system" => Read(list)
  BY DEF Read, Unread, Object!ListedFields, Object!SuffixOf, Object!Fields, Object!SystemFields
<1>2. list = "interfaces" => Read(list)
  BY DEF Read, Unread, Object!ListedFields, Object!SuffixOf, Object!Fields, Object!InterfaceFields
<1>3. list = "controllers" => Read(list)
  BY DEF Read, Unread, Object!ListedFields, Object!SuffixOf, Object!Fields, Object!ControllerFields
<1>4. list = "doors" => Read(list)
  BY DEF Read, Unread, Object!ListedFields, Object!SuffixOf, Object!Fields, Object!DoorFields
<1>5. list = "cards" => Read(list)
  <2> SUFFICES ASSUME list = "cards", NEW f \in DOMAIN Object!ListedFields[list] PROVE Object!SuffixOf(f) = Object!ListedFields[list][f]
    BY DEF Read
  <2> USE DEF Object!ListedFields, Object!SuffixOf, Object!Fields, Object!CardFields
  <2>1. \/ f \in {"status", "created", "deleted", "name", "managementGroup"}
        \/ f \in {"number", "from", "to", "PIN"}
        \/ f \in {"kind", "label"}
        \/ f \in {"member", "of"}
    OBVIOUS
  <2>2. CASE f \in {"status", "created", "deleted", "name", "managementGroup"}  BY <2>2
  <2>3. CASE f \in {"number", "from", "to", "PIN"}  BY <2>3
  <2>4. CASE f \in {"kind", "label"}  BY <2>4
  <2>5. CASE f \in {"member", "of"}
    <3>1. f \notin DOMAIN Object!Fields[list]
      BY <2>5
    <3>2. Object!Members[list] = 5
      BY DEF Object!Members
    <3>3. Object!SuffixOf(f) = IF f = "member" THEN <<5, 7>> ELSE <<5, 7, 1>>
      BY <2>5, <3>1, <3>2
    <3>4. Object!ListedFields[list][f] = IF f = "member" THEN <<5, 7>> ELSE <<5, 7, 1>>
      BY <2>5
    <3> HIDE DEF Object!SuffixOf, Object!ListedFields
    <3> QED  BY <3>3, <3>4
  <2> QED  BY <2>1, <2>2, <2>3, <2>4, <2>5
<1>6. list = "groups" => Read(list)
  BY DEF Read, Unread, Object!ListedFields, Object!SuffixOf, Object!Fields, Object!GroupFields, Object!Members
<1>7. list = "events" => Read(list)
  BY DEF Read, Unread, Object!ListedFields, Object!SuffixOf, Object!Fields, Object!EventFields
<1>8. list = "logs" => Read(list)
  BY DEF Read, Unread, Object!ListedFields, Object!SuffixOf, Object!Fields, Object!LogFields
<1>9. list = "users" => Read(list)
  BY DEF Read, Unread, Object!ListedFields, Object!SuffixOf, Object!Fields, Object!UserFields
<1> QED  BY <1>1, <1>2, <1>3, <1>4, <1>5, <1>6, <1>7, <1>8, <1>9, TheKinds

LEMMA KindIsOfCards == \A k \in Kinds : "kind" \in DOMAIN Object!ListedFields[k] => k = "cards"
<1> SUFFICES ASSUME NEW k \in Kinds PROVE "kind" \in DOMAIN Object!ListedFields[k] => k = "cards"
  OBVIOUS
<1>1. k = "system" => "kind" \notin DOMAIN Object!ListedFields[k]
  BY DEF Object!ListedFields
<1>2. k = "interfaces" => "kind" \notin DOMAIN Object!ListedFields[k]
  BY DEF Object!ListedFields
<1>3. k = "controllers" => "kind" \notin DOMAIN Object!ListedFields[k]
  BY DEF Object!ListedFields
<1>4. k = "doors" => "kind" \notin DOMAIN Object!ListedFields[k]
  BY DEF Object!ListedFields
<1>6. k = "groups" => "kind" \notin DOMAIN Object!ListedFields[k]
  BY DEF Object!ListedFields
<1>7. k = "events" => "kind" \notin DOMAIN Object!ListedFields[k]
  BY DEF Object!ListedFields
<1>8. k = "logs" => "kind" \notin DOMAIN Object!ListedFields[k]
  BY DEF Object!ListedFields
<1>9. k = "users" => "kind" \notin DOMAIN Object!ListedFields[k]
  BY DEF Object!ListedFields
<1> QED  BY <1>1, <1>2, <1>3, <1>4, <1>6, <1>7, <1>8, <1>9, TheKinds

-----------------------------------------------------------------------------
\* What is looked at, the records of the server and those of DB have their shapes; a kind whose
\* records have one OID has one record.
ShapesOK ==
    /\ list \in Kinds /\ field \in DOMAIN Object!ListedFields[list] \ Object!Common
    /\ listServer \in [Numbers -> [state : {"none", "live", "deleted"}, text : FieldTexts \cup {Blank}]]
    /\ \A n \in Numbers : listServer[n].state = "deleted" => "deleted" \in DOMAIN Object!ListedFields[list]
    /\ list = "system" => \A n, m \in Object!Listed : n = m
    /\ \A x \in DOMAIN listDb : DOMAIN listDb[x] = RecordFields

\* FieldsAgree, of the records s of the server and of d.
Agrees(s, d) ==
    /\ \A n \in Numbers : s[n].state = "live" =>
           /\ Object!OID(n) \in DOMAIN d
           /\ \A f \in DOMAIN Object!ListedFields[list] \cap DOMAIN d[Object!OID(n)] :
                  LET v == Object!Holds(s[n], f) IN
                  \/ d[Object!OID(n)][f] = (IF f = "kind" /\ v = Blank THEN "card" ELSE v)
                  \/ ~console /\ f \in Object!Optional /\ v = Blank
                  \/ Unread(list, f)
    /\ \A n \in Numbers : s[n].state \notin {"none", "live"} /\ Object!OID(n) \in DOMAIN d /\ list # "interfaces" =>
           d[Object!OID(n)].deleted # Blank
    /\ console => DOMAIN d = {Object!OID(n) : n \in {m \in Numbers : s[m].state # "none"}}

After(answer) == IF console THEN Object!Replaced(listDb, answer) ELSE Object!Updated(listDb, answer)

AheadOK ==
    fresh => /\ wire = {} => Agrees(listServer, listDb)
             /\ \A answer \in wire : Agrees(listServer, After(answer))

ObjectInv == ShapesOK /\ AheadOK

\* Records that are listed have OIDs of their own.
LEMMA OIDsDiffer ==
    ASSUME ShapesOK, NEW n \in Object!Listed, NEW m \in Object!Listed, Object!OID(n) = Object!OID(m)
    PROVE  n = m
<1>1. CASE list = "system"
  BY <1>1 DEF ShapesOK
<1>2. CASE list # "system"
  <2>1. PICK c : c = CHOOSE i \in DOMAIN Object!Bases : Object!Bases[i] = list
    OBVIOUS
  <2>2. Object!Base(list) = <<0, c>>
    BY <1>2, <2>1 DEF Object!Base
  <2>3. Object!OID(n) = Append(<<0, c>>, n) /\ Object!OID(m) = Append(<<0, c>>, m)
    BY <1>2, <2>2 DEF Object!OID
  <2>4. <<0, c>> \in Seq({0, c, n, m}) /\ Len(<<0, c>>) = 2
    OBVIOUS
  <2>5. PICK s : s = <<0, c>>
    OBVIOUS
  <2>6. Append(s, n)[3] = n /\ Append(s, m)[3] = m
    <3>1. s \in Seq({0, c, n, m}) /\ Len(s) + 1 = 3
      BY <2>4, <2>5
    <3>2. Append(s, n)[Len(s) + 1] = n /\ Append(s, m)[Len(s) + 1] = m
      BY <3>1, AppendProperties
    <3> QED  BY <3>1, <3>2
  <2> QED  BY <2>3, <2>5, <2>6
<1> QED  BY <1>1, <1>2

\* AsObjects(), toObjects(): every field that is listed is found under its OID.
LEMMA ObjectsSay ==
    ASSUME ShapesOK, NEW n \in Object!Listed, NEW f \in DOMAIN Object!ListedFields[list]
    PROVE  LET o == Object!Objects(n)
               x == Object!ListedFields[list][f]
               v == Object!Holds(listServer[n], f) IN
           /\ o.OID = Object!OID(n)
           /\ listServer[n].state = "deleted" => (x \in DOMAIN o.value <=> f = "deleted")
           /\ listServer[n].state # "deleted" => (x \in DOMAIN o.value <=> ~(f \in Object!Optional /\ v = Blank))
           /\ x \in DOMAIN o.value => o.value[x] = v
<1> DEFINE deleted == listServer[n].state = "deleted"
           fields == IF deleted THEN {"deleted"}
                     ELSE {g \in DOMAIN Object!ListedFields[list] : ~(g \in Object!Optional /\ Object!Holds(listServer[n], g) = Blank)}
           value == [x \in {Object!ListedFields[list][g] : g \in fields} |->
                        Object!Holds(listServer[n], CHOOSE g \in fields : Object!ListedFields[list][g] = x)]
<1>1. Object!Objects(n) = [OID |-> Object!OID(n), first |-> IF deleted THEN "deleted" ELSE Blank, value |-> value]
  BY DEF Object!Objects
<1>2. fields \subseteq DOMAIN Object!ListedFields[list]
  BY DEF ShapesOK, Object!Listed
<1>3. (f \in fields) <=> IF deleted THEN f = "deleted" ELSE ~(f \in Object!Optional /\ Object!Holds(listServer[n], f) = Blank)
  OBVIOUS
<1> HIDE DEF fields, deleted
<1>4. \A g, h \in DOMAIN Object!ListedFields[list] : Object!ListedFields[list][g] = Object!ListedFields[list][h] => g = h
  BY ListedApart DEF ShapesOK, Apart
<1>5. Object!ListedFields[list][f] \in DOMAIN value <=> f \in fields
  BY <1>2, <1>4
<1>6. ASSUME f \in fields PROVE value[Object!ListedFields[list][f]] = Object!Holds(listServer[n], f)
  <2>1. PICK g : g = CHOOSE h \in fields : Object!ListedFields[list][h] = Object!ListedFields[list][f]
    OBVIOUS
  <2>2. g \in fields /\ Object!ListedFields[list][g] = Object!ListedFields[list][f]
    BY <2>1, <1>6
  <2>3. g = f
    BY <2>2, <1>2, <1>4
  <2> QED  BY <2>1, <2>3, <1>5, <1>6
<1> HIDE DEF value
<1> QED  BY <1>1, <1>3, <1>5, <1>6 DEF deleted

\* What DB makes of the objects of a record.
LEMMA HeardSays ==
    ASSUME ShapesOK, NEW record, DOMAIN record = RecordFields, NEW objects,
           NEW f \in DOMAIN Object!ListedFields[list], ~Unread(list, f)
    PROVE  LET x == Object!ListedFields[list][f] IN
           /\ DOMAIN Object!Heard(record, objects) = RecordFields
           /\ f \in RecordFields
           /\ Object!Heard(record, objects)[f] =
                  IF x \in DOMAIN objects.value THEN Object!Taken(f, objects.value[x]) ELSE record[f]
<1>1. Object!SuffixOf(f) = Object!ListedFields[list][f]
  BY ListedIsRead DEF ShapesOK, Read
<1>2. f \in RecordFields
  BY DEF RecordFields
<1> QED  BY <1>1, <1>2 DEF Object!Heard

\* The record that an answer makes of one there was, or of a new one.
Old(records0, x, first) == IF x \in DOMAIN records0 THEN records0[x] ELSE Object!NewRecord(first)
Kept == IF console THEN Object!NoRecords ELSE listDb

LEMMA AfterSays ==
    ASSUME NEW answer
    PROVE  /\ DOMAIN After(answer) = DOMAIN Kept \cup {o.OID : o \in answer}
           /\ \A x \in DOMAIN After(answer) :
                  After(answer)[x] =
                      IF \E o \in answer : o.OID = x
                      THEN LET o == CHOOSE p \in answer : p.OID = x
                           IN  Object!Heard(Old(Kept, x, o.first), o)
                      ELSE Kept[x]
<1>1. After(answer) = Object!Updated(Kept, answer)
  BY DEF After, Kept, Object!Replaced
<1> QED  BY <1>1 DEF Object!Updated, Old

LEMMA OldIs ==
    ASSUME ShapesOK, NEW x, NEW first
    PROVE  /\ DOMAIN Old(Kept, x, first) = RecordFields
           /\ DOMAIN Object!NewRecord(first) = RecordFields
<1>1. DOMAIN Object!NewRecord(first) = RecordFields
  BY DEF Object!NewRecord, RecordFields
<1>2. x \in DOMAIN Kept => DOMAIN Kept[x] = RecordFields
  BY DEF Kept, Object!NoRecords, ShapesOK
<1> QED  BY <1>1, <1>2 DEF Old

\* DB keeps its shape, whatever it is told.
LEMMA AfterShapes ==
    ASSUME ShapesOK, NEW answer, NEW x \in DOMAIN After(answer)
    PROVE  DOMAIN After(answer)[x] = RecordFields
<1>1. CASE \E o \in answer : o.OID = x
  <2>1. PICK o : o = CHOOSE p \in answer : p.OID = x
    OBVIOUS
  <2>2. After(answer)[x] = Object!Heard(Old(Kept, x, o.first), o)
    BY <1>1, <2>1, AfterSays
  <2>3. DOMAIN Object!Heard(Old(Kept, x, o.first), o) = DOMAIN Old(Kept, x, o.first)
    BY DEF Object!Heard
  <2> QED  BY <2>2, <2>3, OldIs
<1>2. CASE ~\E o \in answer : o.OID = x
  <2>1. x \in DOMAIN Kept
    <3>1. x \in DOMAIN Kept \cup {o.OID : o \in answer}
      BY AfterSays
    <3> QED  BY <3>1, <1>2
  <2>2. After(answer)[x] = Kept[x]
    BY <1>2, AfterSays
  <2> QED  BY <2>1, <2>2 DEF Kept, Object!NoRecords, ShapesOK
<1> QED  BY <1>1, <1>2

\* AsObjects(), updated(), replace(): once a listing has been heard, DB agrees with the server, whatever it had.
LEMMA ListingAgrees ==
    ASSUME ShapesOK
    PROVE  Agrees(listServer, After({Object!Objects(n) : n \in Object!Listed}))
<1> DEFINE answer == {Object!Objects(n) : n \in Object!Listed}
           d == After(answer)
<1>1. ASSUME NEW n \in Object!Listed
      PROVE  LET o == Object!Objects(n) IN
             /\ Object!OID(n) \in DOMAIN d
             /\ d[Object!OID(n)] = Object!Heard(Old(Kept, Object!OID(n), o.first), o)
  <2>1. PICK o : o = Object!Objects(n)
    OBVIOUS
  <2>2. \A m \in Object!Listed : Object!Objects(m).OID = Object!OID(m)
    BY DEF Object!Objects
  <2>3. o \in answer /\ o.OID = Object!OID(n)
    BY <2>1, <2>2
  <2>4. \A p \in answer : p.OID = Object!OID(n) => p = o
    <3> SUFFICES ASSUME NEW m \in Object!Listed, Object!Objects(m).OID = Object!OID(n)
                 PROVE  Object!Objects(m) = o
      OBVIOUS
    <3>1. Object!OID(m) = Object!OID(n)
      BY <2>2
    <3>2. m = n
      BY <3>1, OIDsDiffer
    <3> QED  BY <2>1, <3>2
  <2>5. o = CHOOSE p \in answer : p.OID = Object!OID(n)
    BY <2>3, <2>4
  <2>6. Object!OID(n) \in DOMAIN d
    <3>1. Object!OID(n) \in {p.OID : p \in answer}
      BY <2>3
    <3> HIDE DEF answer
    <3> QED  BY <3>1, AfterSays
  <2>7. d[Object!OID(n)] = Object!Heard(Old(Kept, Object!OID(n), o.first), o)
    <3>1. \E p \in answer : p.OID = Object!OID(n)
      BY <2>3
    <3> HIDE DEF answer
    <3>2. PICK x : x = Object!OID(n)
      OBVIOUS
    <3>3. x \in DOMAIN After(answer) /\ \E p \in answer : p.OID = x
      BY <2>6, <3>1, <3>2
    <3>4. PICK q : q = CHOOSE p \in answer : p.OID = x
      OBVIOUS
    <3>5. After(answer)[x] = Object!Heard(Old(Kept, x, q.first), q)
      BY <3>3, <3>4, AfterSays
    <3>6. q = o
      BY <2>4, <3>1, <3>2, <3>4
    <3> QED  BY <3>2, <3>5, <3>6
  <2> QED  BY <2>1, <2>6, <2>7
<1>2. DOMAIN d = DOMAIN Kept \cup {Object!OID(n) : n \in Object!Listed}
  <2>1. DOMAIN d = DOMAIN Kept \cup {o.OID : o \in answer}
    BY AfterSays
  <2>2. \A m \in Object!Listed : Object!Objects(m).OID = Object!OID(m)
    BY DEF Object!Objects
  <2>3. {o.OID : o \in answer} = {Object!OID(n) : n \in Object!Listed}
    BY <2>2
  <2> QED  BY <2>1, <2>3
<1> HIDE DEF answer, d
<1>3. ASSUME NEW n \in Numbers, Object!Live(n),
             NEW f \in DOMAIN Object!ListedFields[list] \cap DOMAIN d[Object!OID(n)]
      PROVE  LET v == Object!Holds(listServer[n], f) IN
             \/ d[Object!OID(n)][f] = (IF f = "kind" /\ v = Blank THEN "card" ELSE v)
             \/ ~console /\ f \in Object!Optional /\ v = Blank
             \/ Unread(list, f)
  <2> SUFFICES ASSUME ~Unread(list, f)
               PROVE  LET v == Object!Holds(listServer[n], f) IN
                      \/ d[Object!OID(n)][f] = (IF f = "kind" /\ v = Blank THEN "card" ELSE v)
                      \/ ~console /\ f \in Object!Optional /\ v = Blank
    OBVIOUS
  <2>1. n \in Object!Listed /\ listServer[n].state # "deleted"
    BY <1>3 DEF Object!Listed, Object!Live
  <2>2. PICK o : o = Object!Objects(n)
    OBVIOUS
  <2>3. PICK old : old = Old(Kept, Object!OID(n), o.first)
    OBVIOUS
  <2>4. PICK v : v = Object!Holds(listServer[n], f)
    OBVIOUS
  <2>5. PICK x : x = Object!ListedFields[list][f]
    OBVIOUS
  <2>6. DOMAIN old = RecordFields
    BY <2>3, OldIs
  <2>7. d[Object!OID(n)] = Object!Heard(old, o)
    BY <2>1, <2>2, <2>3, <1>1
  <2>8. d[Object!OID(n)][f] = IF x \in DOMAIN o.value THEN Object!Taken(f, o.value[x]) ELSE old[f]
    BY <2>5, <2>6, <2>7, HeardSays
  <2>9. /\ x \in DOMAIN o.value <=> ~(f \in Object!Optional /\ v = Blank)
        /\ x \in DOMAIN o.value => o.value[x] = v
    BY <2>1, <2>2, <2>4, <2>5, ObjectsSay
  <2>10. Object!Taken(f, v) = IF f = "kind" /\ v = Blank THEN "card" ELSE v
    BY KindIsOfCards DEF Object!Taken, ShapesOK
  <2>11. CASE x \in DOMAIN o.value
    BY <2>4, <2>8, <2>9, <2>10, <2>11
  <2>12. CASE x \notin DOMAIN o.value
    <3>1. f \in Object!Optional /\ v = Blank
      BY <2>9, <2>12
    <3>2. CASE console
      <4>1. old = Object!NewRecord(o.first)
        BY <3>2, <2>3 DEF Old, Kept, Object!NoRecords
      <4>2. old[f] = IF f = "kind" THEN "card" ELSE Blank
        BY <3>1, <4>1 DEF Object!NewRecord, Object!Optional
      <4> QED  BY <2>4, <2>8, <2>12, <3>1, <4>2
    <3> QED  BY <3>1, <3>2, <2>4
  <2> QED  BY <2>11, <2>12
<1>4. ASSUME NEW n \in Object!Listed, ~Object!Live(n), list # "interfaces"
      PROVE  d[Object!OID(n)].deleted # Blank
  <2>1. listServer[n].state = "deleted" /\ "deleted" \in DOMAIN Object!ListedFields[list]
    BY <1>4 DEF ShapesOK, Object!Listed, Object!Live
  <2>2. PICK o : o = Object!Objects(n)
    OBVIOUS
  <2>3. PICK old : old = Old(Kept, Object!OID(n), o.first)
    OBVIOUS
  <2>4. PICK x : x = Object!ListedFields[list]["deleted"]
    OBVIOUS
  <2>5. DOMAIN old = RecordFields
    BY <2>3, OldIs
  <2>6. d[Object!OID(n)] = Object!Heard(old, o)
    BY <2>2, <2>3, <1>1
  <2>7. ~Unread(list, "deleted")
    BY <1>4 DEF Unread
  <2>8. d[Object!OID(n)]["deleted"] = IF x \in DOMAIN o.value THEN Object!Taken("deleted", o.value[x]) ELSE old["deleted"]
    BY <2>1, <2>4, <2>5, <2>6, <2>7, HeardSays
  <2>9. Object!Holds(listServer[n], "deleted") = "deleted"
    BY <2>1 DEF Object!Holds, Object!Common, ShapesOK
  <2>10. x \in DOMAIN o.value /\ o.value[x] = "deleted"
    BY <2>1, <2>2, <2>4, <2>9, ObjectsSay
  <2> QED  BY <2>8, <2>10, DeletedAssumption DEF Object!Taken
<1>5. console => DOMAIN d = {Object!OID(n) : n \in Object!Listed}
  BY <1>2 DEF Kept, Object!NoRecords
<1>6. \A n \in Numbers : Object!Live(n) => Object!OID(n) \in DOMAIN d
  BY <1>1 DEF Object!Live, Object!Listed
<1> QED  BY <1>3, <1>4, <1>5, <1>6 DEF Agrees, d, answer, Object!Live, Object!Listed

\* set() of a record, updated() with what it answers: DB follows the edit of one field, and keeps the rest.
LEMMA EditAgrees ==
    ASSUME ShapesOK, ~console, Agrees(listServer, listDb), NEW s, NEW t, NEW n \in Numbers,
           listServer[n].state = "live", s = [listServer EXCEPT ![n].text = t],
           NEW objects,
           objects = [OID |-> Object!OID(n), first |-> t, value |-> [x \in {Object!ListedFields[list][field]} |-> t]]
    PROVE  Agrees(s, After({objects}))
<1>1. PICK d : d = After({objects})
  OBVIOUS
<1>2. PICK oid : oid = Object!OID(n)
  OBVIOUS
<1>3. objects.OID = oid /\ oid \in DOMAIN listDb
  BY <1>2 DEF Agrees
<1>4. DOMAIN d = DOMAIN listDb /\ \A x \in DOMAIN listDb : x # oid => d[x] = listDb[x]
  <2>1. Kept = listDb
    BY DEF Kept
  <2>2. DOMAIN d = DOMAIN listDb \cup {o.OID : o \in {objects}}
    BY <1>1, <2>1, AfterSays
  <2>3. {o.OID : o \in {objects}} = {oid}
    BY <1>3
  <2>4. DOMAIN d = DOMAIN listDb
    BY <1>3, <2>2, <2>3
  <2>5. ASSUME NEW x \in DOMAIN listDb, x # oid PROVE d[x] = listDb[x]
    <3>1. ~\E o \in {objects} : o.OID = x
      BY <1>3, <2>5
    <3>2. PICK answer : answer = {objects}
      OBVIOUS
    <3>3. d = After(answer) /\ x \in DOMAIN After(answer) /\ ~\E o \in answer : o.OID = x
      BY <1>1, <2>4, <2>5, <3>1, <3>2
    <3>4. After(answer)[x] = Kept[x]
      BY <3>3, AfterSays
    <3> QED  BY <2>1, <3>3, <3>4
  <2> QED  BY <2>4, <2>5
<1>5. d[oid] = Object!Heard(listDb[oid], objects)
  <2>1. PICK q : q = CHOOSE p \in {objects} : p.OID = oid
    OBVIOUS
  <2>2. q = objects
    BY <2>1, <1>3
  <2>3. oid \in DOMAIN After({objects}) /\ \E p \in {objects} : p.OID = oid
    BY <1>1, <1>3, <1>4
  <2>4. d[oid] = Object!Heard(Old(Kept, oid, q.first), q)
    BY <1>1, <2>1, <2>3, AfterSays
  <2> QED  BY <2>2, <2>4, <1>3 DEF Old, Kept
<1>6. \A m \in Numbers : s[m].state = listServer[m].state /\ (m # n => s[m] = listServer[m])
  BY DEF ShapesOK
<1>7. s[n].text = t /\ s[n].state = "live" /\ \A f \in DOMAIN Object!ListedFields[list] :
          Object!Holds(s[n], f) = IF f = field THEN t ELSE Object!Holds(listServer[n], f)
  <2>1. s[n].text = t /\ s[n].state = "live"
    BY DEF ShapesOK
  <2> QED  BY <2>1 DEF Object!Holds, ShapesOK, Object!Common
<1>8. \A m \in Numbers : listServer[m].state # "none" /\ m # n => Object!OID(m) # oid
  BY <1>2, OIDsDiffer DEF Object!Listed
<1>9. ASSUME NEW f \in DOMAIN Object!ListedFields[list] \cap DOMAIN d[oid], ~Unread(list, f)
      PROVE  LET v == Object!Holds(s[n], f) IN
             \/ d[oid][f] = (IF f = "kind" /\ v = Blank THEN "card" ELSE v)
             \/ ~console /\ f \in Object!Optional /\ v = Blank
  <2>1. DOMAIN listDb[oid] = RecordFields
    BY <1>3 DEF ShapesOK
  <2>2. PICK x : x = Object!ListedFields[list][f]
    OBVIOUS
  <2>3. d[oid][f] = IF x \in DOMAIN objects.value THEN Object!Taken(f, objects.value[x]) ELSE listDb[oid][f]
    BY <1>5, <1>9, <2>1, <2>2, HeardSays
  <2>4. x \in DOMAIN objects.value <=> f = field
    BY <2>2, ListedApart DEF Apart, ShapesOK
  <2>5. CASE f = field
    <3>1. d[oid][f] = Object!Taken(f, t)
      BY <2>2, <2>3, <2>4, <2>5
    <3>2. Object!Taken(f, t) = IF f = "kind" /\ t = Blank THEN "card" ELSE t
      BY KindIsOfCards DEF Object!Taken, ShapesOK
    <3> QED  BY <3>1, <3>2, <2>5, <1>7
  <2>6. CASE f # field
    <3>1. d[oid][f] = listDb[oid][f] /\ Object!Holds(s[n], f) = Object!Holds(listServer[n], f)
      BY <2>3, <2>4, <2>6, <1>7
    <3>2. f \in DOMAIN listDb[oid]
      BY <2>1 DEF RecordFields
    <3> QED  BY <3>1, <3>2, <1>2, <1>9 DEF Agrees
  <2> QED  BY <2>5, <2>6
<1>10. ASSUME NEW m \in Numbers, s[m].state = "live"
       PROVE  /\ Object!OID(m) \in DOMAIN d
              /\ \A f \in DOMAIN Object!ListedFields[list] \cap DOMAIN d[Object!OID(m)] :
                     LET v == Object!Holds(s[m], f) IN
                     \/ d[Object!OID(m)][f] = (IF f = "kind" /\ v = Blank THEN "card" ELSE v)
                     \/ ~console /\ f \in Object!Optional /\ v = Blank
                     \/ Unread(list, f)
  <2>1. CASE m = n
    BY <2>1, <1>2, <1>3, <1>4, <1>9
  <2>2. CASE m # n
    <3>1. Object!OID(m) \in DOMAIN listDb /\ d[Object!OID(m)] = listDb[Object!OID(m)] /\ s[m] = listServer[m]
      BY <2>2, <1>4, <1>6, <1>8, <1>10 DEF Agrees
    <3> QED  BY <3>1, <1>4, <1>10 DEF Agrees
  <2> QED  BY <2>1, <2>2
<1>11. ASSUME NEW m \in Numbers, s[m].state \notin {"none", "live"}, Object!OID(m) \in DOMAIN d, list # "interfaces"
       PROVE  d[Object!OID(m)].deleted # Blank
  <2>1. m # n /\ d[Object!OID(m)] = listDb[Object!OID(m)] /\ Object!OID(m) \in DOMAIN listDb
    BY <1>4, <1>6, <1>8, <1>11
  <2> QED  BY <2>1, <1>6, <1>11 DEF Agrees
<1> QED  BY <1>1, <1>10, <1>11 DEF Agrees

LEMMA ObjectInits == Object!ObjectsInit => ObjectInv
<1> SUFFICES ASSUME Object!ObjectsInit PROVE ObjectInv
  OBVIOUS
<1>1. list \in Kinds /\ field \in DOMAIN Object!ListedFields[list] \ Object!Common /\ fresh = FALSE /\ listDb = Object!NoRecords
  BY DEF Object!ObjectsInit, Kinds
<1>2. PICK top : top = Object!Max(Numbers)
  OBVIOUS
<1>3. listServer = [n \in Numbers |-> IF list # "system" \/ n = top THEN [Object!Absent EXCEPT !.state = "live"] ELSE Object!Absent]
  BY <1>2 DEF Object!ObjectsInit
<1>4. \A n \in Numbers : /\ listServer[n] = [state |-> listServer[n].state, text |-> Blank]
                         /\ listServer[n].state = IF list # "system" \/ n = top THEN "live" ELSE "none"
  BY <1>3 DEF Object!Absent
<1>5. listServer \in [Numbers -> [state : {"none", "live", "deleted"}, text : FieldTexts \cup {Blank}]]
  <2>1. ASSUME NEW n \in Numbers
        PROVE  listServer[n] \in [state : {"none", "live", "deleted"}, text : FieldTexts \cup {Blank}]
    <3>1. PICK st : st = listServer[n].state
      OBVIOUS
    <3>2. listServer[n] = [state |-> st, text |-> Blank] /\ st \in {"none", "live"}
      BY <1>4, <3>1
    <3> QED  BY <3>2
  <2> QED  BY <2>1, <1>3
<1>6. list = "system" => \A n, m \in Object!Listed : n = m
  BY <1>4 DEF Object!Listed
<1> QED  BY <1>1, <1>4, <1>5, <1>6 DEF ObjectInv, ShapesOK, AheadOK, Object!NoRecords


\* What a step that keeps what is looked at does not change: how an answer is read, and what it is compared with.
LEMMA ReadingStays ==
    ASSUME list' = list, field' = field, console' = console, listDb' = listDb, NEW answer
    PROVE  After(answer)' = After(answer)
<1>1. ASSUME NEW f PROVE Object!SuffixOf(f)' = Object!SuffixOf(f)
  BY DEF Object!SuffixOf
<1>2. ASSUME NEW f, NEW v PROVE Object!Taken(f, v)' = Object!Taken(f, v)
  BY DEF Object!Taken
<1>3. ASSUME NEW first PROVE Object!NewRecord(first)' = Object!NewRecord(first)
  BY DEF Object!NewRecord
<1>4. ASSUME NEW record, NEW objects PROVE Object!Heard(record, objects)' = Object!Heard(record, objects)
  BY <1>1, <1>2 DEF Object!Heard
<1>5. ASSUME NEW known PROVE Object!Updated(known, answer)' = Object!Updated(known, answer)
  BY <1>3, <1>4 DEF Object!Updated
<1> QED  BY <1>5 DEF After, Object!Replaced, Object!NoRecords

LEMMA AgreementStays ==
    ASSUME list' = list, field' = field, console' = console, NEW s, NEW d
    PROVE  Agrees(s, d)' <=> Agrees(s, d)
<1>1. ASSUME NEW n PROVE Object!OID(n)' = Object!OID(n)
  BY DEF Object!OID
<1>2. ASSUME NEW r, NEW f PROVE Object!Holds(r, f)' = Object!Holds(r, f)
  BY DEF Object!Holds
<1> QED  BY <1>1, <1>2 DEF Agrees

LEMMA ShapesStep == ShapesOK /\ [Object!ObjectsNext]_Object!objectsVars => ShapesOK'
<1> SUFFICES ASSUME ShapesOK, [Object!ObjectsNext]_Object!objectsVars PROVE ShapesOK'
  OBVIOUS
<1>1. UNCHANGED <<list, field, console>>
  BY DEF Object!ObjectsNext, Object!ChangedElsewhere, Object!List, Object!Edited, Object!Hear, Object!objectsVars
<1>2. RecordFields' = RecordFields
  BY <1>1 DEF RecordFields
<1>3. \A x \in DOMAIN listDb' : DOMAIN listDb'[x] = RecordFields
  <2>1. CASE Object!Hear
    <3>1. PICK answer \in wire : listDb' = After(answer)
      BY <2>1 DEF Object!Hear, After
    <3> QED  BY <3>1, AfterShapes
  <2>2. CASE listDb' = listDb
    BY <2>2 DEF ShapesOK
  <2> QED  BY <2>1, <2>2 DEF Object!ObjectsNext, Object!ChangedElsewhere, Object!List, Object!Edited, Object!objectsVars
<1> DEFINE Record == [state : {"none", "live", "deleted"}, text : FieldTexts \cup {Blank}]
           ServerOK(s) == /\ s \in [Numbers -> Record]
                          /\ \A n \in Numbers : s[n].state = "deleted" => "deleted" \in DOMAIN Object!ListedFields[list]
                          /\ list = "system" => \A n \in Numbers : s[n].state # "none" => listServer[n].state # "none"
<1>4. ServerOK(listServer')
  <2>1. ServerOK(listServer)
    BY DEF ShapesOK
  <2>2. ASSUME NEW n \in Numbers, NEW r \in Record, listServer' = [listServer EXCEPT ![n] = r],
               r.state = "deleted" => "deleted" \in DOMAIN Object!ListedFields[list],
               list = "system" => r.state = "none" \/ listServer[n].state # "none"
        PROVE  ServerOK(listServer')
    BY <2>1, <2>2
  <2>3. ASSUME NEW n \in Numbers, NEW t \in FieldTexts, Object!Live(n), listServer' = [listServer EXCEPT ![n].text = t]
        PROVE  ServerOK(listServer')
    <3>1. PICK r : r = [listServer[n] EXCEPT !.text = t]
      OBVIOUS
    <3>2. r = [state |-> listServer[n].state, text |-> t] /\ listServer[n].state = "live"
      BY <2>1, <2>3, <3>1 DEF Object!Live
    <3>3. listServer' = [listServer EXCEPT ![n] = r]
      BY <2>3, <3>1
    <3> HIDE DEF ServerOK
    <3> QED  BY <2>2, <3>2, <3>3
  <2>4. CASE Object!ChangedElsewhere
    <3>1. PICK n \in Numbers :
             \/ \E t \in FieldTexts : Object!Live(n) /\ listServer' = [listServer EXCEPT ![n].text = t]
             \/ Object!Live(n) /\ "deleted" \in DOMAIN Object!ListedFields[list] /\ listServer' = [listServer EXCEPT ![n].state = "deleted"]
             \/ listServer' = [listServer EXCEPT ![n] = Object!Absent]
             \/ list # "system" /\ listServer' = [listServer EXCEPT ![n].state = "live"]
      BY <2>4 DEF Object!ChangedElsewhere
    <3>2. CASE \E t \in FieldTexts : Object!Live(n) /\ listServer' = [listServer EXCEPT ![n].text = t]
      BY <2>3, <3>2
    <3>3. ASSUME NEW st \in {"live", "deleted"}, listServer' = [listServer EXCEPT ![n].state = st],
                 st = "deleted" => "deleted" \in DOMAIN Object!ListedFields[list],
                 list = "system" => listServer[n].state # "none"
          PROVE  ServerOK(listServer')
      <4>1. PICK r : r = [listServer[n] EXCEPT !.state = st]
        OBVIOUS
      <4>2. r = [state |-> st, text |-> listServer[n].text] /\ r \in Record
        BY <2>1, <4>1
      <4>3. listServer' = [listServer EXCEPT ![n] = r]
        BY <3>3, <4>1
      <4> HIDE DEF ServerOK, Record
      <4> QED  BY <2>2, <3>3, <4>2, <4>3
    <3>4. CASE Object!Live(n) /\ "deleted" \in DOMAIN Object!ListedFields[list] /\ listServer' = [listServer EXCEPT ![n].state = "deleted"]
      BY <3>3, <3>4 DEF Object!Live
    <3>5. CASE list # "system" /\ listServer' = [listServer EXCEPT ![n].state = "live"]
      BY <3>3, <3>5
    <3>6. CASE listServer' = [listServer EXCEPT ![n] = Object!Absent]
      <4>1. PICK r : r = Object!Absent
        OBVIOUS
      <4>2. r \in Record /\ r.state = "none"
        BY <4>1 DEF Object!Absent
      <4> HIDE DEF ServerOK, Record
      <4> QED  BY <2>2, <3>6, <4>1, <4>2
    <3> QED  BY <3>1, <3>2, <3>4, <3>5, <3>6
  <2>5. CASE Object!Edited
    BY <2>3, <2>5 DEF Object!Edited
  <2>6. CASE listServer' = listServer
    BY <2>1, <2>6
  <2> QED  BY <2>4, <2>5, <2>6 DEF Object!ObjectsNext, Object!List, Object!Hear, Object!objectsVars
<1> QED  BY <1>1, <1>2, <1>3, <1>4 DEF ShapesOK, Object!Listed

LEMMA AheadStep == ShapesOK /\ AheadOK /\ [Object!ObjectsNext]_Object!objectsVars => AheadOK'
<1> SUFFICES ASSUME ShapesOK, AheadOK, [Object!ObjectsNext]_Object!objectsVars PROVE AheadOK'
  OBVIOUS
<1>1. CASE Object!ChangedElsewhere
  BY <1>1 DEF Object!ChangedElsewhere, AheadOK
<1>2. CASE Object!List
  <2>1. PICK answer : answer = {Object!Objects(n) : n \in Object!Listed}
    OBVIOUS
  <2>2. wire' = {answer} /\ UNCHANGED <<list, field, console, listServer, listDb>>
    BY <1>2, <2>1 DEF Object!List
  <2>3. PICK d, s : d = After(answer) /\ s = listServer
    OBVIOUS
  <2>4. Agrees(s, d)
    BY <2>1, <2>3, ListingAgrees
  <2>5. Agrees(s, d)'
    BY <2>2, <2>4, AgreementStays
  <2>6. After(answer)' = d /\ listServer' = s
    BY <2>2, <2>3, ReadingStays
  <2>7. Agrees(listServer, After(answer))'
    BY <2>5, <2>6
  <2> QED  BY <2>2, <2>7 DEF AheadOK
<1>3. CASE Object!Edited
  <2>0. PICK n \in Numbers, t \in FieldTexts :
           /\ listServer[n].state = "live" /\ Object!OID(n) \in DOMAIN listDb
           /\ listServer' = [listServer EXCEPT ![n].text = t]
           /\ wire' = {{[OID |-> Object!OID(n), first |-> t, value |-> [x \in {Object!ListedFields[list][field]} |-> t]]}}
    BY <1>3 DEF Object!Edited, Object!Live
  <2>1. PICK objects :
           /\ objects = [OID |-> Object!OID(n), first |-> t, value |-> [x \in {Object!ListedFields[list][field]} |-> t]]
           /\ wire' = {{objects}}
    BY <2>0
  <2>2. ~console /\ wire = {} /\ UNCHANGED <<list, field, console, listDb, fresh>>
    BY <1>3 DEF Object!Edited
  <2>3. PICK answer : answer = {objects}
    OBVIOUS
  <2>4. PICK d, s : d = After(answer) /\ s = listServer'
    OBVIOUS
  <2>5. fresh => Agrees(s, d)
    BY <2>0, <2>1, <2>2, <2>3, <2>4, EditAgrees DEF AheadOK
  <2>6. fresh => Agrees(s, d)'
    BY <2>2, <2>5, AgreementStays
  <2>7. After(answer)' = d
    BY <2>2, <2>4, ReadingStays
  <2>8. fresh => Agrees(listServer, After(answer))'
    BY <2>4, <2>6, <2>7
  <2> QED  BY <2>0, <2>1, <2>2, <2>3, <2>8 DEF AheadOK
<1>4. CASE Object!Hear
  <2>1. PICK answer \in wire : listDb' = After(answer)
    BY <1>4 DEF Object!Hear, After
  <2>2. wire' = {} /\ UNCHANGED <<list, field, console, listServer, fresh>>
    BY <1>4 DEF Object!Hear
  <2>3. PICK d, s : d = After(answer) /\ s = listServer
    OBVIOUS
  <2>4. fresh => Agrees(s, d)
    BY <2>1, <2>3 DEF AheadOK
  <2>5. fresh => Agrees(s, d)'
    BY <2>2, <2>4, AgreementStays
  <2>6. fresh => Agrees(listServer, listDb)'
    BY <2>1, <2>2, <2>3, <2>5
  <2> QED  BY <2>2, <2>6 DEF AheadOK
<1>5. CASE UNCHANGED Object!objectsVars
  <2>1. UNCHANGED <<list, field, console, listServer, listDb, wire, fresh>>
    BY <1>5 DEF Object!objectsVars
  <2>2. PICK d, s : d = listDb /\ s = listServer
    OBVIOUS
  <2>3. Agrees(s, d)' <=> Agrees(s, d)
    BY <2>1, AgreementStays
  <2>4. Agrees(listServer, listDb)' <=> Agrees(listServer, listDb)
    BY <2>1, <2>2, <2>3
  <2>5. ASSUME NEW answer \in wire, fresh
        PROVE  Agrees(listServer, After(answer))'
    <3>1. PICK e : e = After(answer)
      OBVIOUS
    <3>2. Agrees(s, e)
      BY <2>2, <2>5, <3>1 DEF AheadOK
    <3>3. Agrees(s, e)'
      BY <2>1, <3>2, AgreementStays
    <3>4. After(answer)' = e
      BY <2>1, <3>1, ReadingStays
    <3> QED  BY <2>1, <2>2, <3>3, <3>4
  <2> QED  BY <2>1, <2>4, <2>5 DEF AheadOK
<1> QED  BY <1>1, <1>2, <1>3, <1>4, <1>5 DEF Object!ObjectsNext

\* Fields agree when nothing is on its way.
LEMMA ObjectInvSuffices == ObjectInv => Object!FieldsAgree
<1> SUFFICES ASSUME ShapesOK, AheadOK, wire = {}, fresh PROVE Object!FieldsAgree
  BY DEF ObjectInv, Object!FieldsAgree
<1>1. Agrees(listServer, listDb)
  BY DEF AheadOK
<1>2. \A n \in Numbers : listServer[n].state = "live" =>
           /\ Object!OID(n) \in DOMAIN listDb
           /\ \A f \in DOMAIN Object!ListedFields[list] \cap DOMAIN listDb[Object!OID(n)] :
                  LET v == Object!Holds(listServer[n], f) IN
                  \/ listDb[Object!OID(n)][f] = (IF f = "kind" /\ v = Blank THEN "card" ELSE v)
                  \/ ~console /\ f \in Object!Optional /\ v = Blank
                  \/ Unread(list, f)
  BY <1>1 DEF Agrees
<1>3. \A n \in Object!Listed : ~Object!Live(n) /\ Object!OID(n) \in DOMAIN listDb /\ list # "interfaces" =>
           listDb[Object!OID(n)].deleted # Blank
  BY <1>1 DEF Agrees, Object!Listed, Object!Live
<1>4. console => DOMAIN listDb = {Object!OID(n) : n \in Object!Listed}
  BY <1>1 DEF Agrees, Object!Listed
<1> QED  BY <1>2, <1>3, <1>4 DEF Object!FieldsAgree, Object!Live, Unread

LEMMA ObjectStep == ObjectInv /\ [Object!ObjectsNext]_Object!objectsVars => ObjectInv'
BY ShapesStep, AheadStep DEF ObjectInv

-----------------------------------------------------------------------------
(* The pages together. *)

FieldsInv == ObjectInv /\ FieldOK /\ ComboInv

\* db.js, schema.js, cards.js, system.js, combobox.js: in whatever order records are created, edited,
\* deleted, swept, listed and heard of, what a page has of a record is what the server was last heard
\* to have, under every OID; and a field sends what was typed or chosen.
THEOREM FieldsSayWhatIsStored == TablesSpec => []FieldsAgree
<1>1. TablesInit => FieldsInv
  BY ObjectInits, DateInits, ComboInits DEF TablesInit, FieldsInv
<1>2. FieldsInv /\ [TablesNext]_tablesVars => FieldsInv'
  <2>1. [TablesNext]_tablesVars => [Object!ObjectsNext]_Object!objectsVars
    BY DEF TablesNext, tablesVars, objectsVars, Object!objectsVars
  <2>2. [TablesNext]_tablesVars => [Date!DatesNext]_Date!dateVars
    BY DEF TablesNext, tablesVars, dateVars, Date!dateVars
  <2>3. [TablesNext]_tablesVars => [Combo!ComboNext]_Combo!comboVars
    BY DEF TablesNext, tablesVars, fieldVars, Combo!comboVars, Combo!flags, Combo!strays
  <2> QED  BY <2>1, <2>2, <2>3, ObjectStep, DateStep, ComboStep DEF FieldsInv
<1>3. FieldsInv => FieldsAgree
  <2>1. ComboInv => Combo!OpenListCloses /\ Combo!OpensUnselected /\ Combo!ShownIsTaken
    BY DEF ComboInv, FlagsOK, ListOK, TextOK, Combo!OpenListCloses, Combo!OpensUnselected, Combo!ShownIsTaken
  <2>2. FieldOK => Date!DefaultsAreNotSent
    BY DEF FieldOK, Date!DefaultsAreNotSent
  <2> QED  BY <2>1, <2>2, ObjectInvSuffices DEF FieldsInv, FieldsAgree
<1> QED  BY <1>1, <1>2, <1>3, PTL DEF TablesSpec

-----------------------------------------------------------------------------
(* Marks.  The types. *)

MarkedRows == Range(PageRows) \cup {Section}
MarkedRow == [Mark!F -> Mark!Cell]
MarkedClasses == SUBSET {"modified", "new", "newish"}
MarkedRecord == [text : [Mark!F -> FieldTexts], new : BOOLEAN]

CellsOK(cs, ms) ==
    /\ cs \in [MarkedRows -> MarkedRow \cup {None}]
    /\ ms \in [MarkedRows -> MarkedClasses]
    /\ \A r \in MarkedRows : cs[r] = None => ms[r] = {}

PostOK(p) ==
    /\ p.fields \subseteq MarkedRows \X Mark!F
    /\ p.text \in [p.fields -> FieldTexts]
    /\ DOMAIN p = {"at", "deleted", "fields", "text"}

MarkInv ==
    /\ kind \in {"controller", "door", "card", "group", "user"}
    /\ records \in [MarkedRows -> MarkedRecord \cup {None}]
    /\ CellsOK(cells, marks)
    /\ controls \in 0..2
    /\ \A p \in posted : PostOK(p)

LEMMA ListsAreFinite ==
    ASSUME NEW s, s \in Seq(Range(s))
    PROVE  IsFiniteSet(Range(s))
<1>1. Len(s) \in Nat /\ s \in [1..Len(s) -> Range(s)]
  BY LenProperties
<1>2. s \in Surjection(1..Len(s), Range(s))
  BY <1>1 DEF Surjection, Range
<1>3. ExistsSurjection(1..Len(s), Range(s))
  BY <1>2 DEF ExistsSurjection
<1> QED  BY <1>1, <1>3, FS_NatSurjection

LEMMA MarksCount == \A S : Mark!Cardinality(S) = Cardinality(S)
  BY DEF Mark!Cardinality, Cardinality

\* recount(): the controls say none, one or more.
LEMMA CountIsFew == \A cs, ms : Mark!Count(cs, ms) \in 0..2
<1> SUFFICES ASSUME NEW cs, NEW ms PROVE Mark!Count(cs, ms) \in 0..2
  OBVIOUS
<1> DEFINE counted == {r \in Mark!Present(cs) : ms[r] \cap {"modified", "new"} # {}}
           fields == UNION {{r} \X Mark!Modified(cs[r]) : r \in Mark!Present(cs) \ counted}
           n == Cardinality(counted) + Cardinality(fields)
<1>1. IsFiniteSet(Range(PageRows)) /\ IsFiniteSet(Mark!F)
  <2>1. Mark!F = Range(PageFields)
    BY DEF Mark!F, Mark!Range, Range
  <2> QED  BY <2>1, MarksAssumption, ListsAreFinite
<1>2. counted \in SUBSET Range(PageRows)
  BY DEF Mark!Present, Mark!Range, Range
<1>3. fields \in SUBSET (Range(PageRows) \X Mark!F)
  BY DEF Mark!Present, Mark!Modified, Mark!Range, Range
<1>4. IsFiniteSet(counted) /\ IsFiniteSet(fields)
  <2>1. IsFiniteSet(Range(PageRows) \X Mark!F)
    BY <1>1, FS_Product
  <2> HIDE DEF counted, fields
  <2> QED  BY <1>1, <1>2, <1>3, <2>1, FS_Subset
<1>5. n \in Nat
  <2> HIDE DEF counted, fields
  <2> QED  BY <1>4, FS_CardinalityType
<1>6. Mark!Count(cs, ms) = IF n > 1 THEN 2 ELSE n
  BY MarksCount DEF Mark!Count
<1> HIDE DEF n
<1> QED  BY <1>5, <1>6

LEMMA WithTypes ==
    ASSUME NEW c \in Mark!Cell, NEW m \in {"modified", "pending"}, NEW on
    PROVE  Mark!With(c, m, on) \in Mark!Cell /\ Mark!With(c, m, on).value = c.value
           /\ Mark!With(c, m, on).original = c.original
  BY DEF Mark!With, Mark!Cell

LEMMA SetTypes ==
    ASSUME NEW c \in Mark!Cell, NEW v \in FieldTexts
    PROVE  Mark!Set(c, v) \in Mark!Cell
<1>1. PICK d : d = [c EXCEPT !.value = v]
  OBVIOUS
<1>2. d \in Mark!Cell
  BY <1>1 DEF Mark!Cell
<1> QED  BY <1>1, <1>2, WithTypes DEF Mark!Set

LEMMA ClassedTypes ==
    ASSUME NEW r, NEW line, NEW classes \in MarkedClasses, NEW found
    PROVE  Mark!Classed(r, line, classes, found) \in MarkedClasses
  BY DEF Mark!Classed, MarkedClasses

LEMMA MadeTypes ==
    ASSUME NEW classes \in MarkedClasses, NEW record
    PROVE  Mark!Made(classes, record) \in MarkedClasses
  BY DEF Mark!Made, MarkedClasses

\* set() and update(), of a field that is there
LEMMA UpdatedTypes ==
    ASSUME NEW c \in Mark!Cell, NEW v \in FieldTexts
    PROVE  Mark!Updated(c, v) \in Mark!Cell /\ Mark!UpdatedInSection(c, v) \in Mark!Cell
<1>1. PICK d : d = [c EXCEPT !.original = v]
  OBVIOUS
<1>2. d \in Mark!Cell
  BY <1>1 DEF Mark!Cell
<1>3. \A on : Mark!With(d, "modified", on) \in Mark!Cell
  BY <1>2, WithTypes
<1>4. Mark!Set(d, v) \in Mark!Cell
  BY <1>2, SetTypes
<1> QED  BY <1>1, <1>2, <1>3, <1>4 DEF Mark!Updated, Mark!UpdatedInSection

LEMMA BecomesTypes ==
    ASSUME NEW cs, NEW ms, CellsOK(cs, ms), controls \in 0..2, Mark!Becomes(cs, ms)
    PROVE  CellsOK(cells, marks)' /\ controls' \in 0..2
  BY CountIsFew DEF Mark!Becomes, CellsOK, MarkedRows

\* realize() and updateFromDB(): the rows there are in DB, and no other.
LEMMA RowsTypes ==
    ASSUME NEW cs \in [MarkedRows -> MarkedRow \cup {None}],
           NEW d \in [MarkedRows -> MarkedRecord \cup {None}]
    PROVE  /\ Mark!RowsUpdated(Mark!Realized(cs, d), d) \in [MarkedRows -> MarkedRow \cup {None}]
           /\ \A r \in MarkedRows :
                 Mark!RowsUpdated(Mark!Realized(cs, d), d)[r] = None <=> d[r] = None
<1>1. PICK old : old = Mark!Realized(cs, d)
  OBVIOUS
<1>2. Mark!EmptyRow \in MarkedRow
  BY MarksAssumption DEF Mark!EmptyRow, MarkedRow, Mark!Cell
<1>3. ASSUME NEW r \in MarkedRows, d[r] # None PROVE old[r] \in MarkedRow
  BY <1>1, <1>2, <1>3 DEF Mark!Realized
<1>4. PICK new : new = Mark!RowsUpdated(old, d)
  OBVIOUS
<1>5. DOMAIN d = MarkedRows
  OBVIOUS
<1>6. ASSUME NEW r \in MarkedRows, d[r] # None PROVE new[r] \in MarkedRow
  <2>1. new[r] = [f \in Mark!F |->
            IF r = Section THEN Mark!UpdatedInSection(old[r][f], d[r].text[f]) ELSE Mark!Updated(old[r][f], d[r].text[f])]
    BY <1>4, <1>5, <1>6 DEF Mark!RowsUpdated
  <2>2. ASSUME NEW f \in Mark!F PROVE old[r][f] \in Mark!Cell /\ d[r].text[f] \in FieldTexts
    <3>1. d[r] \in MarkedRecord
      BY <1>6
    <3> QED  BY <1>3, <1>6, <3>1 DEF MarkedRow, MarkedRecord
  <2> QED  BY <2>1, <2>2, UpdatedTypes DEF MarkedRow
<1>7. ASSUME NEW r \in MarkedRows, d[r] = None PROVE new[r] = None
  BY <1>4, <1>5, <1>7 DEF Mark!RowsUpdated
<1>8. None \notin MarkedRow
  BY RowsAssumption DEF MarkedRow
<1>9. PICK h : h = [r \in MarkedRows |-> new[r]]
  OBVIOUS
<1>10. new = h
  BY <1>4, <1>5, <1>9 DEF Mark!RowsUpdated
<1>11. h \in [MarkedRows -> MarkedRow \cup {None}]
  BY <1>6, <1>7, <1>9
<1> QED  BY <1>1, <1>4, <1>6, <1>7, <1>8, <1>10, <1>11

\* refreshed()
LEMMA RefreshedTypes ==
    ASSUME NEW cs \in [MarkedRows -> MarkedRow \cup {None}], NEW ms \in [MarkedRows -> MarkedClasses],
           NEW d \in [MarkedRows -> MarkedRecord \cup {None}], controls \in 0..2,
           Mark!Refreshed(cs, ms, d)
    PROVE  CellsOK(cells, marks)' /\ controls' \in 0..2
<1>1. PICK old : old = Mark!Realized(cs, d)
  OBVIOUS
<1>2. PICK new : new = Mark!RowsUpdated(old, d)
  OBVIOUS
<1>3. /\ new \in [MarkedRows -> MarkedRow \cup {None}]
      /\ \A r \in MarkedRows : new[r] = None <=> d[r] = None
  BY <1>1, <1>2, RowsTypes
<1>4. cells' = new
  BY <1>1, <1>2 DEF Mark!Refreshed, Mark!Becomes
<1>5. DOMAIN d = MarkedRows
  OBVIOUS
<1>6. CASE kind = "card"
  <2>1. PICK classes : classes = Mark!RowsClassed(old, new, ms, d)
    OBVIOUS
  <2>2. ASSUME NEW r \in MarkedRows
        PROVE  classes[r] \in MarkedClasses /\ (d[r] = None => classes[r] = {})
    BY <2>1, <1>5, MadeTypes, ClassedTypes DEF Mark!RowsClassed, MarkedClasses
  <2>3. classes \in [MarkedRows -> MarkedClasses]
    <3>1. PICK h : h = [r \in MarkedRows |-> classes[r]]
      OBVIOUS
    <3>2. classes = h
      BY <2>1, <1>5, <3>1 DEF Mark!RowsClassed
    <3> QED  BY <2>2, <3>1, <3>2
  <2>4. CellsOK(new, classes)
    BY <1>3, <2>2, <2>3 DEF CellsOK
  <2>5. Mark!Becomes(new, classes)
    BY <1>1, <1>2, <1>4, <1>6, <2>1 DEF Mark!Refreshed
  <2> QED  BY <2>4, <2>5, BecomesTypes
<1>7. CASE kind # "card"
  <2>1. marks' = Mark!RowsMade(old, new, ms, d) /\ controls' = Mark!LastCount(old, new, ms, marks')
    BY <1>1, <1>4, <1>7 DEF Mark!Refreshed
  <2>2. ASSUME NEW r, NEW classes \in MarkedClasses
        PROVE  Mark!RowCounted(r, old[r], new[r], classes) \in MarkedClasses
    BY ClassedTypes DEF Mark!RowCounted
  <2>3. ASSUME NEW r \in MarkedRows
        PROVE  marks'[r] \in MarkedClasses /\ (d[r] = None => marks'[r] = {})
    BY <2>1, <2>2, <1>5, MadeTypes DEF Mark!RowsMade, MarkedClasses
  <2>4. marks' \in [MarkedRows -> MarkedClasses]
    <3>1. PICK h : h = [r \in MarkedRows |-> marks'[r]]
      OBVIOUS
    <3>2. marks' = h
      BY <2>1, <1>5, <3>1 DEF Mark!RowsMade
    <3> QED  BY <2>3, <3>1, <3>2
  <2>5. CellsOK(cells, marks)'
    BY <1>3, <1>4, <2>3, <2>4 DEF CellsOK, MarkedRows
  <2>6. controls' \in 0..2
    BY <2>1, CountIsFew DEF Mark!LastCount
  <2> QED  BY <2>5, <2>6
<1> QED  BY <1>6, <1>7

LEMMA ChangedTypes ==
    ASSUME MarkInv, NEW r \in MarkedRows, cells[r] # None, NEW f \in Mark!F, NEW c \in Mark!Cell, Mark!Changed(r, f, c)
    PROVE  CellsOK(cells, marks)' /\ controls' \in 0..2
<1>1. cells[r] \in MarkedRow
  BY DEF MarkInv, CellsOK
<1>2. PICK new : new = [cells[r] EXCEPT ![f] = c]
  OBVIOUS
<1>3. new \in MarkedRow
  BY <1>1, <1>2 DEF MarkedRow
<1>4. PICK cs, ms : /\ cs = [cells EXCEPT ![r] = new]
                    /\ ms = [marks EXCEPT ![r] = Mark!Classed(r, new, @, Mark!Modified(new) # {})]
  OBVIOUS
<1>5. Mark!Classed(r, new, marks[r], Mark!Modified(new) # {}) \in MarkedClasses
  <2>1. marks[r] \in MarkedClasses
    BY DEF MarkInv, CellsOK
  <2> QED  BY <2>1, ClassedTypes
<1>6. new # None
  BY <1>3, RowsAssumption DEF MarkedRow
<1>7. CellsOK(cs, ms)
  BY <1>3, <1>4, <1>5, <1>6 DEF MarkInv, CellsOK
<1>8. Mark!Becomes(cs, ms)
  BY <1>2, <1>4 DEF Mark!Changed
<1> QED  BY <1>7, <1>8, BecomesTypes DEF MarkInv

LEMMA RefreshMarks == MarkInv /\ Mark!Refresh => MarkInv'
<1> SUFFICES ASSUME MarkInv, Mark!Refresh PROVE MarkInv'
  OBVIOUS
<1>1. CellsOK(cells, marks)' /\ controls' \in 0..2
  BY RefreshedTypes DEF Mark!Refresh, MarkInv, CellsOK
<1> QED  BY <1>1 DEF Mark!Refresh, MarkInv, PostOK, CellsOK, MarkedRows

LEMMA EditMarks == MarkInv /\ Mark!Edit => MarkInv'
<1> SUFFICES ASSUME MarkInv, Mark!Edit PROVE MarkInv'
  OBVIOUS
<1>1. PICK r \in DOMAIN cells, f \in Mark!F, v \in FieldTexts :
          cells[r] # None /\ Mark!Changed(r, f, Mark!Set(cells[r][f], v))
  BY DEF Mark!Edit
<1>2. r \in MarkedRows /\ cells[r][f] \in Mark!Cell
  BY <1>1 DEF MarkInv, CellsOK, MarkedRow
<1>3. CellsOK(cells, marks)' /\ controls' \in 0..2
  BY <1>1, <1>2, SetTypes, ChangedTypes
<1> QED  BY <1>3 DEF Mark!Edit, MarkInv, PostOK, CellsOK, MarkedRows

LEMMA ForceMarks == MarkInv /\ Mark!Force => MarkInv'
<1> SUFFICES ASSUME MarkInv, Mark!Force PROVE MarkInv'
  OBVIOUS
<1>1. PICK r \in Mark!Present(cells), f \in Mark!F : Mark!Changed(r, f, Mark!With(cells[r][f], "modified", TRUE))
  BY DEF Mark!Force
<1>2. r \in MarkedRows /\ cells[r] # None
  BY DEF Mark!Present, Mark!Range, Range, MarkedRows
<1>3. cells[r][f] \in Mark!Cell
  BY <1>2 DEF MarkInv, CellsOK, MarkedRow
<1>4. CellsOK(cells, marks)' /\ controls' \in 0..2
  BY <1>1, <1>2, <1>3, WithTypes, ChangedTypes
<1> QED  BY <1>4 DEF Mark!Force, MarkInv, PostOK, CellsOK, MarkedRows

\* revert() of a row that is there
LEMMA RevertedTypes ==
    ASSUME NEW line \in MarkedRow
    PROVE  Mark!Reverted(line) \in MarkedRow /\ Mark!Reverted(line) # None
<1>1. ASSUME NEW f \in Mark!F PROVE Mark!Set(line[f], line[f].original) \in Mark!Cell
  <2>1. line[f] \in Mark!Cell /\ line[f].original \in FieldTexts
    BY DEF MarkedRow, Mark!Cell
  <2> QED  BY <2>1, SetTypes
<1> QED  BY <1>1, RowsAssumption DEF Mark!Reverted, MarkedRow

LEMMA KnownTypes ==
    ASSUME MarkInv
    PROVE  \A r \in MarkedRows : Mark!Known(cells)[r] \in MarkedRecord \cup {None}
<1> SUFFICES ASSUME NEW r \in MarkedRows PROVE Mark!Known(cells)[r] \in MarkedRecord \cup {None}
  OBVIOUS
<1>1. DOMAIN cells = MarkedRows
  BY DEF MarkInv, CellsOK
<1>2. CASE cells[r] = None
  BY <1>1, <1>2 DEF Mark!Known
<1>3. CASE cells[r] # None
  <2>1. \A f \in Mark!F : cells[r][f].original \in FieldTexts
    BY <1>3 DEF MarkInv, CellsOK, MarkedRow, Mark!Cell
  <2> QED  BY <1>1, <1>3, <2>1 DEF Mark!Known, MarkedRecord
<1> QED  BY <1>2, <1>3

LEMMA RollbackMarks == MarkInv /\ Mark!Rollback => MarkInv'
<1> SUFFICES ASSUME MarkInv, Mark!Rollback PROVE MarkInv'
  OBVIOUS
<1>1. PICK rs, gone, cs, ms :
          /\ \A r \in rs : r \in Range(PageRows) /\ Mark!Marked(r)
          /\ cs = [r \in DOMAIN cells |-> IF r \in rs THEN Mark!Reverted(cells[r]) ELSE cells[r]]
          /\ ms = [r \in DOMAIN cells |-> IF r \in rs THEN Mark!Classed(r, cs[r], marks[r], FALSE) ELSE marks[r]]
          /\ \/ Mark!Becomes(cs, ms)
             \/ Mark!Refreshed(cs, ms, [r \in DOMAIN cells |-> IF r \in gone THEN None ELSE Mark!Known(cells)[r]])
  <2>1. PICK ready : ready = {r \in Mark!Range(PageRows) : Mark!Marked(r)}
    OBVIOUS
  <2>2. PICK rs \in ({{r} : r \in ready} \cup {ready}) \ {{}} : \E gone, cs, ms :
          /\ cs = [r \in DOMAIN cells |-> IF r \in rs THEN Mark!Reverted(cells[r]) ELSE cells[r]]
          /\ ms = [r \in DOMAIN cells |-> IF r \in rs THEN Mark!Classed(r, cs[r], marks[r], FALSE) ELSE marks[r]]
          /\ \/ Mark!Becomes(cs, ms)
             \/ Mark!Refreshed(cs, ms, [r \in DOMAIN cells |-> IF r \in gone THEN None ELSE Mark!Known(cells)[r]])
    BY <2>1 DEF Mark!Rollback
  <2>3. \A r \in rs : r \in ready
    OBVIOUS
  <2>4. \A r \in rs : r \in Range(PageRows) /\ Mark!Marked(r)
    BY <2>1, <2>3 DEF Mark!Range, Range
  <2> QED  BY <2>2, <2>4
<1>2. DOMAIN cells = MarkedRows /\ controls \in 0..2
  BY DEF MarkInv, CellsOK
<1>3. ASSUME NEW r \in rs PROVE cells[r] \in MarkedRow
  BY <1>1 DEF MarkInv, CellsOK, Mark!Marked, MarkedRows
<1>4. CellsOK(cs, ms)
  <2>1. ASSUME NEW r \in MarkedRows
        PROVE  /\ cs[r] \in MarkedRow \cup {None} /\ ms[r] \in MarkedClasses
               /\ cs[r] = None => ms[r] = {}
    <3>1. cells[r] \in MarkedRow \cup {None} /\ marks[r] \in MarkedClasses /\ (cells[r] = None => marks[r] = {})
      BY DEF MarkInv, CellsOK
    <3> QED  BY <1>1, <1>2, <1>3, <3>1, RevertedTypes, ClassedTypes
  <2>2. cs \in [MarkedRows -> MarkedRow \cup {None}] /\ ms \in [MarkedRows -> MarkedClasses]
    BY <1>1, <1>2, <2>1
  <2> QED  BY <2>1, <2>2 DEF CellsOK
<1>5. PICK d : d = [r \in DOMAIN cells |-> IF r \in gone THEN None ELSE Mark!Known(cells)[r]]
  OBVIOUS
<1>6. d \in [MarkedRows -> MarkedRecord \cup {None}]
  BY <1>2, <1>5, KnownTypes
<1>7. CellsOK(cells, marks)' /\ controls' \in 0..2
  <2>1. CASE Mark!Becomes(cs, ms)
    BY <1>2, <1>4, <2>1, BecomesTypes
  <2>2. CASE Mark!Refreshed(cs, ms, d)
    BY <1>2, <1>4, <1>6, <2>2, RefreshedTypes DEF CellsOK
  <2> QED  BY <1>1, <1>5, <2>1, <2>2
<1> QED  BY <1>7 DEF Mark!Rollback, MarkInv, PostOK, CellsOK, MarkedRows

LEMMA RollbackSectionMarks == MarkInv /\ Mark!RollbackSection => MarkInv'
<1> SUFFICES ASSUME MarkInv, Mark!RollbackSection PROVE MarkInv'
  OBVIOUS
<1>1. Section \in MarkedRows
  BY DEF MarkedRows
<1>2. cells[Section] \in MarkedRow /\ cells \in [MarkedRows -> MarkedRow \cup {None}]
  BY <1>1 DEF Mark!RollbackSection, MarkInv, CellsOK
<1>3. PICK line : line = [f \in Mark!F |->
                    Mark!With([cells[Section][f] EXCEPT !.value = cells[Section][f].original], "modified", FALSE)]
  OBVIOUS
<1>4. line \in MarkedRow
  <2>1. ASSUME NEW f \in Mark!F
        PROVE  Mark!With([cells[Section][f] EXCEPT !.value = cells[Section][f].original], "modified", FALSE) \in Mark!Cell
    <3>1. PICK c : c = [cells[Section][f] EXCEPT !.value = cells[Section][f].original]
      OBVIOUS
    <3>2. cells[Section][f] \in Mark!Cell
      BY <1>2 DEF MarkedRow
    <3>3. c \in Mark!Cell
      BY <3>1, <3>2 DEF Mark!Cell
    <3> QED  BY <3>1, <3>3, WithTypes
  <2> QED  BY <1>3, <2>1 DEF MarkedRow
<1>5. cells' = [cells EXCEPT ![Section] = line]
  BY <1>3 DEF Mark!RollbackSection
<1>6. marks' = [marks EXCEPT ![Section] = marks[Section] \ {"modified"}]
  BY DEF Mark!RollbackSection
<1>7. cells' \in [MarkedRows -> MarkedRow \cup {None}] /\ \A r \in MarkedRows : cells'[r] = None => cells[r] = None
  BY <1>2, <1>4, <1>5, RowsAssumption DEF MarkedRow
<1>8. marks' \in [MarkedRows -> MarkedClasses] /\ \A r \in MarkedRows : marks'[r] \subseteq marks[r]
  BY <1>1, <1>6 DEF MarkInv, CellsOK, MarkedClasses
<1>9. \A r \in MarkedRows : cells'[r] = None => marks'[r] = {}
  BY <1>7, <1>8 DEF MarkInv, CellsOK
<1> QED  BY <1>7, <1>8, <1>9 DEF Mark!RollbackSection, MarkInv, PostOK, CellsOK, MarkedRows

\* What a submission deletes and what it sends.
GoneWith(rs) == {r \in rs : Mark!Deletable(r, cells[r])}
SentWith(rs) == {p \in (rs \ GoneWith(rs)) \X Mark!F : p[2] \in Mark!Sends(p[1])}

LEMMA CommitMarks == MarkInv /\ Mark!Commit => MarkInv'
<1> SUFFICES ASSUME MarkInv, Mark!Commit PROVE MarkInv'
  OBVIOUS
<1>1. DOMAIN cells = MarkedRows
  BY DEF MarkInv, CellsOK
<1>a. PICK ready : ready = {r \in DOMAIN cells : Mark!Marked(r)}
  OBVIOUS
<1>b. PICK rs \in ({{r} : r \in ready} \cup {ready}) \ {{}} :
          /\ posted' = posted \cup {[at |-> "sent", deleted |-> GoneWith(rs), fields |-> SentWith(rs),
                                     text |-> [q \in SentWith(rs) |-> cells[q[1]][q[2]].value]]}
          /\ cells' = [r \in DOMAIN cells |-> IF cells[r] = None THEN None ELSE [f \in Mark!F |->
                 IF <<r, f>> \in SentWith(rs)
                 THEN Mark!With(Mark!With(cells[r][f], "pending", TRUE), "modified", FALSE) ELSE cells[r][f]]]
  BY <1>a DEF Mark!Commit, GoneWith, SentWith
<1>c. \A r \in rs : r \in DOMAIN cells /\ Mark!Marked(r)
  BY <1>a, <1>b
<1>d. PICK gone, sent : gone = GoneWith(rs) /\ sent = SentWith(rs)
  OBVIOUS
<1>e. PICK p : p = [at |-> "sent", deleted |-> gone, fields |-> sent,
                    text |-> [q \in sent |-> cells[q[1]][q[2]].value]]
  OBVIOUS
<1>2. /\ sent = {q \in (rs \ gone) \X Mark!F : q[2] \in Mark!Sends(q[1])}
      /\ posted' = posted \cup {p}
      /\ cells' = [r \in DOMAIN cells |-> IF cells[r] = None THEN None ELSE [f \in Mark!F |->
             IF <<r, f>> \in sent THEN Mark!With(Mark!With(cells[r][f], "pending", TRUE), "modified", FALSE) ELSE cells[r][f]]]
  <2>1. sent = {q \in (rs \ gone) \X Mark!F : q[2] \in Mark!Sends(q[1])}
    BY <1>d DEF SentWith
  <2> QED  BY <1>b, <1>d, <1>e, <2>1
<1>3. ASSUME NEW r \in MarkedRows, cells[r] # None, NEW f \in Mark!F
      PROVE  cells[r][f] \in Mark!Cell /\ cells[r][f].value \in FieldTexts
  BY <1>3 DEF MarkInv, CellsOK, MarkedRow, Mark!Cell
<1>4. ASSUME NEW q \in sent PROVE q \in MarkedRows \X Mark!F /\ cells[q[1]][q[2]].value \in FieldTexts
  <2>1. q \in rs \X Mark!F
    BY <1>2
  <2>2. PICK r \in rs, f \in Mark!F : q = <<r, f>>
    BY <2>1
  <2>3. r \in MarkedRows /\ cells[r] # None
    BY <1>1, <1>c DEF Mark!Marked
  <2> QED  BY <1>3, <2>2, <2>3
<1>5. PostOK(p)
  BY <1>e, <1>4 DEF PostOK
<1>6. ASSUME NEW r \in MarkedRows, cells[r] # None PROVE cells'[r] \in MarkedRow
  <2>1. cells'[r] = [f \in Mark!F |-> IF <<r, f>> \in sent
              THEN Mark!With(Mark!With(cells[r][f], "pending", TRUE), "modified", FALSE) ELSE cells[r][f]]
    BY <1>1, <1>2, <1>6
  <2>2. \A f \in Mark!F : Mark!With(Mark!With(cells[r][f], "pending", TRUE), "modified", FALSE) \in Mark!Cell
    BY <1>3, <1>6, WithTypes
  <2> QED  BY <1>3, <1>6, <2>1, <2>2 DEF MarkedRow
<1>7. \A r \in MarkedRows : cells[r] = None => cells'[r] = None
  BY <1>1, <1>2
<1>8. cells' \in [MarkedRows -> MarkedRow \cup {None}]
  <2>1. DOMAIN cells' = MarkedRows /\ cells' = [r \in MarkedRows |-> cells'[r]]
    BY <1>1, <1>2
  <2> QED  BY <1>6, <1>7, <2>1
<1>9. \A r \in MarkedRows : cells'[r] = None => cells[r] = None
  BY <1>6, RowsAssumption DEF MarkedRow
<1> QED  BY <1>2, <1>5, <1>8, <1>9 DEF Mark!Commit, MarkInv, CellsOK, PostOK, MarkedRows

LEMMA ServeMarks == MarkInv /\ Mark!Serve => MarkInv'
<1> SUFFICES ASSUME MarkInv, Mark!Serve PROVE MarkInv'
  OBVIOUS
<1>1. DOMAIN records = MarkedRows
  BY DEF MarkInv
<1>2. PICK p \in posted : \E status :
          /\ posted' = (posted \ {p}) \cup {[p EXCEPT !.at = status]}
          /\ \/ /\ \A q \in p.fields : records[q[1]] # None
                /\ records' = [r \in DOMAIN records |->
                        IF r \in p.deleted THEN None
                        ELSE IF \E f \in Mark!F : <<r, f>> \in p.fields
                        THEN [text |-> [f \in Mark!F |-> IF <<r, f>> \in p.fields THEN p.text[<<r, f>>] ELSE records[r].text[f]],
                              new |-> FALSE]
                        ELSE records[r]]
             \/ UNCHANGED records
  BY DEF Mark!Serve
<1>3. PostOK(p)
  BY DEF MarkInv
<1>4. \A q \in posted' : PostOK(q)
  <2>0. PICK status : posted' = (posted \ {p}) \cup {[p EXCEPT !.at = status]}
    BY <1>2
  <2>1. PICK q : q = [p EXCEPT !.at = status]
    OBVIOUS
  <2>2. q.fields = p.fields /\ q.text = p.text /\ DOMAIN q = DOMAIN p
    BY <1>3, <2>1 DEF PostOK
  <2>3. PostOK(q)
    BY <1>3, <2>2 DEF PostOK
  <2> QED  BY <2>0, <2>1, <2>3 DEF MarkInv
<1>5. records' \in [MarkedRows -> MarkedRecord \cup {None}]
  <2>1. CASE UNCHANGED records
    BY <2>1 DEF MarkInv
  <2>2. CASE ~UNCHANGED records
    <3>1. ASSUME NEW r \in MarkedRows, NEW f \in Mark!F, <<r, f>> \in p.fields
          PROVE  records[r] \in MarkedRecord /\ p.text[<<r, f>>] \in FieldTexts
      <4>1. records[r] # None
        <5>1. PICK q \in p.fields : q = <<r, f>>
          BY <3>1
        <5> QED  BY <1>2, <2>2, <5>1
      <4> QED  BY <1>3, <3>1, <4>1 DEF MarkInv, PostOK
    <3>2. ASSUME NEW r \in MarkedRows, NEW e \in Mark!F, <<r, e>> \in p.fields
          PROVE  [text |-> [f \in Mark!F |-> IF <<r, f>> \in p.fields THEN p.text[<<r, f>>] ELSE records[r].text[f]],
                  new |-> FALSE] \in MarkedRecord
      <4>1. records[r] \in MarkedRecord
        BY <3>1, <3>2
      <4> QED  BY <3>1, <4>1 DEF MarkedRecord
    <3>3. ASSUME NEW r \in MarkedRows PROVE records'[r] \in MarkedRecord \cup {None}
      <4>1. records[r] \in MarkedRecord \cup {None}
        BY DEF MarkInv
      <4>2. CASE r \notin p.deleted /\ \E f \in Mark!F : <<r, f>> \in p.fields
        BY <1>1, <1>2, <2>2, <3>2, <4>2
      <4>3. CASE r \in p.deleted \/ ~\E f \in Mark!F : <<r, f>> \in p.fields
        BY <1>1, <1>2, <2>2, <4>1, <4>3
      <4> QED  BY <4>2, <4>3
    <3>4. DOMAIN records' = MarkedRows /\ records' = [r \in MarkedRows |-> records'[r]]
      BY <1>1, <1>2, <2>2
    <3> QED  BY <3>3, <3>4
  <2> QED  BY <2>1, <2>2
<1> QED  BY <1>4, <1>5 DEF Mark!Serve, MarkInv, CellsOK, PostOK, MarkedRows

LEMMA AnsweredMarks == MarkInv /\ Mark!Answered => MarkInv'
<1> SUFFICES ASSUME MarkInv, Mark!Answered PROVE MarkInv'
  OBVIOUS
<1>1. PICK p \in posted :
          /\ posted' = posted \ {p}
          /\ IF p.at = "stored" THEN Mark!Refreshed(Mark!Unmarked(p.fields, p.at), marks, records)
             ELSE cells' = Mark!Unmarked(p.fields, p.at) /\ UNCHANGED <<marks, controls>>
  BY DEF Mark!Answered
<1>2. PICK cs : cs = Mark!Unmarked(p.fields, p.at)
  OBVIOUS
<1>3. DOMAIN cells = MarkedRows
  BY DEF MarkInv, CellsOK
<1>4. ASSUME NEW r \in MarkedRows, cells[r] # None PROVE cs[r] \in MarkedRow
  <2>1. cs[r] = [f \in Mark!F |-> IF <<r, f>> \in p.fields
              THEN Mark!With(Mark!With(cells[r][f], "pending", FALSE), "modified",
                             p.at = "refused" \/ "modified" \in cells[r][f].marks) ELSE cells[r][f]]
    BY <1>2, <1>3, <1>4 DEF Mark!Unmarked
  <2>2. ASSUME NEW f \in Mark!F
        PROVE  cells[r][f] \in Mark!Cell /\ cs[r][f] \in Mark!Cell
    <3>1. cells[r][f] \in Mark!Cell
      BY <1>4 DEF MarkInv, CellsOK, MarkedRow
    <3>2. PICK on : on = (p.at = "refused" \/ "modified" \in cells[r][f].marks)
      OBVIOUS
    <3>3. PICK c : c = Mark!With(cells[r][f], "pending", FALSE)
      OBVIOUS
    <3>4. c \in Mark!Cell /\ Mark!With(c, "modified", on) \in Mark!Cell
      BY <3>1, <3>3, WithTypes
    <3>5. cs[r][f] = Mark!With(c, "modified", on) \/ cs[r][f] = cells[r][f]
      BY <2>1, <3>2, <3>3
    <3> QED  BY <3>1, <3>4, <3>5
  <2>3. PICK h : h = [f \in Mark!F |-> cs[r][f]]
    OBVIOUS
  <2>4. cs[r] = h
    BY <2>1, <2>3
  <2> QED  BY <2>2, <2>3, <2>4 DEF MarkedRow
<1>5. \A r \in MarkedRows : cells[r] = None => cs[r] = None
  BY <1>2, <1>3 DEF Mark!Unmarked
<1>6. cs \in [MarkedRows -> MarkedRow \cup {None}]
  <2>1. DOMAIN cs = MarkedRows /\ cs = [r \in MarkedRows |-> cs[r]]
    BY <1>2, <1>3 DEF Mark!Unmarked
  <2> QED  BY <1>4, <1>5, <2>1
<1>7. CellsOK(cs, marks)
  BY <1>4, <1>6, RowsAssumption DEF MarkInv, CellsOK, MarkedRow
<1>8. CellsOK(cells, marks)' /\ controls' \in 0..2
  <2>1. CASE p.at = "stored"
    BY <1>1, <1>2, <1>7, <2>1, RefreshedTypes DEF MarkInv, CellsOK
  <2>2. CASE p.at # "stored"
    BY <1>1, <1>2, <1>7, <2>2 DEF MarkInv, CellsOK, MarkedRows
  <2> QED  BY <2>1, <2>2
<1> QED  BY <1>1, <1>8 DEF Mark!Answered, MarkInv, PostOK, CellsOK, MarkedRows

LEMMA ElsewhereMarks == MarkInv /\ Mark!Elsewhere => MarkInv'
<1> SUFFICES ASSUME MarkInv, Mark!Elsewhere PROVE MarkInv'
  OBVIOUS
<1>1. PICK r \in MarkedRows :
           \/ \E f \in Mark!F, v \in FieldTexts : records[r] # None /\ records' = [records EXCEPT ![r].text[f] = v]
           \/ records' = [records EXCEPT ![r] = None]
           \/ records' = [records EXCEPT ![r] = [text |-> [f \in Mark!F |-> Blank], new |-> TRUE]]
  BY DEF Mark!Elsewhere, MarkInv
<1>2. records' \in [MarkedRows -> MarkedRecord \cup {None}]
  <2>1. CASE \E f \in Mark!F, v \in FieldTexts : records[r] # None /\ records' = [records EXCEPT ![r].text[f] = v]
    <3>1. PICK f \in Mark!F, v \in FieldTexts : records[r] # None /\ records' = [records EXCEPT ![r].text[f] = v]
      BY <2>1
    <3>2. PICK record : record = records[r]
      OBVIOUS
    <3>3. PICK told : told = [record EXCEPT !.text[f] = v]
      OBVIOUS
    <3>4. record \in MarkedRecord
      BY <3>1, <3>2 DEF MarkInv
    <3>5. told \in MarkedRecord
      BY <3>3, <3>4 DEF MarkedRecord
    <3>6. records' = [records EXCEPT ![r] = told]
      BY <3>1, <3>2, <3>3
    <3> QED  BY <3>5, <3>6 DEF MarkInv
  <2>2. CASE records' = [records EXCEPT ![r] = None]
    BY <2>2 DEF MarkInv
  <2>3. CASE records' = [records EXCEPT ![r] = [text |-> [f \in Mark!F |-> Blank], new |-> TRUE]]
    <3>1. [text |-> [f \in Mark!F |-> Blank], new |-> TRUE] \in MarkedRecord
      BY MarksAssumption DEF MarkedRecord
    <3> QED  BY <2>3, <3>1 DEF MarkInv
  <2> QED  BY <1>1, <2>1, <2>2, <2>3
<1> QED  BY <1>2 DEF Mark!Elsewhere, MarkInv, CellsOK, PostOK, MarkedRows

LEMMA MarksInits == Mark!MarksInit => MarkInv
<1> SUFFICES ASSUME Mark!MarksInit PROVE MarkInv
  OBVIOUS
<1>0. PICK t \in FieldTexts : \E rs :
          records = [r \in MarkedRows |-> IF r \in rs THEN [text |-> [f \in Mark!F |-> t], new |-> FALSE] ELSE None]
  BY DEF Mark!MarksInit, MarkedRows, Mark!Range, Range
<1>1. PICK rs : records = [r \in MarkedRows |-> IF r \in rs THEN [text |-> [f \in Mark!F |-> t], new |-> FALSE] ELSE None]
  BY <1>0
<1>2. [text |-> [f \in Mark!F |-> t], new |-> FALSE] \in MarkedRecord
  BY DEF MarkedRecord
<1>3. records \in [MarkedRows -> MarkedRecord \cup {None}]
  BY <1>1, <1>2
<1>4. Mark!EmptyRow \in MarkedRow
  BY MarksAssumption DEF Mark!EmptyRow, MarkedRow, Mark!Cell
<1>5. CellsOK(cells, marks)
  BY <1>3, <1>4 DEF Mark!MarksInit, CellsOK, MarkedClasses
<1>6. posted = {} /\ controls = 0 /\ kind \in {"controller", "door", "card", "group", "user"}
  BY DEF Mark!MarksInit
<1> QED  BY <1>3, <1>5, <1>6 DEF MarkInv

LEMMA MarksStep == MarkInv /\ [Mark!MarksNext]_Mark!marksVars => MarkInv'
<1> SUFFICES ASSUME MarkInv, [Mark!MarksNext]_Mark!marksVars PROVE MarkInv'
  OBVIOUS
<1>1. CASE UNCHANGED Mark!marksVars
  BY <1>1 DEF Mark!marksVars, MarkInv, CellsOK, PostOK, MarkedRows
<1> QED  BY <1>1, RefreshMarks, EditMarks, ForceMarks, RollbackMarks, RollbackSectionMarks, CommitMarks,
            ServeMarks, AnsweredMarks, ElsewhereMarks DEF Mark!MarksNext

LEMMA MarksAreTyped == MarkInv => Mark!TypeOK
  BY DEF MarkInv, CellsOK, MarkedRow, MarkedRecord, MarkedClasses, Mark!TypeOK

-----------------------------------------------------------------------------
(* The types of the fields. *)

DateTyped ==
    /\ {stored, default, date.shown, date.value, date.original} \subseteq Date!Values
    /\ system \in Date!Values \cup {None} /\ chosen \in Date!Values \cup {None}
    /\ {date.modified, date.defval} \subseteq BOOLEAN
    /\ IsField(date)

FieldTyped(f) ==
    /\ {f.shown, f.value, f.original} \subseteq Date!Values /\ {f.modified, f.defval} \subseteq BOOLEAN
    /\ IsField(f)

LEMMA SetFieldTyped ==
    ASSUME NEW f, FieldTyped(f), NEW v \in Date!Values
    PROVE  FieldTyped(Date!Set(f, v))
<1>1. PICK g : g = Date!Set(f, v)
  OBVIOUS
<1>2. g = [shown |-> f.shown, value |-> v, original |-> f.original, modified |-> v # f.original, defval |-> f.defval]
  BY <1>1 DEF Date!Set, FieldTyped, IsField
<1> QED  BY <1>1, <1>2 DEF FieldTyped, IsField

LEMMA DefaultFieldTyped ==
    ASSUME NEW f, FieldTyped(f), NEW v, system \in Date!Values \cup {None}
    PROVE  FieldTyped(Date!WithDefault(f, v))
<1>1. PICK g : g = Date!WithDefault(f, v)
  OBVIOUS
<1>2. Date!Instead \in Date!Values
  BY DEF Date!Instead, Date!Get, Date!Values
<1>3. PICK w : w = Date!Instead
  OBVIOUS
<1>4. \/ g = [shown |-> w, value |-> f.value, original |-> f.original, modified |-> f.modified, defval |-> TRUE]
      \/ g = [shown |-> f.shown, value |-> f.value, original |-> f.original, modified |-> f.modified, defval |-> FALSE]
  BY <1>1, <1>3 DEF Date!WithDefault, FieldTyped, IsField
<1>5. w \in Date!Values
  BY <1>2, <1>3
<1>6. {f.shown, f.value, f.original} \subseteq Date!Values /\ f.modified \in BOOLEAN
  BY DEF FieldTyped
<1>7. {g.shown, g.value, g.original} \subseteq Date!Values /\ {g.modified, g.defval} \subseteq BOOLEAN /\ IsField(g)
  <2>1. CASE g = [shown |-> w, value |-> f.value, original |-> f.original, modified |-> f.modified, defval |-> TRUE]
    BY <1>5, <1>6, <2>1 DEF IsField
  <2>2. CASE g = [shown |-> f.shown, value |-> f.value, original |-> f.original, modified |-> f.modified, defval |-> FALSE]
    BY <1>6, <2>2 DEF IsField
  <2> QED  BY <1>4, <2>1, <2>2
<1> QED  BY <1>1, <1>7 DEF FieldTyped

LEMMA ChangedFieldTyped ==
    ASSUME NEW f, FieldTyped(f), NEW g, NEW v \in Date!Values,
           g = [f EXCEPT !.shown = v] \/ g = [f EXCEPT !.original = v]
    PROVE  FieldTyped(g)
<1>1. \/ g = [shown |-> v, value |-> f.value, original |-> f.original, modified |-> f.modified, defval |-> f.defval]
      \/ g = [shown |-> f.shown, value |-> f.value, original |-> v, modified |-> f.modified, defval |-> f.defval]
  BY DEF FieldTyped, IsField
<1> QED  BY <1>1 DEF FieldTyped, IsField

LEMMA RemarkedFieldTyped ==
    ASSUME NEW f, FieldTyped(f), NEW on \in BOOLEAN, NEW g, g = [f EXCEPT !.modified = on]
    PROVE  FieldTyped(g)
<1>1. g = [shown |-> f.shown, value |-> f.value, original |-> f.original, modified |-> on, defval |-> f.defval]
  BY DEF FieldTyped, IsField
<1> QED  BY <1>1 DEF FieldTyped, IsField

LEMMA RefreshedFieldTyped ==
    ASSUME NEW f, FieldTyped(f), NEW v \in Date!Values, system \in Date!Values \cup {None}
    PROVE  FieldTyped(Date!Refreshed(f, v))
<1>1. PICK new : new = [f EXCEPT !.original = v]
  OBVIOUS
<1>2. FieldTyped(new)
  BY <1>1, ChangedFieldTyped
<1>3. PICK shown : shown = [new EXCEPT !.shown = v]
  OBVIOUS
<1>4. FieldTyped(Date!Set(shown, v))
  <2>1. FieldTyped(shown)
    BY <1>2, <1>3, ChangedFieldTyped
  <2> QED  BY <2>1, SetFieldTyped
<1>5. PICK on : on = (f.value # v)
  OBVIOUS
<1>6. FieldTyped([new EXCEPT !.modified = on])
  <2>1. on \in BOOLEAN
    BY <1>5
  <2> QED  BY <1>2, <2>1, RemarkedFieldTyped
<1>7. PICK updated : updated = IF f.modified THEN [new EXCEPT !.modified = on] ELSE Date!Set(shown, v)
  OBVIOUS
<1>8. FieldTyped(updated)
  BY <1>4, <1>6, <1>7
<1>9. Date!Refreshed(f, v) = Date!WithDefault(updated, v)
  BY <1>1, <1>3, <1>5, <1>7 DEF Date!Refreshed
<1> QED  BY <1>8, <1>9, DefaultFieldTyped

LEMMA DateTypesInit == Date!DatesInit => DateTyped
  BY DEF Date!DatesInit, DateTyped, IsField, Date!Values

LEMMA DateTypesStep == DateTyped /\ [Date!DatesNext]_Date!dateVars => DateTyped'
<1> SUFFICES ASSUME DateTyped, [Date!DatesNext]_Date!dateVars PROVE DateTyped'
  OBVIOUS
<1>0. FieldTyped(date)
  BY DEF DateTyped, FieldTyped
<1>1. CASE Date!Type
  <2>1. PICK v \in Date!Values : date' = Date!Edited([date EXCEPT !.shown = v]) /\ chosen' = v
    BY <1>1 DEF Date!Type
  <2>2. PICK f : f = [date EXCEPT !.shown = v]
    OBVIOUS
  <2>3. FieldTyped(f)
    BY <1>0, <2>2, ChangedFieldTyped
  <2>4. FieldTyped(Date!Set(f, f.shown))
    BY <2>3, SetFieldTyped DEF FieldTyped
  <2>5. FieldTyped(Date!WithDefault(Date!Set(f, f.shown), f.shown))
    BY <2>4, DefaultFieldTyped DEF DateTyped
  <2>6. FieldTyped(date')
    BY <2>1, <2>2, <2>5 DEF Date!Edited
  <2> QED  BY <1>1, <2>1, <2>6 DEF Date!Type, DateTyped, FieldTyped
<1>2. CASE Date!Enter
  <2>1. FieldTyped(date')
    BY <1>0, <1>2, SetFieldTyped DEF Date!Enter, DateTyped
  <2> QED  BY <1>2, <2>1 DEF Date!Enter, DateTyped, FieldTyped
<1>3. CASE Date!Rollback
  <2>1. PICK f : f = [date EXCEPT !.shown = date.original]
    OBVIOUS
  <2>2. FieldTyped(f)
    BY <1>0, <2>1, ChangedFieldTyped DEF DateTyped
  <2>3. FieldTyped(date')
    BY <1>3, <2>1, <2>2, SetFieldTyped DEF Date!Rollback, DateTyped
  <2> QED  BY <1>3, <2>3 DEF Date!Rollback, DateTyped, FieldTyped
<1>4. CASE Date!Commit
  <2>1. PICK f : f = [date EXCEPT !.modified = FALSE]
    OBVIOUS
  <2>2. FieldTyped(f)
    BY <1>0, <2>1, RemarkedFieldTyped
  <2>3. FieldTyped(date')
    BY <1>4, <2>1, <2>2, RefreshedFieldTyped DEF Date!Commit, DateTyped
  <2> QED  BY <1>4, <2>3 DEF Date!Commit, DateTyped, FieldTyped
<1>5. CASE Date!Hear
  <2>1. FieldTyped(date')
    BY <1>0, <1>5, RefreshedFieldTyped DEF Date!Hear, DateTyped
  <2> QED  BY <1>5, <2>1 DEF Date!Hear, DateTyped, FieldTyped
<1>6. CASE Date!HearSystem \/ Date!Elsewhere \/ UNCHANGED Date!dateVars
  BY <1>6 DEF Date!HearSystem, Date!Elsewhere, Date!dateVars, DateTyped, IsField, Date!Values
<1> QED  BY <1>1, <1>2, <1>3, <1>4, <1>5, <1>6 DEF Date!DatesNext

LEMMA DateTypesSuffice == DateTyped => Date!TypeOK
  BY DEF DateTyped, Date!TypeOK

-----------------------------------------------------------------------------
(* The types of the combobox.                                              *)

OptionTexts == {Combo!OptionText(z) : z \in Zones}

LEMMA OptionsAreMany == IsFiniteSet(OptionTexts) /\ OptionTexts # {}
<1>1. PICK f : f = [z \in Zones |-> Combo!OptionText(z)]
  OBVIOUS
<1>2. f \in Surjection(Zones, OptionTexts)
  BY <1>1 DEF Surjection, OptionTexts
<1>4. OptionTexts # {}
  BY ZonesAssumption DEF OptionTexts
<1> QED  BY <1>2, <1>4, ZonesAssumption, FS_Surjection

\* combobox(): there are options to move among.
LEMMA OptionsAre ==
    \E n \in Nat \ {0} : Combo!Options \in [1..n -> OptionTexts]
<1>1. PICK n : n = Cardinality(OptionTexts)
  OBVIOUS
<1>2. n \in Nat /\ ExistsBijection(1..n, OptionTexts)
  BY <1>1, OptionsAreMany, FS_CardinalityType
<1>3. PICK f : f \in Bijection(1..n, OptionTexts)
  BY <1>2 DEF ExistsBijection
<1>4. f \in [1..n -> OptionTexts] /\ Combo!IsInjective(f) /\ \A t \in OptionTexts : \E i \in 1..n : f[i] = t
  BY <1>3 DEF Bijection, Injection, Surjection, IsInjective, Combo!IsInjective
<1>5. n # 0
  BY <1>2, <1>4, OptionsAreMany
<1>6. Combo!Cardinality(OptionTexts) = n
  BY <1>1 DEF Combo!Cardinality, Cardinality
<1>7. Combo!Options = CHOOSE g \in [1..n -> OptionTexts] : Combo!IsInjective(g)
  <2>1. Combo!Options = Combo!SetToSeq(OptionTexts)
    BY DEF Combo!Options, OptionTexts
  <2> QED  BY <1>6, <2>1 DEF Combo!SetToSeq
<1> QED  BY <1>2, <1>4, <1>5, <1>7

\* What may be selected in the list.
LEMMA OptionsStay ==
    /\ Head(Combo!Options) \in Combo!Range(Combo!Options) /\ Combo!Last(Combo!Options) \in Combo!Range(Combo!Options)
    /\ option \in Combo!Range(Combo!Options) \cup {NoChoice} =>
           /\ Combo!NextOption \in Combo!Range(Combo!Options)
           /\ Combo!PreviousOption \in Combo!Range(Combo!Options)
<1>1. PICK os : os = Combo!Options
  OBVIOUS
<1>2. PICK n \in Nat \ {0} : os \in [1..n -> OptionTexts]
  BY <1>1, OptionsAre
<1>3. os \in Seq(OptionTexts) /\ DOMAIN os = 1..n /\ Len(os) = n
  BY <1>2
<1>4. \A i \in 1..n : os[i] \in Combo!Range(os)
  BY <1>3 DEF Combo!Range
<1>5. Head(os) = os[1] /\ Combo!Last(os) = os[n]
  BY <1>3 DEF Combo!Last
<1>6. Head(os) \in Combo!Range(os) /\ Combo!Last(os) \in Combo!Range(os)
  BY <1>4, <1>5
<1>7. ASSUME option \in Combo!Range(os), option # Head(os) \/ option # Combo!Last(os)
      PROVE  \E i \in 1..n : /\ i = (CHOOSE j \in DOMAIN os : os[j] = option)
                             /\ option # Combo!Last(os) => i + 1 \in 1..n
                             /\ option # Head(os) => i - 1 \in 1..n
  <2>1. PICK i : i = CHOOSE j \in DOMAIN os : os[j] = option
    OBVIOUS
  <2>2. \E j \in DOMAIN os : os[j] = option
    BY <1>7 DEF Combo!Range
  <2>3. i \in 1..n /\ os[i] = option
    BY <1>3, <2>1, <2>2
  <2> QED  BY <1>5, <2>1, <2>3
<1>8. ASSUME option \in Combo!Range(os) \cup {NoChoice} PROVE Combo!NextOption \in Combo!Range(os)
  <2>1. CASE option = Combo!Last(os) \/ option = NoChoice
    BY <1>1, <1>6, <2>1 DEF Combo!NextOption
  <2>2. CASE ~(option = Combo!Last(os) \/ option = NoChoice)
    <3>1. PICK i \in 1..n : i = (CHOOSE j \in DOMAIN os : os[j] = option) /\ i + 1 \in 1..n
      BY <1>7, <1>8, <2>2
    <3>2. Combo!NextOption = os[i + 1]
      BY <1>1, <2>2, <3>1 DEF Combo!NextOption
    <3> QED  BY <1>4, <3>1, <3>2
  <2> QED  BY <2>1, <2>2
<1>9. ASSUME option \in Combo!Range(os) \cup {NoChoice} PROVE Combo!PreviousOption \in Combo!Range(os)
  <2>1. CASE option = Head(os) \/ option = NoChoice
    BY <1>1, <1>6, <2>1 DEF Combo!PreviousOption
  <2>2. CASE ~(option = Head(os) \/ option = NoChoice)
    <3>1. PICK i \in 1..n : i = (CHOOSE j \in DOMAIN os : os[j] = option) /\ i - 1 \in 1..n
      BY <1>7, <1>9, <2>2
    <3>2. Combo!PreviousOption = os[i - 1]
      BY <1>1, <2>2, <3>1 DEF Combo!PreviousOption
    <3> QED  BY <1>4, <3>1, <3>2
  <2> QED  BY <2>1, <2>2
<1> QED  BY <1>1, <1>6, <1>8, <1>9

CountTyped(over0, closing0, keys0) ==
    /\ closing0 \in Nat /\ keys0 \in Nat /\ keys0 <= MaxKeys
    /\ closing0 + (IF over0 THEN 1 ELSE 0) <= keys0

ChoiceTyped(o, m) == {o, m} \subseteq Combo!Range(Combo!Options) \cup {NoChoice}

TextTyped(s, t) == {s, t} \subseteq Combo!Range(Combo!Options) \cup Typed

ComboTyped ==
    /\ focused \in BOOLEAN /\ over \in BOOLEAN /\ open \in BOOLEAN /\ typed \in BOOLEAN
    /\ inputHasFocus \in BOOLEAN /\ listHasFocus \in BOOLEAN /\ hasHover \in BOOLEAN
    /\ ChoiceTyped(option, marked) /\ TextTyped(shownText, taken) /\ CountTyped(over, closing, keys)

LEMMA ComboTypesInit == Combo!ComboInit => ComboTyped
<1> SUFFICES ASSUME Combo!ComboInit PROVE ComboTyped
  OBVIOUS
<1>1. CountTyped(over, closing, keys)
  <2>1. MaxKeys \in Nat /\ over = FALSE /\ closing = 0 /\ keys = 0
    BY BoundsAssumption DEF Combo!ComboInit
  <2> QED  BY <2>1 DEF CountTyped
<1>2. ChoiceTyped(option, marked) /\ TextTyped(shownText, taken)
  BY DEF Combo!ComboInit, ChoiceTyped, TextTyped
<1> QED  BY <1>1, <1>2 DEF Combo!ComboInit, ComboTyped

LEMMA Counts ==
    ASSUME NEW o \in BOOLEAN, NEW c, NEW k, CountTyped(o, c, k)
    PROVE  /\ k < MaxKeys => /\ CountTyped(o, c, k + 1) /\ CountTyped(o, c + 1, k + 1)
                             /\ ~o => CountTyped(TRUE, c, k + 1)
           /\ c > 0 => CountTyped(o, c - 1, k)
           /\ o => CountTyped(FALSE, c + 1, k)
<1>1. MaxKeys \in Nat
  BY BoundsAssumption
<1> QED  BY <1>1 DEF CountTyped

LEMMA ComboTypesStep == ComboTyped /\ [Combo!ComboNext]_Combo!comboVars => ComboTyped'
<1> SUFFICES ASSUME ComboTyped, [Combo!ComboNext]_Combo!comboVars PROVE ComboTyped'  OBVIOUS
<1>n. keys \in Nat /\ over \in BOOLEAN /\ CountTyped(over, closing, keys)
  BY DEF ComboTyped, CountTyped
<1>s. ASSUME NEW o, NEW m, NEW t, NEW u, NEW v, NEW c, NEW k
      PROVE  /\ ChoiceTyped(o, m)' <=> ChoiceTyped(o, m)
             /\ TextTyped(t, u)' <=> TextTyped(t, u)
             /\ CountTyped(v, c, k)' <=> CountTyped(v, c, k)
  BY DEF ChoiceTyped, TextTyped, CountTyped, Combo!Options, Combo!OptionText
<1>f. ChoiceTyped(option, marked) /\ TextTyped(shownText, taken)
  BY DEF ComboTyped
<1>o. /\ ChoiceTyped(NoChoice, NoChoice) /\ ChoiceTyped(option, NoChoice) /\ ChoiceTyped(NoChoice, marked)
      /\ ChoiceTyped(Combo!NextOption, Combo!NextOption) /\ ChoiceTyped(Combo!PreviousOption, Combo!PreviousOption)
      /\ LET h == Head(Combo!Options) IN ChoiceTyped(h, h)
      /\ LET l == Combo!Last(Combo!Options) IN ChoiceTyped(l, l)
  BY <1>f, OptionsStay DEF ChoiceTyped
<1>t. /\ TextTyped(shownText, shownText)
      /\ option # NoChoice => TextTyped(option, option) /\ TextTyped(option, taken)
      /\ \A o \in Combo!Range(Combo!Options) \cup Typed : TextTyped(o, o) /\ TextTyped(o, taken)
  BY <1>f DEF ChoiceTyped, TextTyped
<1>b. /\ focused' \in BOOLEAN /\ over' \in BOOLEAN /\ open' \in BOOLEAN /\ typed' \in BOOLEAN
      /\ inputHasFocus' \in BOOLEAN /\ listHasFocus' \in BOOLEAN /\ hasHover' \in BOOLEAN
  BY DEF ComboTyped, Combo!ComboNext, Combo!Focus, Combo!LeaveField, Combo!Close, Combo!Enter, Combo!ArrowDown,
         Combo!ArrowUp, Combo!AltDown, Combo!AltUp, Combo!Escape, Combo!Tab, Combo!Moves, Combo!Type,
         Combo!ClickField, Combo!ClickOption, Combo!MouseOver, Combo!MouseOut,
         Combo!SetFocusCombobox, Combo!SetVisualFocusListbox, Combo!RemoveVisualFocusAll, Combo!Choose, Combo!Left,
         Combo!Select, Combo!Opens, Combo!Closes, Combo!Key, Combo!comboVars, Combo!flags
<1>c. CountTyped(over', closing', keys')
  BY <1>n, Counts
     DEF ComboTyped, Combo!ComboNext, Combo!Focus, Combo!LeaveField, Combo!Close, Combo!Enter, Combo!ArrowDown,
         Combo!ArrowUp, Combo!AltDown, Combo!AltUp, Combo!Escape, Combo!Tab, Combo!Moves, Combo!Type,
         Combo!ClickField, Combo!ClickOption, Combo!MouseOver, Combo!MouseOut, Combo!Key, Combo!Pressed,
         Combo!ClosesLater, Combo!comboVars
<1>d. ChoiceTyped(option', marked')
  BY <1>f, <1>o
     DEF Combo!ComboNext, Combo!Focus, Combo!LeaveField, Combo!Close, Combo!Enter, Combo!ArrowDown,
         Combo!ArrowUp, Combo!AltDown, Combo!AltUp, Combo!Escape, Combo!Tab, Combo!Moves, Combo!Type,
         Combo!ClickField, Combo!ClickOption, Combo!MouseOver, Combo!MouseOut,
         Combo!Select, Combo!Opens, Combo!Closes, Combo!comboVars
<1>e. TextTyped(shownText', taken')
  BY <1>f, <1>t
     DEF Combo!ComboNext, Combo!Focus, Combo!LeaveField, Combo!Close, Combo!Enter, Combo!ArrowDown,
         Combo!ArrowUp, Combo!AltDown, Combo!AltUp, Combo!Escape, Combo!Tab, Combo!Moves, Combo!Type,
         Combo!ClickField, Combo!ClickOption, Combo!MouseOver, Combo!MouseOut,
         Combo!Choose, Combo!Left, Combo!comboVars
<1>g. ChoiceTyped(option, marked)' /\ TextTyped(shownText, taken)' /\ CountTyped(over, closing, keys)'
  BY <1>c, <1>d, <1>e DEF ChoiceTyped, TextTyped, CountTyped, Combo!Options, Combo!OptionText
<1> QED  BY <1>b, <1>g DEF ComboTyped

LEMMA ComboTypesSuffice == ComboTyped => Combo!TypeOK
<1> SUFFICES ASSUME ComboTyped PROVE Combo!TypeOK
  OBVIOUS
<1>1. closing \in 0..2 * MaxKeys
  <2>1. MaxKeys \in Nat /\ CountTyped(over, closing, keys)
    BY BoundsAssumption DEF ComboTyped
  <2> QED  BY <2>1 DEF CountTyped
<1> QED  BY <1>1 DEF ComboTyped, ChoiceTyped, TextTyped, Combo!TypeOK

-----------------------------------------------------------------------------
(* The types of what the server and the browser say to each other.         *)

HeldBy(f) == FieldTexts \cup {f, "card", "deleted"}

DbTyped(d) == \A x \in DOMAIN d : \A f \in DOMAIN d[x] : d[x][f] \in HeldBy(f)

SaidTyped(o) ==
    /\ o.first \in FieldTexts \cup {"deleted"}
    /\ \A f \in RecordFields : Object!SuffixOf(f) \in DOMAIN o.value => o.value[Object!SuffixOf(f)] \in HeldBy(f)

WireTyped == \A answer \in wire : \A o \in answer : SaidTyped(o)

ObjectTyped == DbTyped(listDb) /\ WireTyped /\ fresh \in BOOLEAN /\ changes \in 0..MaxObjectEvents

\* schema.js: what a kind of record has in the browser is listed by the server.
LEMMA FieldsAreListed == \A k \in Kinds : DOMAIN Object!Fields[k] \subseteq DOMAIN Object!ListedFields[k]
<1> SUFFICES ASSUME NEW k \in Kinds PROVE DOMAIN Object!Fields[k] \subseteq DOMAIN Object!ListedFields[k]
  OBVIOUS
<1>1. k = "system" => DOMAIN Object!Fields[k] \subseteq DOMAIN Object!ListedFields[k]
  BY DEF Object!ListedFields, Object!Fields, Object!SystemFields
<1>2. k = "interfaces" => DOMAIN Object!Fields[k] \subseteq DOMAIN Object!ListedFields[k]
  BY DEF Object!ListedFields, Object!Fields, Object!InterfaceFields
<1>3. k = "controllers" => DOMAIN Object!Fields[k] \subseteq DOMAIN Object!ListedFields[k]
  BY DEF Object!ListedFields, Object!Fields, Object!ControllerFields
<1>4. k = "doors" => DOMAIN Object!Fields[k] \subseteq DOMAIN Object!ListedFields[k]
  BY DEF Object!ListedFields, Object!Fields, Object!DoorFields
<1>5. k = "cards" => DOMAIN Object!Fields[k] \subseteq DOMAIN Object!ListedFields[k]
  BY DEF Object!ListedFields, Object!Fields, Object!CardFields
<1>6. k = "groups" => DOMAIN Object!Fields[k] \subseteq DOMAIN Object!ListedFields[k]
  BY DEF Object!ListedFields, Object!Fields, Object!GroupFields
<1>7. k = "events" => DOMAIN Object!Fields[k] \subseteq DOMAIN Object!ListedFields[k]
  BY DEF Object!ListedFields, Object!Fields, Object!EventFields
<1>8. k = "logs" => DOMAIN Object!Fields[k] \subseteq DOMAIN Object!ListedFields[k]
  BY DEF Object!ListedFields, Object!Fields, Object!LogFields
<1>9. k = "users" => DOMAIN Object!Fields[k] \subseteq DOMAIN Object!ListedFields[k]
  BY DEF Object!ListedFields, Object!Fields, Object!UserFields
<1> QED  BY <1>1, <1>2, <1>3, <1>4, <1>5, <1>6, <1>7, <1>8, <1>9, TheKinds

\* db.js: a field is set from the object of that field.
LEMMA SuffixesAreApart ==
    ASSUME list \in Kinds, NEW f \in RecordFields, NEW g \in DOMAIN Object!ListedFields[list],
           Object!SuffixOf(f) = Object!ListedFields[list][g]
    PROVE  f = g
<1>1. f \in DOMAIN Object!ListedFields[list]
  BY FieldsAreListed DEF RecordFields
<1>2. CASE Unread(list, f)
  <2>1. list = "interfaces" /\ f \in {"created", "deleted"}
    BY <1>2 DEF Unread
  <2>2. f \notin DOMAIN Object!Fields[list]
    BY <2>1 DEF Object!Fields, Object!InterfaceFields
  <2>3. Object!SuffixOf(f) = <<>>
    BY <2>1, <2>2 DEF Object!SuffixOf
  <2>4. Object!ListedFields[list][g] # <<>>
    <3>1. Object!ListedFields[list][g] \in {<<0, 0>>, <<0, 1>>, <<0, 2>>, <<0, 4>>, <<1>>, <<3, 1>>, <<3, 2>>, <<3, 3>>}
      BY <2>1 DEF Object!ListedFields
    <3>2. \A x \in {<<0, 0>>, <<0, 1>>, <<0, 2>>, <<0, 4>>, <<1>>, <<3, 1>>, <<3, 2>>, <<3, 3>>} : Len(x) # Len(<<>>)
      OBVIOUS
    <3> QED  BY <3>1, <3>2
  <2> QED  BY <2>3, <2>4
<1>3. CASE ~Unread(list, f)
  <2>1. Object!SuffixOf(f) = Object!ListedFields[list][f]
    BY <1>1, <1>3, ListedIsRead DEF Read
  <2> QED  BY <1>1, <2>1, ListedApart DEF Apart
<1> QED  BY <1>2, <1>3

LEMMA HoldsTyped ==
    ASSUME NEW r, r.text \in FieldTexts \cup {Blank}, NEW f
    PROVE  Object!Holds(r, f) \in HeldBy(f)
  BY MarksAssumption DEF Object!Holds, HeldBy

\* AsObjects(): what is listed of a record.
LEMMA ObjectsTyped ==
    ASSUME ShapesOK, NEW n \in Object!Listed
    PROVE  SaidTyped(Object!Objects(n))
<1> DEFINE deleted == listServer[n].state = "deleted"
           fields == IF deleted THEN {"deleted"}
                     ELSE {g \in DOMAIN Object!ListedFields[list] : ~(g \in Object!Optional /\ Object!Holds(listServer[n], g) = Blank)}
           value == [x \in {Object!ListedFields[list][g] : g \in fields} |->
                        Object!Holds(listServer[n], CHOOSE g \in fields : Object!ListedFields[list][g] = x)]
<1>1. Object!Objects(n) = [OID |-> Object!OID(n), first |-> IF deleted THEN "deleted" ELSE Blank, value |-> value]
  BY DEF Object!Objects
<1>2. fields \subseteq DOMAIN Object!ListedFields[list] /\ listServer[n].text \in FieldTexts \cup {Blank}
  BY DEF ShapesOK, Object!Listed
<1> HIDE DEF fields, deleted
<1>3. ASSUME NEW f \in RecordFields, Object!SuffixOf(f) \in DOMAIN value PROVE value[Object!SuffixOf(f)] \in HeldBy(f)
  <2>1. PICK g : g = CHOOSE h \in fields : Object!ListedFields[list][h] = Object!SuffixOf(f)
    OBVIOUS
  <2>2. \E h \in fields : Object!ListedFields[list][h] = Object!SuffixOf(f)
    BY <1>3
  <2>3. g \in fields /\ Object!ListedFields[list][g] = Object!SuffixOf(f)
    BY <2>1, <2>2
  <2>4. g = f
    BY <1>2, <2>3, SuffixesAreApart DEF ShapesOK
  <2>5. value[Object!SuffixOf(f)] = Object!Holds(listServer[n], g)
    BY <1>3, <2>1
  <2> QED  BY <1>2, <2>4, <2>5, HoldsTyped
<1> HIDE DEF value
<1>4. PICK o : o = Object!Objects(n)
  OBVIOUS
<1>5. o.first \in FieldTexts \cup {"deleted"} /\ o.value = value
  BY <1>1, <1>4, MarksAssumption
<1> QED  BY <1>3, <1>4, <1>5 DEF SaidTyped

\* updated(), replace(): what DB makes of what it is told.
LEMMA AfterTyped ==
    ASSUME ShapesOK, DbTyped(listDb), NEW answer, \A o \in answer : SaidTyped(o)
    PROVE  DbTyped(After(answer))
<1> SUFFICES ASSUME NEW x \in DOMAIN After(answer), NEW f \in DOMAIN After(answer)[x]
             PROVE  After(answer)[x][f] \in HeldBy(f)
  BY DEF DbTyped
<1>1. DbTyped(Kept)
  BY DEF DbTyped, Kept, Object!NoRecords
<1>2. f \in RecordFields
  BY AfterShapes
<1>3. CASE \E o \in answer : o.OID = x
  <2>1. PICK o : o = CHOOSE p \in answer : p.OID = x
    OBVIOUS
  <2>2. o \in answer /\ SaidTyped(o)
    BY <1>3, <2>1
  <2>3. PICK old : old = Old(Kept, x, o.first)
    OBVIOUS
  <2>4. After(answer)[x] = Object!Heard(old, o)
    BY <1>3, <2>1, <2>3, AfterSays
  <2>5. DOMAIN old = RecordFields
    BY <2>3, OldIs
  <2>6. old[f] \in HeldBy(f)
    <3>1. CASE x \in DOMAIN Kept
      BY <1>1, <1>2, <2>3, <2>5, <3>1 DEF Old, DbTyped
    <3>2. CASE x \notin DOMAIN Kept
      <4>1. old[f] = IF f = "status" THEN o.first ELSE IF f = "kind" THEN "card" ELSE Blank
        BY <1>2, <2>3, <3>2 DEF Old, Object!NewRecord, RecordFields
      <4> QED  BY <2>2, <4>1, MarksAssumption DEF SaidTyped, HeldBy
    <3> QED  BY <3>1, <3>2
  <2>7. After(answer)[x][f] = IF Object!SuffixOf(f) \in DOMAIN o.value THEN Object!Taken(f, o.value[Object!SuffixOf(f)]) ELSE old[f]
    BY <1>2, <2>4, <2>5 DEF Object!Heard
  <2>8. ASSUME Object!SuffixOf(f) \in DOMAIN o.value PROVE Object!Taken(f, o.value[Object!SuffixOf(f)]) \in HeldBy(f)
    <3>1. o.value[Object!SuffixOf(f)] \in HeldBy(f)
      BY <1>2, <2>2, <2>8 DEF SaidTyped
    <3> QED  BY <3>1 DEF Object!Taken, HeldBy
  <2> QED  BY <2>6, <2>7, <2>8
<1>4. CASE ~\E o \in answer : o.OID = x
  <2>1. x \in DOMAIN Kept
    <3>1. x \in DOMAIN Kept \cup {o.OID : o \in answer}
      BY AfterSays
    <3> QED  BY <3>1, <1>4
  <2>2. After(answer)[x] = Kept[x]
    BY <1>4, AfterSays
  <2> QED  BY <1>1, <2>1, <2>2 DEF DbTyped
<1> QED  BY <1>3, <1>4

LEMMA SayingStays ==
    ASSUME list' = list, field' = field, NEW o
    PROVE  SaidTyped(o)' <=> SaidTyped(o)
<1>1. ASSUME NEW f PROVE Object!SuffixOf(f)' = Object!SuffixOf(f)
  BY DEF Object!SuffixOf
<1>2. RecordFields' = RecordFields
  BY DEF RecordFields
<1> QED  BY <1>1, <1>2 DEF SaidTyped, HeldBy

LEMMA ObjectTypesInit == Object!ObjectsInit => ObjectTyped
<1> SUFFICES ASSUME Object!ObjectsInit PROVE ObjectTyped
  OBVIOUS
<1>1. changes \in 0..MaxObjectEvents
  <2>1. MaxObjectEvents \in Nat /\ changes = 0
    BY BoundsAssumption DEF Object!ObjectsInit
  <2> QED  BY <2>1
<1>2. DbTyped(listDb)
  <2>1. DOMAIN listDb = {}
    BY DEF Object!ObjectsInit, Object!NoRecords
  <2> QED  BY <2>1 DEF DbTyped
<1> QED  BY <1>1, <1>2 DEF Object!ObjectsInit, ObjectTyped, WireTyped

LEMMA ObjectTypesStep == ShapesOK /\ ObjectTyped /\ [Object!ObjectsNext]_Object!objectsVars => ObjectTyped'
<1> SUFFICES ASSUME ShapesOK, ObjectTyped, [Object!ObjectsNext]_Object!objectsVars PROVE ObjectTyped'
  OBVIOUS
<1>1. UNCHANGED <<list, field, console>>
  BY DEF Object!ObjectsNext, Object!ChangedElsewhere, Object!List, Object!Edited, Object!Hear, Object!objectsVars
<1>2. changes' \in 0..MaxObjectEvents
  <2>1. MaxObjectEvents \in Nat
    BY BoundsAssumption
  <2>2. changes' = changes \/ (changes < MaxObjectEvents /\ changes' = changes + 1)
    BY DEF Object!ObjectsNext, Object!ChangedElsewhere, Object!List, Object!Edited, Object!Hear, Object!objectsVars, Object!CountChange
  <2> QED  BY <2>1, <2>2 DEF ObjectTyped
<1>3. fresh' \in BOOLEAN
  BY DEF Object!ObjectsNext, Object!ChangedElsewhere, Object!List, Object!Edited, Object!Hear, Object!objectsVars, ObjectTyped
<1>4. DbTyped(listDb')
  <2>1. CASE Object!Hear
    <3>1. PICK answer \in wire : listDb' = After(answer)
      BY <2>1 DEF Object!Hear, After
    <3> QED  BY <3>1, AfterTyped DEF ObjectTyped, WireTyped
  <2>2. CASE listDb' = listDb
    BY <2>2 DEF ObjectTyped
  <2> QED  BY <2>1, <2>2 DEF Object!ObjectsNext, Object!ChangedElsewhere, Object!List, Object!Edited, Object!objectsVars
<1>5. \A answer \in wire' : \A o \in answer : SaidTyped(o)
  <2>1. CASE Object!List
    <3>1. wire' = {{Object!Objects(n) : n \in Object!Listed}}
      BY <2>1 DEF Object!List
    <3> QED  BY <3>1, ObjectsTyped
  <2>2. CASE Object!Edited
    <3>1. PICK n \in Numbers, t \in FieldTexts :
             wire' = {{[OID |-> Object!OID(n), first |-> t, value |-> [x \in {Object!ListedFields[list][field]} |-> t]]}}
      BY <2>2 DEF Object!Edited
    <3>2. PICK o : o = [OID |-> Object!OID(n), first |-> t, value |-> [x \in {Object!ListedFields[list][field]} |-> t]]
      OBVIOUS
    <3>3. o.first = t /\ \A x \in DOMAIN o.value : o.value[x] = t
      BY <3>2
    <3>4. SaidTyped(o)
      BY <3>3 DEF SaidTyped, HeldBy
    <3> QED  BY <3>1, <3>2, <3>4
  <2>3. CASE wire' = {} \/ wire' = wire
    BY <2>3 DEF ObjectTyped, WireTyped
  <2> QED  BY <2>1, <2>2, <2>3 DEF Object!ObjectsNext, Object!ChangedElsewhere, Object!Hear, Object!objectsVars
<1>6. WireTyped'
  BY <1>1, <1>5, SayingStays DEF WireTyped
<1> QED  BY <1>2, <1>3, <1>4, <1>6 DEF ObjectTyped, DbTyped, HeldBy

LEMMA ObjectTypesSuffice == ShapesOK /\ ObjectTyped => Object!TypeOK
  BY DEF ShapesOK, ObjectTyped, DbTyped, HeldBy, Object!TypeOK, Kinds

-----------------------------------------------------------------------------
(* Pages, as Page.  The types.                                             *)

\* What a record may refer to, and the records, listings and answers there are.
PageReach == IF Page!Flagged THEN {1, 2} ELSE Page!OIDs
PageTies == UNION {[S -> BOOLEAN] : S \in SUBSET PageReach}
PageRecord == [deleted : BOOLEAN, ties : PageTies]
PageListings == UNION {[S -> PageRecord] : S \in SUBSET Page!OIDs}
PageAnswers == {Pending, Arrived} \cup PageListings
PageGet == {get \in [Page!Roles -> PageAnswers] : Page!Flagged => get["linked"] = Arrived}
PageDbs == [Page!Roles -> [Page!OIDs -> PageRecord \cup {None}]]

\* A row of checkboxes has one for each of the headings h, a select has the doors in their order.
BoxRow(r, h) ==
    /\ r = [cells |-> r.cells, on |-> r.on]
    /\ OnceEach(r.cells, Page!OIDs) /\ InOrderOf(r.cells, h) /\ r.on \subseteq Range(r.cells)
ChoiceRow(r) ==
    \E s \in Seq(Page!OIDs) : \E p, value, original, modified :
        /\ r = SelectRow(s, p, value, original, modified)
        /\ Ascending(s) /\ p \in 0..Len(s)
        /\ value \in 0..PageRecords /\ original \in 0..PageRecords /\ modified \in BOOLEAN
AtRow(r) == r \in [at : 0..PageRecords]
FlagRow(r) == r \in [on : SUBSET {1, 2}]

Boxes == opened.rows \in {"cards", "groups"}
Selects == opened.rows = "controllers" /\ ~opened.overview
Places == opened.overview \/ opened.rows = "doors"

PageRow(r, h) ==
    /\ Boxes => BoxRow(r, h)
    /\ Selects => ChoiceRow(r)
    /\ Places => AtRow(r)
    /\ Page!Flagged => FlagRow(r)

PageRowsOK(rs, h) == DOMAIN rs = Page!OIDs /\ \A n \in Page!OIDs : rs[n] # None => PageRow(rs[n], h)

PageInv ==
    /\ opened \in Page!Pages
    /\ pageServer \in [Page!Roles -> Page!Kept]
    /\ pageGets \in Seq(PageGet)
    /\ pageDb \in PageDbs
    /\ OnceEach(heard, Page!OIDs) /\ OnceEach(head, Page!OIDs)
    /\ PageRowsOK(rows, head)

LEMMA PageOIDs ==
    /\ PageRecords \in Nat /\ Page!OIDs = 1..PageRecords /\ Page!OIDs \in SUBSET Nat
    /\ PageReach \subseteq Page!OIDs
  BY PagesAssumption DEF Page!OIDs, PageReach

LEMMA PageLists ==
    ASSUME NEW s, NEW S
    PROVE  Page!Range(s) = Range(s) /\ Page!Among(s, S) = Among(s, S)
  BY DEF Page!Range, Range, Page!Among, Among

\* In the order in which they were created.
LEMMA CreatedIs ==
    ASSUME NEW S
    PROVE  /\ OnceEach(Page!Created(S), Page!OIDs) /\ Ascending(Page!Created(S))
           /\ Range(Page!Created(S)) = Page!OIDs \cap S
<1>1. PICK s : s = [n \in Page!OIDs |-> n]
  OBVIOUS
<1>2. s \in Seq(Page!OIDs) /\ DOMAIN s = Page!OIDs /\ \A n \in Page!OIDs : s[n] = n
  <2>1. s \in [1..PageRecords -> Page!OIDs] /\ PageRecords \in Nat
    BY <1>1, PageOIDs
  <2> QED  BY <1>1, <2>1
<1>3. IsInjective(s) /\ Range(s) = Page!OIDs
  BY <1>2 DEF IsInjective, Range
<1>4. PICK c : c = Among(s, S)
  OBVIOUS
<1>5. c \in Seq(Page!OIDs) /\ Sieved(c, s, S)
  BY <1>2, <1>4, AmongKeeps
<1>6. c = Page!Created(S)
  BY <1>1, <1>4, PageLists DEF Page!Created
<1>7. Ascending(c)
  <2>1. ASSUME NEW a \in DOMAIN c, NEW b \in DOMAIN c, a < b PROVE c[a] < c[b]
    <3>1. PICK i \in DOMAIN s, j \in DOMAIN s : i < j /\ s[i] = c[a] /\ s[j] = c[b]
      BY <1>5, <2>1 DEF Sieved
    <3> QED  BY <1>2, <3>1
  <2> QED  BY <2>1 DEF Ascending
<1>8. IsInjective(c) /\ Range(c) = Page!OIDs \cap S
  BY <1>3, <1>5 DEF Sieved
<1> QED  BY <1>5, <1>6, <1>7, <1>8 DEF OnceEach

\* The Map has each once.
LEMMA OrderedIs ==
    ASSUME OnceEach(heard, Page!OIDs), NEW d
    PROVE  OnceEach(Page!Ordered(d), Page!OIDs)
<1>1. PICK known : known = {n \in Page!OIDs : d[n] # None}
  OBVIOUS
<1>2. PICK s, t : s = Among(heard, known) /\ t = Page!Created(known \ Range(heard))
  OBVIOUS
<1>3. PICK c : c = s \o t
  OBVIOUS
<1>4. c = Page!Ordered(d)
  BY <1>1, <1>2, <1>3, PageLists DEF Page!Ordered
<1>5. s \in Seq(Page!OIDs) /\ Sieved(s, heard, known)
  BY <1>2, AmongKeeps DEF OnceEach
<1>6. OnceEach(t, Page!OIDs) /\ Range(t) = Page!OIDs \cap (known \ Range(heard))
  BY <1>2, CreatedIs
<1>7. c \in Seq(Page!OIDs) /\ Joined(c, s, t)
  BY <1>3, <1>5, <1>6, BehindKeeps DEF OnceEach
<1>8. IsInjective(s) /\ Range(s) = Range(heard) \cap known
  BY <1>5 DEF Sieved, OnceEach
<1>9. IsInjective(c)
  <2>1. Range(s) \cap Range(t) = {}
    BY <1>6, <1>8
  <2> QED  BY <1>6, <1>7, <1>8, <2>1 DEF Joined, OnceEach
<1> QED  BY <1>4, <1>7, <1>9 DEF OnceEach

\* What is alive in DB once it has heard.
LEMMA AliveIs ==
    ASSUME NEW role
    PROVE  /\ OnceEach(Page!Alive(role), Page!OIDs) /\ Ascending(Page!Alive(role))
           /\ Range(Page!Alive(role)) \subseteq Page!OIDs
<1>1. PICK S : S = {n \in Page!OIDs : Page!alive(pageDb'[role][n])}
  OBVIOUS
<1>2. Page!Alive(role) = Page!Created(S)
  BY <1>1 DEF Page!Alive
<1> QED  BY <1>2, CreatedIs

LEMMA ColumnsAre ==
    ASSUME NEW cs
    PROVE  Page!Columns(cs) = Completed(cs, Page!Alive("linked"), Page!OIDs)
  BY PageLists DEF Page!Columns, Completed

-----------------------------------------------------------------------------
(* What the server lists and DB makes of it. *)

LEMMA SomeTies ==
    ASSUME NEW S, S \subseteq PageReach, NEW t, t \in [S -> BOOLEAN]
    PROVE  t \in PageTies
  BY DEF PageTies

LEMMA TheTies ==
    ASSUME NEW t \in PageTies
    PROVE  DOMAIN t \subseteq PageReach /\ t \in [DOMAIN t -> BOOLEAN]
  BY DEF PageTies

\* AsObjects(), toObjects()
LEMMA PageListedTyped ==
    ASSUME opened \in Page!Pages, pageServer \in [Page!Roles -> Page!Kept], NEW role \in Page!Roles
    PROVE  Page!Listing(role) \in PageListings
<1>1. ASSUME NEW n \in Page!OIDs PROVE Page!Listed(role, n) \in PageRecord
  <2>1. PICK r : r = pageServer[role][n]
    OBVIOUS
  <2>2. r.ties \in SUBSET Page!OIDs
    BY <2>1 DEF Page!Kept
  <2>3. PICK t : t = IF r.state = "deleted" \/ role # Page!Holder THEN Page!Nothing
                     ELSE IF Page!Single THEN [x \in r.ties |-> TRUE]
                     ELSE [x \in Page!Referable |-> x \in r.ties]
    OBVIOUS
  <2>4. Page!Listed(role, n) = [deleted |-> r.state = "deleted", ties |-> t]
    BY <2>1, <2>3 DEF Page!Listed
  <2>5. t \in PageTies
    <3>1. CASE r.state = "deleted" \/ role # Page!Holder
      <4>1. t \in [{} -> BOOLEAN]
        BY <2>3, <3>1 DEF Page!Nothing
      <4> QED  BY <4>1, SomeTies
    <3>2. CASE ~(r.state = "deleted" \/ role # Page!Holder) /\ Page!Single
      <4>1. t \in [r.ties -> BOOLEAN]
        BY <2>3, <3>2
      <4>2. ~Page!Flagged
        BY <3>2 DEF Page!Single, Page!Flagged, Page!Pages
      <4>3. r.ties \subseteq PageReach
        BY <2>2, <4>2 DEF PageReach
      <4> QED  BY <4>1, <4>3, SomeTies
    <3>3. CASE ~(r.state = "deleted" \/ role # Page!Holder) /\ ~Page!Single
      <4>1. t \in [Page!Referable -> BOOLEAN]
        BY <2>3, <3>3
      <4>2. Page!Referable \subseteq PageReach
        BY DEF Page!Referable, Page!LiveAt, PageReach
      <4> QED  BY <4>1, <4>2, SomeTies
    <3> QED  BY <3>1, <3>2, <3>3
  <2> QED  BY <2>4, <2>5 DEF PageRecord
<1>2. PICK S : S = {m \in Page!OIDs : pageServer[role][m].state \in {"live", "deleted"}}
  OBVIOUS
<1>3. Page!Listing(role) = [n \in S |-> Page!Listed(role, n)]
  BY <1>2 DEF Page!Listing
<1>4. S \in SUBSET Page!OIDs
  BY <1>2
<1>5. Page!Listing(role) \in [S -> PageRecord]
  BY <1>1, <1>3, <1>4
<1> QED  BY <1>4, <1>5 DEF PageListings

LEMMA PutIntoTyped ==
    ASSUME NEW t \in PageTies, NEW u \in PageTies
    PROVE  Page!PutInto(t, u) \in PageTies
<1>1. PICK w : w = Page!PutInto(t, u)
  OBVIOUS
<1>2. PICK S : S = DOMAIN t \cup DOMAIN u
  OBVIOUS
<1>3. S \subseteq PageReach
  BY <1>2, TheTies
<1>4. w \in [S -> BOOLEAN]
  <2>1. \A x \in DOMAIN t : t[x] \in BOOLEAN
    BY TheTies
  <2>2. \A x \in DOMAIN u : u[x] \in BOOLEAN
    BY TheTies
  <2> QED  BY <1>1, <1>2, <2>1, <2>2 DEF Page!PutInto
<1> QED  BY <1>1, <1>3, <1>4, SomeTies

\* object()
LEMMA PageHeardTyped ==
    ASSUME opened \in Page!Pages, NEW role \in Page!Roles, role = "linked" => ~Page!Flagged,
           NEW v \in PageRecord, NEW o \in PageRecord
    PROVE  Page!Heard(opened[role], v, o) \in PageRecord
<1>1. PICK k : k = opened[role]
  OBVIOUS
<1>2. k \in {"controllers", "doors", "cards", "groups", "users", "interfaces"}
  BY <1>1 DEF Page!Pages, Page!Roles, Page!Flagged
<1>3. [v EXCEPT !.deleted = TRUE] \in PageRecord /\ [v EXCEPT !.deleted = FALSE] \in PageRecord
  BY DEF PageRecord
<1>4. v.ties \in PageTies /\ o.ties \in PageTies
  BY DEF PageRecord
<1>5. PICK t : t = Page!PutInto(o.ties, v.ties)
  OBVIOUS
<1>6. t \in PageTies
  BY <1>4, <1>5, PutIntoTyped
<1>7. [deleted |-> FALSE, ties |-> t] \in PageRecord /\ [deleted |-> FALSE, ties |-> o.ties] \in PageRecord
  BY <1>4, <1>6 DEF PageRecord
<1>8. \/ Page!Heard(k, v, o) = [v EXCEPT !.deleted = TRUE]
      \/ Page!Heard(k, v, o) = [v EXCEPT !.deleted = FALSE]
      \/ Page!Heard(k, v, o) = [deleted |-> FALSE, ties |-> t]
      \/ Page!Heard(k, v, o) = [deleted |-> FALSE, ties |-> o.ties]
  BY <1>2, <1>5 DEF Page!Heard, Page!HeardController, Page!HeardDoor, Page!HeardCard, Page!HeardGroup,
                    Page!HeardUser, Page!HeardInterface
<1> QED  BY <1>1, <1>3, <1>7, <1>8

\* DB.updated
LEMMA PageUpdatedTyped ==
    ASSUME opened \in Page!Pages, pageDb \in PageDbs, NEW role \in Page!Roles, role = "linked" => ~Page!Flagged,
           NEW objects \in PageListings
    PROVE  Page!Updated(role, objects) \in PageDbs
<1>1. PICK told : told = pageDb[role]
  OBVIOUS
<1>2. told \in [Page!OIDs -> PageRecord \cup {None}]
  BY <1>1 DEF PageDbs
<1>3. Page!NewRecord \in PageRecord
  <2>1. Page!Nothing \in [{} -> BOOLEAN]
    BY DEF Page!Nothing
  <2>2. Page!Nothing \in PageTies
    BY <2>1, SomeTies
  <2> QED  BY <2>2 DEF Page!NewRecord, PageRecord
<1>4. \A n \in DOMAIN objects : objects[n] \in PageRecord
  BY DEF PageListings
<1>5. PICK new : new = [n \in Page!OIDs |->
                           IF n \in DOMAIN objects THEN Page!Heard(opened[role], IF told[n] = None THEN Page!NewRecord ELSE told[n], objects[n])
                           ELSE told[n]]
  OBVIOUS
<1>6. new \in [Page!OIDs -> PageRecord \cup {None}]
  <2>1. ASSUME NEW n \in Page!OIDs PROVE new[n] \in PageRecord \cup {None}
    <3>1. PICK v : v = IF told[n] = None THEN Page!NewRecord ELSE told[n]
      OBVIOUS
    <3>2. v \in PageRecord
      BY <1>2, <1>3, <3>1
    <3>3. CASE n \in DOMAIN objects
      <4>1. objects[n] \in PageRecord
        BY <1>4, <3>3
      <4>2. new[n] = Page!Heard(opened[role], v, objects[n])
        BY <1>5, <3>1, <3>3
      <4> QED  BY <3>2, <4>1, <4>2, PageHeardTyped
    <3>4. CASE n \notin DOMAIN objects
      BY <1>2, <1>5, <3>4
    <3> QED  BY <3>3, <3>4
  <2> QED  BY <1>5, <2>1
<1>7. Page!Updated(role, objects) = [pageDb EXCEPT ![role] = new]
  BY <1>1, <1>5 DEF Page!Updated
<1> QED  BY <1>6, <1>7 DEF PageDbs

-----------------------------------------------------------------------------
(* The rows. *)

LEMMA ChannelTyped ==
    ASSUME NEW r \in PageRecord
    PROVE  Page!Channel(r) \in 0..PageRecords
<1>1. PICK t : t = r.ties
  OBVIOUS
<1>2. DOMAIN t \subseteq PageReach /\ t \in [DOMAIN t -> BOOLEAN]
  BY <1>1, TheTies DEF PageRecord
<1>3. CASE t = Page!Nothing
  BY <1>1, <1>3, PageOIDs DEF Page!Channel
<1>4. CASE t # Page!Nothing
  <2>1. DOMAIN t # {}
    <3> SUFFICES ASSUME DOMAIN t = {} PROVE FALSE
      OBVIOUS
    <3>1. t = [x \in {} |-> FALSE]
      BY <1>2
    <3> QED  BY <1>4, <3>1 DEF Page!Nothing
  <2>2. PICK x : x = CHOOSE y \in DOMAIN t : TRUE
    OBVIOUS
  <2>3. x \in DOMAIN t
    BY <2>1, <2>2
  <2>4. Page!Channel(r) = x
    BY <1>1, <1>4, <2>2 DEF Page!Channel
  <2>5. x \in 1..PageRecords
    BY <1>2, <2>3, PageOIDs
  <2> QED  BY <2>4, <2>5, PageOIDs
<1> QED  BY <1>3, <1>4

\* lookup()
LEMMA LookupTyped ==
    ASSUME OnceEach(heard', Page!OIDs), NEW door
    PROVE  Page!Lookup(door) \in 0..PageRecords
<1>1. PICK S : S = {c \in Range(heard') : door \in DOMAIN pageDb'.linked[c].ties}
  OBVIOUS
<1>2. PICK s : s = Among(heard', S)
  OBVIOUS
<1>3. s \in Seq(Page!OIDs)
  BY <1>2, AmongKeeps DEF OnceEach
<1>4. Page!Lookup(door) = IF s = <<>> THEN 0 ELSE s[1]
  BY <1>1, <1>2, PageLists DEF Page!Lookup
<1>5. s # <<>> => s[1] \in Page!OIDs
  BY <1>3
<1> QED  BY <1>4, <1>5, PageOIDs

\* realize(), updateFromDB() of the cards and of the groups: the cells follow the headings.
LEMMA BoxesFollow ==
    ASSUME OnceEach(head, Page!OIDs), NEW n \in Page!OIDs, rows[n] # None => BoxRow(rows[n], head), NEW told,
           NEW r, r = [Page!RowOr(n, [cells |-> <<>>, on |-> {}]) EXCEPT !.cells = Page!Columns(@)]
    PROVE  BoxRow([r EXCEPT !.on = Page!Ticked(r, told)], Page!Columns(head))
<1>1. PICK old : old = Page!RowOr(n, [cells |-> <<>>, on |-> {}])
  OBVIOUS
<1>2. old = [cells |-> <<>>, on |-> {}] \/ BoxRow(old, head)
  BY <1>1 DEF Page!RowOr
<1>3. PICK cs, on, c, all, h : /\ cs = old.cells /\ on = old.on /\ c = Page!Columns(old.cells)
                               /\ all = Page!Alive("linked") /\ h = Page!Columns(head)
  OBVIOUS
<1>4. c = Completed(cs, all, Page!OIDs) /\ h = Completed(head, all, Page!OIDs)
  BY <1>3, ColumnsAre
<1>5. OnceEach(all, Page!OIDs) /\ Ascending(all)
  BY <1>3, AliveIs
<1>6. OnceEach(cs, Page!OIDs) /\ (cs = <<>> \/ InOrderOf(cs, head))
  <2>1. CASE old = [cells |-> <<>>, on |-> {}]
    <3>1. cs = <<>>
      BY <1>3, <2>1
    <3>2. <<>> \in Seq(Page!OIDs) /\ DOMAIN <<>> = {}
      OBVIOUS
    <3> QED  BY <3>1, <3>2 DEF OnceEach, IsInjective
  <2>2. CASE BoxRow(old, head)
    BY <1>3, <2>2 DEF BoxRow
  <2> QED  BY <1>2, <2>1, <2>2
<1>7. OnceEach(c, Page!OIDs)
  BY <1>4, <1>5, <1>6, CompletedIs
<1>8. InOrderOf(c, h)
  <2>1. CASE cs = <<>>
    BY <1>4, <1>5, <2>1, PageOIDs, CompletedAnew
  <2>2. CASE InOrderOf(cs, head)
    BY <1>4, <1>5, <1>6, <2>2, PageOIDs, CompletedInOrder
  <2> QED  BY <1>6, <2>1, <2>2
<1>9. old = [cells |-> cs, on |-> on]
  BY <1>2, <1>3 DEF BoxRow
<1>10. r = [cells |-> c, on |-> on]
  <2>1. r = [old EXCEPT !.cells = c]
    BY <1>1, <1>3
  <2> QED  BY <1>9, <2>1
<1>11. PICK ticked : ticked = Page!Ticked(r, told)
  OBVIOUS
<1>12. ticked \subseteq Range(c)
  <2>1. r.cells = c
    BY <1>10
  <2> QED  BY <1>11, <2>1, PageLists DEF Page!Ticked
<1>13. PICK new : new = [r EXCEPT !.on = Page!Ticked(r, told)]
  OBVIOUS
<1>14. new = [cells |-> c, on |-> ticked]
  BY <1>10, <1>11, <1>13
<1>15. new.cells = c /\ new.on = ticked
  BY <1>14
<1>16. BoxRow(new, h)
  BY <1>7, <1>8, <1>12, <1>14, <1>15 DEF BoxRow
<1> QED  BY <1>3, <1>13, <1>16

LEMMA ComparedIs ==
    ASSUME NEW doors, doors = Page!Alive("linked"), NEW r, NEW ix
    PROVE  Page!Compared(r, ix) = ComparedWith(doors, r, ix)
  BY DEF Page!Compared, ComparedWith, Page!InsertAt, InsertAt

\* updateFromDB() of controllers.js: the options become the doors.
LEMMA OptionsBecomeDoors ==
    ASSUME NEW doors, doors = Page!Alive("linked"),
           NEW s \in Seq(Page!OIDs), NEW p \in 0..Len(s), NEW value, NEW original, NEW modified
    PROVE  \E q \in 0..Len(doors) :
               /\ Page!Options(SelectRow(s, p, value, original, modified)) = SelectRow(doors, q, value, original, modified)
               /\ Ascending(s) /\ Range(s) \subseteq Range(doors) => Picked(doors, q) = Picked(s, p)
<1>0. /\ Page!OIDs \in SUBSET Nat /\ doors \in Seq(Page!OIDs) /\ Ascending(doors) /\ Len(doors) \in Nat
  BY PageOIDs, AliveIs, LenProperties DEF OnceEach
<1>1. PICK r : r = SelectRow(s, p, value, original, modified)
  OBVIOUS
<1>a. ASSUME NEW g
      PROVE  IsCompared(g, doors, r, Len(doors)) <=>
                 g = [ix \in 0..Len(Page!Alive("linked")) |-> IF ix = 0 THEN r ELSE Page!Compared(g[ix - 1], ix)]
  <2>1. \A e, ix : Page!Compared(e, ix) = ComparedWith(doors, e, ix)
    BY ComparedIs
  <2> QED  BY <2>1 DEF IsCompared
<1>2. PICK f : f = CHOOSE g : g = [ix \in 0..Len(Page!Alive("linked")) |-> IF ix = 0 THEN r ELSE Page!Compared(g[ix - 1], ix)]
  OBVIOUS
<1>3. IsCompared(f, doors, r, Len(doors))
  <2>1. PICK g : IsCompared(g, doors, r, Len(doors))
    BY <1>0, ComparedExists
  <2>2. g = [ix \in 0..Len(Page!Alive("linked")) |-> IF ix = 0 THEN r ELSE Page!Compared(g[ix - 1], ix)]
    BY <1>a, <2>1
  <2>3. f = [ix \in 0..Len(Page!Alive("linked")) |-> IF ix = 0 THEN r ELSE Page!Compared(f[ix - 1], ix)]
    BY <1>2, <2>2, Zenon
  <2> QED  BY <1>a, <2>3
<1>4. PICK t, q : f[Len(doors)] = SelectRow(t, q, value, original, modified) /\ ComparedTo(Len(doors), s, p, t, q, doors, Page!OIDs)
  BY <1>0, <1>1, <1>3, ComparesAll
<1>5. PICK e : e = IF q > Len(doors) THEN 0 ELSE q
  OBVIOUS
<1>6. /\ SubSeq(t, 1, Len(doors)) = doors /\ e \in 0..Len(doors)
      /\ Ascending(s) /\ Range(s) \subseteq Range(doors) => Picked(doors, e) = Picked(s, p)
  BY <1>0, <1>4, <1>5, CutToDoors
<1>7. Page!Options(r) = [f[Len(doors)] EXCEPT !.options = SubSeq(@, 1, Len(doors)), !.selected = IF @ > Len(doors) THEN 0 ELSE @]
  BY <1>2 DEF Page!Options
<1>8. PICK w : w = f[Len(doors)]
  OBVIOUS
<1>9. w.options = t /\ w.selected = q
  BY <1>4, <1>8 DEF SelectRow
<1>10. Page!Options(r) = [w EXCEPT !.options = doors, !.selected = e]
  BY <1>5, <1>6, <1>7, <1>8, <1>9
<1>11. PICK x : x = [w EXCEPT !.options = doors]
  OBVIOUS
<1>12. x = [options |-> doors, selected |-> q, value |-> value, original |-> original, modified |-> modified]
  BY <1>4, <1>8, <1>11 DEF SelectRow
<1>13. [x EXCEPT !.selected = e] = SelectRow(doors, e, value, original, modified)
  BY <1>12 DEF SelectRow
<1>14. Page!Options(r) = [x EXCEPT !.selected = e]
  BY <1>10, <1>11
<1> QED  BY <1>1, <1>6, <1>13, <1>14

LEMMA IndexTyped ==
    ASSUME NEW s \in Seq(Page!OIDs), NEW door
    PROVE  Page!IndexIn(s, door) \in 0..Len(s)
<1>1. Len(s) \in Nat /\ DOMAIN s = 1..Len(s)
  BY LenProperties
<1>2. CASE door \in Range(s)
  <2>1. PICK i : i = CHOOSE j \in DOMAIN s : s[j] = door
    OBVIOUS
  <2>2. \E j \in DOMAIN s : s[j] = door
    BY <1>2 DEF Range
  <2>3. i \in 1..Len(s)
    BY <1>1, <2>1, <2>2
  <2>4. Page!IndexIn(s, door) = i
    BY <1>2, <2>1, PageLists DEF Page!IndexIn
  <2> QED  BY <1>1, <2>3, <2>4
<1>3. CASE door \notin Range(s)
  <2>1. Page!IndexIn(s, door) = 0
    BY <1>3, PageLists DEF Page!IndexIn
  <2> QED  BY <1>1, <2>1
<1> QED  BY <1>2, <1>3

\* What was picked is still shown, unless its door has gone.
StillPicked(old, new) ==
    /\ old.modified /\ new.modified /\ old.value = new.value
    /\ Page!Shown(old) = old.value
    /\ Page!Range(old.options) \subseteq Page!Range(new.options)
    => Page!Shown(new) = new.value

LEMMA IsChoice ==
    ASSUME NEW s \in Seq(Page!OIDs), Ascending(s), NEW p \in 0..Len(s), NEW value \in 0..PageRecords,
           NEW original \in 0..PageRecords, NEW modified \in BOOLEAN
    PROVE  ChoiceRow(SelectRow(s, p, value, original, modified))
  BY Zenon DEF ChoiceRow

LEMMA ChoicesFollow ==
    ASSUME NEW n \in Page!OIDs, rows[n] # None => ChoiceRow(rows[n]), NEW told \in PageRecord
    PROVE  /\ ChoiceRow(Page!ControllerRow(n, told))
           /\ rows[n] # None => StillPicked(rows[n], Page!ControllerRow(n, told))
<1>1. PICK old : old = Page!RowOr(n, Page!AddedController)
  OBVIOUS
<1>2. ChoiceRow(old)
  <2>1. Page!AddedController = SelectRow(<<>>, 0, 0, 0, FALSE)
    BY DEF Page!AddedController, SelectRow
  <2>2. /\ <<>> \in Seq(Page!OIDs) /\ 0 \in 0..Len(<<>>) /\ Ascending(<<>>) /\ 0 \in 0..PageRecords
        /\ FALSE \in BOOLEAN
    BY PageOIDs DEF Ascending
  <2>3. ChoiceRow(Page!AddedController)
    BY <2>1, <2>2, IsChoice, Zenon
  <2> QED  BY <1>1, <2>3 DEF Page!RowOr
<1>3. PICK s \in Seq(Page!OIDs) : \E p, value, original, modified :
        /\ old = SelectRow(s, p, value, original, modified)
        /\ Ascending(s) /\ p \in 0..Len(s)
        /\ value \in 0..PageRecords /\ original \in 0..PageRecords /\ modified \in BOOLEAN
  BY <1>2 DEF ChoiceRow
<1>4. PICK p, value, original, modified :
        /\ old = SelectRow(s, p, value, original, modified)
        /\ Ascending(s) /\ p \in 0..Len(s)
        /\ value \in 0..PageRecords /\ original \in 0..PageRecords /\ modified \in BOOLEAN
  BY <1>3
<1>5. PICK doors : doors = Page!Alive("linked")
  OBVIOUS
<1>6. doors \in Seq(Page!OIDs) /\ Ascending(doors)
  BY <1>5, AliveIs DEF OnceEach
<1>7. PICK q \in 0..Len(doors) :
         /\ Page!Options(old) = SelectRow(doors, q, value, original, modified)
         /\ Range(s) \subseteq Range(doors) => Picked(doors, q) = Picked(s, p)
  BY <1>4, <1>5, OptionsBecomeDoors
<1>8. PICK door : door = Page!Channel(told)
  OBVIOUS
<1>9. door \in 0..PageRecords
  BY <1>8, ChannelTyped
<1>10. PICK r : r = [Page!Options(old) EXCEPT !.original = door]
  OBVIOUS
<1>11. r = SelectRow(doors, q, value, door, modified)
  BY <1>7, <1>10 DEF SelectRow
<1>12. PICK new : new = Page!ControllerRow(n, told)
  OBVIOUS
<1>13. new = IF r.modified THEN [r EXCEPT !.modified = r.value # door]
             ELSE [r EXCEPT !.selected = Page!IndexIn(r.options, door), !.value = door]
  BY <1>1, <1>8, <1>10, <1>12 DEF Page!ControllerRow
<1>14. CASE modified
  <2>1. PICK changed0 : changed0 = (value # door)
    OBVIOUS
  <2>2. r.modified /\ r.value = value
    BY <1>11, <1>14 DEF SelectRow
  <2>3. new = SelectRow(doors, q, value, door, changed0)
    BY <1>11, <1>13, <2>1, <2>2 DEF SelectRow
  <2>4. ChoiceRow(new)
    <3>1. changed0 \in BOOLEAN
      BY <2>1
    <3> QED  BY <1>4, <1>6, <1>7, <1>9, <2>3, <3>1 DEF ChoiceRow
  <2>5. ASSUME rows[n] # None PROVE StillPicked(rows[n], new)
    <3>1. old = rows[n]
      BY <1>1, <2>5 DEF Page!RowOr
    <3>2. Page!Shown(old) = Picked(s, p) /\ old.value = value /\ old.options = s
      BY <1>4 DEF Page!Shown, Picked, SelectRow
    <3>3. Page!Shown(new) = Picked(doors, q) /\ new.value = value /\ new.options = doors
      BY <2>3 DEF Page!Shown, Picked, SelectRow
    <3> QED  BY <1>7, <3>1, <3>2, <3>3, PageLists DEF StillPicked
  <2> QED  BY <1>12, <2>4, <2>5
<1>15. CASE ~modified
  <2>1. PICK i : i = Page!IndexIn(doors, door)
    OBVIOUS
  <2>2. i \in 0..Len(doors)
    BY <1>6, <2>1, IndexTyped
  <2>3. ~r.modified /\ r.options = doors
    BY <1>11, <1>15 DEF SelectRow
  <2>4. PICK x : x = [r EXCEPT !.selected = i]
    OBVIOUS
  <2>5. x = SelectRow(doors, i, value, door, modified)
    BY <1>11, <2>4 DEF SelectRow
  <2>6. new = [x EXCEPT !.value = door]
    BY <1>13, <2>1, <2>3, <2>4
  <2>7. new = SelectRow(doors, i, door, door, modified)
    BY <2>5, <2>6 DEF SelectRow
  <2>8. ChoiceRow(new)
    BY <1>4, <1>6, <1>9, <2>2, <2>7 DEF ChoiceRow
  <2>9. ~new.modified
    BY <1>15, <2>7 DEF SelectRow
  <2> QED  BY <1>12, <2>8, <2>9 DEF StillPicked
<1> QED  BY <1>4, <1>14, <1>15

\* A select goes on showing what was picked.
PicksStay(old, new) ==
    Selects => \A n \in Page!OIDs : old[n] # None /\ new[n] # None => StillPicked(old[n], new[n])

LEMMA ThePages ==
    ASSUME opened \in Page!Pages
    PROVE  \/ opened.rows \in {"cards", "groups"} /\ Boxes /\ ~Selects /\ ~Places /\ ~Page!Flagged /\ ~opened.overview
           \/ opened.rows = "controllers" /\ ~Boxes /\ Selects /\ ~Places /\ ~Page!Flagged /\ ~opened.overview
           \/ opened.rows = "controllers" /\ ~Boxes /\ ~Selects /\ Places /\ ~Page!Flagged /\ opened.overview
           \/ opened.rows = "doors" /\ ~Boxes /\ ~Selects /\ Places /\ ~Page!Flagged /\ ~opened.overview
           \/ opened.rows \in {"users", "interfaces"} /\ ~Boxes /\ ~Selects /\ ~Places /\ Page!Flagged /\ ~opened.overview
  BY DEF Page!Pages, Boxes, Selects, Places, Page!Flagged

\* refreshed(): a row for each record that is alive.
LEMMA RowsAreRefreshed ==
    ASSUME PageInv, pageDb' \in PageDbs, OnceEach(heard', Page!OIDs), Page!Refreshed
    PROVE  OnceEach(head', Page!OIDs) /\ PageRowsOK(rows', head') /\ PicksStay(rows, rows')
<1> DEFINE told(n) == pageDb'["rows"][n]
<1>1. \A n \in Page!OIDs : Page!alive(told(n)) => told(n) \in PageRecord
  BY DEF PageDbs, Page!Roles, Page!alive
<1>2. OnceEach(head, Page!OIDs) /\ \A n \in Page!OIDs : rows[n] # None => PageRow(rows[n], head)
  BY DEF PageInv, PageRowsOK
<1>3. OnceEach(head', Page!OIDs) /\ (Boxes => head' = Page!Columns(head))
  <2>1. OnceEach(Page!Columns(head), Page!OIDs)
    BY <1>2, ColumnsAre, CompletedIs, AliveIs
  <2> QED  BY <1>2, <2>1 DEF Page!Refreshed, Boxes
<1>h. PICK h : h = head'
  OBVIOUS
<1>4. ASSUME NEW f, rows' = [n \in Page!OIDs |-> IF Page!alive(told(n)) THEN f[n] ELSE None],
             \A n \in Page!OIDs : Page!alive(told(n)) => /\ PageRow(f[n], h)
                                                         /\ Selects /\ rows[n] # None => StillPicked(rows[n], f[n])
      PROVE  PageRowsOK(rows', head') /\ PicksStay(rows, rows')
  <2> HIDE DEF told
  <2> QED  BY <1>4, <1>h DEF PageRowsOK, PicksStay
<1>5. CASE opened.rows \in {"cards", "groups"} /\ Boxes /\ ~Selects /\ ~Places /\ ~Page!Flagged /\ ~opened.overview
  <2> DEFINE cardOf(n) == [Page!RowOr(n, [cells |-> <<>>, on |-> {}]) EXCEPT !.cells = Page!Columns(@)]
  <2>1. PICK f : f = [n \in Page!OIDs |-> [cardOf(n) EXCEPT !.on = Page!Ticked(cardOf(n), told(n))]]
    OBVIOUS
  <2>2. rows' = [n \in Page!OIDs |-> IF Page!alive(told(n)) THEN f[n] ELSE None]
    <3>1. \/ rows' = Page!RefreshedCards /\ opened.rows = "cards"
          \/ rows' = Page!RefreshedGroups /\ opened.rows = "groups"
      BY <1>5 DEF Page!Refreshed
    <3>2. Page!RefreshedCards = [n \in Page!OIDs |-> IF Page!alive(told(n)) THEN f[n] ELSE None]
      BY <2>1 DEF Page!RefreshedCards, Page!RefreshedWith, Page!CardRow, Page!RealizedCard, Page!AddedCard
    <3>3. Page!RefreshedGroups = [n \in Page!OIDs |-> IF Page!alive(told(n)) THEN f[n] ELSE None]
      BY <2>1 DEF Page!RefreshedGroups, Page!RefreshedWith, Page!GroupRow, Page!RealizedGroup, Page!AddedGroup
    <3> QED  BY <3>1, <3>2, <3>3
  <2>3. ASSUME NEW n \in Page!OIDs PROVE PageRow(f[n], h)
    <3>1. PICK r : r = cardOf(n)
      OBVIOUS
    <3>2. f[n] = [r EXCEPT !.on = Page!Ticked(r, told(n))]
      BY <2>1, <3>1
    <3>3. rows[n] # None => BoxRow(rows[n], head)
      BY <1>2, <1>5 DEF PageRow
    <3>4. BoxRow(f[n], Page!Columns(head))
      <4>1. PICK t : t = told(n)
        OBVIOUS
      <4>2. r = [Page!RowOr(n, [cells |-> <<>>, on |-> {}]) EXCEPT !.cells = Page!Columns(@)]
        BY <3>1
      <4>3. BoxRow([r EXCEPT !.on = Page!Ticked(r, t)], Page!Columns(head))
        BY <1>2, <3>3, <4>2, BoxesFollow, Zenon
      <4>4. f[n] = [r EXCEPT !.on = Page!Ticked(r, t)]
        BY <3>2, <4>1
      <4> QED  BY <4>3, <4>4
    <3> QED  BY <1>3, <1>5, <1>h, <3>4 DEF PageRow
  <2> HIDE DEF told
  <2> QED  BY <1>3, <1>4, <1>5, <2>2, <2>3
<1>6. CASE opened.rows = "controllers" /\ ~Boxes /\ Selects /\ ~Places /\ ~Page!Flagged /\ ~opened.overview
  <2>1. PICK f : f = [n \in Page!OIDs |-> Page!ControllerRow(n, told(n))]
    OBVIOUS
  <2>2. rows' = [n \in Page!OIDs |-> IF Page!alive(told(n)) THEN f[n] ELSE None]
    <3>1. rows' = Page!RefreshedControllers
      BY <1>6 DEF Page!Refreshed
    <3> QED  BY <2>1, <3>1 DEF Page!RefreshedControllers, Page!RefreshedWith
  <2>3. ASSUME NEW n \in Page!OIDs, Page!alive(told(n))
        PROVE  PageRow(f[n], h) /\ (rows[n] # None => StillPicked(rows[n], f[n]))
    <3>1. PICK t : t = told(n)
      OBVIOUS
    <3>2. t \in PageRecord
      BY <1>1, <2>3, <3>1
    <3>3. rows[n] # None => ChoiceRow(rows[n])
      BY <1>2, <1>6 DEF PageRow
    <3>4. f[n] = Page!ControllerRow(n, t)
      BY <2>1, <3>1
    <3>5. ChoiceRow(f[n]) /\ (rows[n] # None => StillPicked(rows[n], f[n]))
      BY <3>2, <3>3, <3>4, ChoicesFollow
    <3> QED  BY <1>6, <3>5 DEF PageRow
  <2> HIDE DEF told
  <2> QED  BY <1>3, <1>4, <2>2, <2>3
<1>7. CASE opened.rows = "controllers" /\ ~Boxes /\ ~Selects /\ Places /\ ~Page!Flagged /\ opened.overview
  <2>1. PICK f : f = [n \in Page!OIDs |-> Page!OverviewRow(n, told(n))]
    OBVIOUS
  <2>2. rows' = [n \in Page!OIDs |-> IF Page!alive(told(n)) THEN f[n] ELSE None]
    <3>1. rows' = Page!RefreshedOverview
      BY <1>7 DEF Page!Refreshed
    <3> QED  BY <2>1, <3>1 DEF Page!RefreshedOverview, Page!RefreshedWith
  <2>3. ASSUME NEW n \in Page!OIDs, Page!alive(told(n)) PROVE PageRow(f[n], h)
    <3>1. PICK old, door : old = Page!RealizedOverview(n) /\ door = Page!Channel(told(n))
      OBVIOUS
    <3>2. old \in [at : 0..PageRecords]
      BY <1>2, <1>7, <3>1, PageOIDs DEF PageRow, AtRow, Page!RealizedOverview, Page!RowOr, Page!AddedOverview
    <3>3. door \in 0..PageRecords
      BY <1>1, <2>3, <3>1, ChannelTyped
    <3>4. f[n] = [old EXCEPT !.at = door] \/ f[n] = [old EXCEPT !.at = @]
      BY <2>1, <3>1 DEF Page!OverviewRow
    <3>5. f[n] \in [at : 0..PageRecords]
      BY <3>2, <3>3, <3>4
    <3> QED  BY <1>7, <3>5 DEF PageRow, AtRow
  <2> HIDE DEF told
  <2> QED  BY <1>3, <1>4, <1>7, <2>2, <2>3
<1>8. CASE opened.rows = "doors" /\ ~Boxes /\ ~Selects /\ Places /\ ~Page!Flagged /\ ~opened.overview
  <2>1. PICK f : f = [n \in Page!OIDs |-> Page!DoorRow(n, told(n))]
    OBVIOUS
  <2>2. rows' = [n \in Page!OIDs |-> IF Page!alive(told(n)) THEN f[n] ELSE None]
    <3>1. rows' = Page!RefreshedDoors
      BY <1>8 DEF Page!Refreshed
    <3> QED  BY <2>1, <3>1 DEF Page!RefreshedDoors, Page!RefreshedWith
  <2>3. ASSUME NEW n \in Page!OIDs, Page!alive(told(n)) PROVE PageRow(f[n], h)
    <3>1. PICK old, place : old = Page!RealizedDoor(n) /\ place = Page!Lookup(n)
      OBVIOUS
    <3>2. old \in [at : 0..PageRecords]
      BY <1>2, <1>8, <3>1, PageOIDs DEF PageRow, AtRow, Page!RealizedDoor, Page!RowOr, Page!AddedDoor
    <3>3. place \in 0..PageRecords
      BY <3>1, LookupTyped
    <3>4. f[n] = [old EXCEPT !.at = place]
      BY <2>1, <3>1 DEF Page!DoorRow
    <3>5. f[n] \in [at : 0..PageRecords]
      BY <3>2, <3>3, <3>4
    <3> QED  BY <1>8, <3>5 DEF PageRow, AtRow
  <2> HIDE DEF told
  <2> QED  BY <1>3, <1>4, <1>8, <2>2, <2>3
<1>9. CASE opened.rows \in {"users", "interfaces"} /\ ~Boxes /\ ~Selects /\ ~Places /\ Page!Flagged /\ ~opened.overview
  <2>1. PICK f : f = [n \in Page!OIDs |-> Page!UserRow(n, told(n))]
    OBVIOUS
  <2>2. rows' = [n \in Page!OIDs |-> IF Page!alive(told(n)) THEN f[n] ELSE None]
    <3>1. \/ rows' = Page!RefreshedUsers /\ opened.rows = "users"
          \/ rows' = Page!RefreshedInterfaces /\ opened.rows = "interfaces"
      BY <1>9 DEF Page!Refreshed
    <3>2. Page!RefreshedUsers = [n \in Page!OIDs |-> IF Page!alive(told(n)) THEN f[n] ELSE None]
      BY <2>1 DEF Page!RefreshedUsers, Page!RefreshedWith
    <3>3. Page!RefreshedInterfaces = [n \in Page!OIDs |-> IF Page!alive(told(n)) THEN f[n] ELSE None]
      BY <2>1 DEF Page!RefreshedInterfaces, Page!RefreshedWith, Page!InterfaceRow, Page!UserRow, Page!RealizedUser
    <3> QED  BY <3>1, <3>2, <3>3
  <2>3. ASSUME NEW n \in Page!OIDs, Page!alive(told(n)) PROVE PageRow(f[n], h)
    <3>1. PICK old, t : old = Page!RealizedUser(n) /\ t = told(n)
      OBVIOUS
    <3>2. old \in [on : SUBSET {1, 2}]
      BY <1>2, <1>9, <3>1 DEF PageRow, FlagRow, Page!RealizedUser, Page!RowOr, Page!AddedUser
    <3>3. DOMAIN t.ties \subseteq {1, 2}
      <4>1. t.ties \in PageTies
        BY <1>1, <2>3, <3>1 DEF PageRecord
      <4> QED  BY <1>9, <4>1, TheTies DEF PageReach
    <3>4. PICK on : on = {x \in DOMAIN t.ties : t.ties[x]}
      OBVIOUS
    <3>5. f[n] = [old EXCEPT !.on = on]
      BY <2>1, <3>1, <3>4 DEF Page!UserRow
    <3>6. f[n] \in [on : SUBSET {1, 2}]
      BY <3>2, <3>3, <3>4, <3>5
    <3> QED  BY <1>9, <3>6 DEF PageRow, FlagRow
  <2> HIDE DEF told
  <2> QED  BY <1>3, <1>4, <1>9, <2>2, <2>3
<1> QED  BY <1>5, <1>6, <1>7, <1>8, <1>9, ThePages DEF PageInv

-----------------------------------------------------------------------------
(* The steps. *)

LEMMA ServerKeeps ==
    ASSUME pageServer \in [Page!Roles -> Page!Kept], NEW role \in Page!Roles, NEW n \in Page!OIDs, NEW st, NEW ties,
           \/ st \in {"live", "deleted", "swept"} /\ pageServer' = [pageServer EXCEPT ![role][n].state = st]
           \/ ties \in SUBSET Page!OIDs /\ pageServer' = [pageServer EXCEPT ![role][n].ties = ties]
    PROVE  pageServer' \in [Page!Roles -> Page!Kept]
<1> DEFINE S == [state : {"none", "live", "deleted", "swept"}, ties : SUBSET Page!OIDs]
<1>1. Page!Kept = [Page!OIDs -> S]
  BY DEF Page!Kept
<1>2. PICK k : k = pageServer[role]
  OBVIOUS
<1>3. k \in [Page!OIDs -> S]
  BY <1>1, <1>2
<1>4. PICK r : r = k[n]
  OBVIOUS
<1>5. r \in S
  BY <1>3, <1>4
<1>6. \E e \in S : pageServer' = [pageServer EXCEPT ![role] = [k EXCEPT ![n] = e]]
  <2>1. CASE st \in {"live", "deleted", "swept"} /\ pageServer' = [pageServer EXCEPT ![role][n].state = st]
    <3>1. PICK e : e = [r EXCEPT !.state = st]
      OBVIOUS
    <3>2. e \in S
      BY <1>5, <2>1, <3>1
    <3>3. pageServer' = [pageServer EXCEPT ![role] = [k EXCEPT ![n] = e]]
      BY <1>2, <1>4, <2>1, <3>1
    <3> QED  BY <3>2, <3>3
  <2>2. CASE ties \in SUBSET Page!OIDs /\ pageServer' = [pageServer EXCEPT ![role][n].ties = ties]
    <3>1. PICK e : e = [r EXCEPT !.ties = ties]
      OBVIOUS
    <3>2. e \in S
      BY <1>5, <2>2, <3>1
    <3>3. pageServer' = [pageServer EXCEPT ![role] = [k EXCEPT ![n] = e]]
      BY <1>2, <1>4, <2>2, <3>1
    <3> QED  BY <3>2, <3>3
  <2> QED  BY <2>1, <2>2
<1>7. PICK e \in S : pageServer' = [pageServer EXCEPT ![role] = [k EXCEPT ![n] = e]]
  BY <1>6
<1>8. [k EXCEPT ![n] = e] \in [Page!OIDs -> S]
  <2> HIDE DEF S
  <2> QED  BY <1>3, <1>7
<1> HIDE DEF S
<1> QED  BY <1>1, <1>7, <1>8

LEMMA PageServerStep ==
    ASSUME opened \in Page!Pages, pageServer \in [Page!Roles -> Page!Kept], Page!Elsewhere \/ Page!SweepServer
    PROVE  pageServer' \in [Page!Roles -> Page!Kept]
<1>1. Page!Referable \subseteq Page!OIDs
  <2>1. Page!Flagged => {1, 2} \subseteq Page!OIDs
    BY PageOIDs DEF PageReach
  <2> QED  BY <2>1 DEF Page!Referable, Page!LiveAt
<1>2. CASE Page!Elsewhere
  <2>1. PICK role \in Page!Roles, n \in Page!OIDs :
           \/ pageServer' = [pageServer EXCEPT ![role][n].state = "live"]
           \/ pageServer' = [pageServer EXCEPT ![role][n].state = "deleted"]
           \/ \E ties \in SUBSET Page!Referable : pageServer' = [pageServer EXCEPT ![role][n].ties = ties]
    BY <1>2 DEF Page!Elsewhere
  <2>2. CASE \E ties \in SUBSET Page!Referable : pageServer' = [pageServer EXCEPT ![role][n].ties = ties]
    <3>1. PICK ties \in SUBSET Page!Referable : pageServer' = [pageServer EXCEPT ![role][n].ties = ties]
      BY <2>2
    <3>2. ties \in SUBSET Page!OIDs
      BY <1>1, <3>1
    <3> QED  BY <2>1, <3>1, <3>2, ServerKeeps
  <2>3. CASE pageServer' = [pageServer EXCEPT ![role][n].state = "live"]
    BY <2>1, <2>3, ServerKeeps
  <2>4. CASE pageServer' = [pageServer EXCEPT ![role][n].state = "deleted"]
    BY <2>1, <2>4, ServerKeeps
  <2> QED  BY <2>1, <2>2, <2>3, <2>4
<1>3. CASE Page!SweepServer
  <2>1. PICK role \in Page!Roles, n \in Page!OIDs : pageServer' = [pageServer EXCEPT ![role][n].state = "swept"]
    BY <1>3 DEF Page!SweepServer
  <2> QED  BY <2>1, ServerKeeps
<1> QED  BY <1>2, <1>3

\* onEdited: what is picked is shown.
LEMMA PagePickStep ==
    ASSUME PageInv, Page!Pick
    PROVE  PageRowsOK(rows', head) /\ PicksStay(rows, rows')
<1>1. Selects /\ ~Boxes /\ ~Places /\ ~Page!Flagged
  BY ThePages DEF Page!Pick, PageInv, Selects
<1>2. PICK n \in Page!OIDs : /\ rows[n] # None
                             /\ \E i \in 0..Len(rows[n].options) :
                                   rows' = [rows EXCEPT ![n].selected = i, ![n].value = IF i = 0 THEN 0 ELSE rows[n].options[i],
                                                        ![n].modified = (IF i = 0 THEN 0 ELSE rows[n].options[i]) # rows[n].original]
  BY DEF Page!Pick
<1>3. PICK i \in 0..Len(rows[n].options) :
         rows' = [rows EXCEPT ![n].selected = i, ![n].value = IF i = 0 THEN 0 ELSE rows[n].options[i],
                              ![n].modified = (IF i = 0 THEN 0 ELSE rows[n].options[i]) # rows[n].original]
  BY <1>2
<1>4. ChoiceRow(rows[n]) /\ DOMAIN rows = Page!OIDs
  BY <1>1, <1>2 DEF PageInv, PageRowsOK, PageRow
<1>5. PICK s \in Seq(Page!OIDs) : \E p, value, original, modified :
        /\ rows[n] = SelectRow(s, p, value, original, modified)
        /\ Ascending(s) /\ original \in 0..PageRecords
  BY <1>4 DEF ChoiceRow
<1>6. PICK p, value, original, modified :
        /\ rows[n] = SelectRow(s, p, value, original, modified)
        /\ Ascending(s) /\ original \in 0..PageRecords
  BY <1>5
<1>7. PICK door, on : door = (IF i = 0 THEN 0 ELSE s[i]) /\ on = (door # original)
  OBVIOUS
<1>8. rows[n].options = s /\ rows[n].original = original /\ i \in 0..Len(s)
  BY <1>3, <1>6 DEF SelectRow
<1>9. rows' = [rows EXCEPT ![n].selected = i, ![n].value = door, ![n].modified = on]
  BY <1>3, <1>7, <1>8
<1>a. PICK a : a = [rows[n] EXCEPT !.selected = i]
  OBVIOUS
<1>b. PICK b : b = [a EXCEPT !.value = door]
  OBVIOUS
<1>10. PICK c : c = [b EXCEPT !.modified = on]
  OBVIOUS
<1>11. a = SelectRow(s, i, value, original, modified)
  BY <1>6, <1>a DEF SelectRow
<1>12. b = SelectRow(s, i, door, original, modified)
  BY <1>b, <1>11 DEF SelectRow
<1>13. c = SelectRow(s, i, door, original, on)
  BY <1>10, <1>12 DEF SelectRow
<1>14. rows' = [rows EXCEPT ![n] = c]
  <2>1. PICK u : u = [rows EXCEPT ![n] = a]
    OBVIOUS
  <2>2. PICK v : v = [u EXCEPT ![n] = b]
    OBVIOUS
  <2>3. [rows EXCEPT ![n].selected = i] = u
    BY <1>a, <2>1
  <2>4. [u EXCEPT ![n].value = door] = v
    BY <1>4, <1>b, <2>1, <2>2
  <2>5. [v EXCEPT ![n].modified = on] = [v EXCEPT ![n] = c]
    BY <1>4, <1>10, <2>1, <2>2
  <2>6. rows' = [v EXCEPT ![n].modified = on]
    BY <1>9, <2>3, <2>4
  <2>7. [v EXCEPT ![n] = c] = [rows EXCEPT ![n] = c]
    BY <1>4, <2>1, <2>2
  <2> QED  BY <2>5, <2>6, <2>7
<1>15. door \in 0..PageRecords /\ on \in BOOLEAN
  <2>1. s \in Seq(Page!OIDs) /\ (i # 0 => i \in 1..Len(s))
    BY <1>5, <1>8
  <2>2. i # 0 => s[i] \in Page!OIDs
    BY <2>1, ElementOfSeq
  <2> QED  BY <1>7, <2>2, PageOIDs
<1>16. ChoiceRow(c)
  BY <1>5, <1>6, <1>8, <1>13, <1>15, IsChoice, Zenon
<1>17. PageRowsOK(rows', head)
  BY <1>1, <1>4, <1>14, <1>16 DEF PageInv, PageRowsOK, PageRow
<1>18. Page!Shown(c) = c.value
  BY <1>7, <1>13 DEF Page!Shown, SelectRow
<1>19. \A m \in Page!OIDs : rows[m] # None /\ rows'[m] # None => StillPicked(rows[m], rows'[m])
  BY <1>4, <1>14, <1>18 DEF StillPicked
<1> QED  BY <1>17, <1>19 DEF PicksStay

\* get()
LEMMA PageGetsAre ==
    ASSUME PageInv, NEW i \in DOMAIN pageGets
    PROVE  /\ pageGets[i] \in PageGet
           /\ Page!RemoveAt(pageGets, i) \in Seq(PageGet)
           /\ \A get \in PageGet : [pageGets EXCEPT ![i] = get] \in Seq(PageGet)
<1>1. pageGets \in Seq(PageGet) /\ i \in 1..Len(pageGets)
  BY LenProperties DEF PageInv
<1>2. pageGets[i] \in PageGet
  BY <1>1, ElementOfSeq
<1>3. Page!RemoveAt(pageGets, i) = RemoveAt(pageGets, i)
  BY DEF Page!RemoveAt, RemoveAt
<1>4. RemoveAt(pageGets, i) \in Seq(PageGet)
  BY <1>1, RemoveAtIs
<1>5. \A get \in PageGet : [pageGets EXCEPT ![i] = get] \in Seq(PageGet)
  BY <1>1, ExceptSeq
<1> QED  BY <1>2, <1>3, <1>4, <1>5

LEMMA AnsweredTyped ==
    ASSUME NEW get \in PageGet, NEW role \in Page!Roles, NEW a \in PageAnswers, a = Arrived \/ get[role] # Arrived
    PROVE  [get EXCEPT ![role] = a] \in PageGet
<1>1. PICK g : g = [get EXCEPT ![role] = a]
  OBVIOUS
<1>2. g \in [Page!Roles -> PageAnswers]
  BY <1>1 DEF PageGet
<1>3. Page!Flagged => g["linked"] = Arrived
  BY <1>1 DEF PageGet, Page!Roles
<1> QED  BY <1>1, <1>2, <1>3 DEF PageGet

LEMMA AnswerIsListing ==
    ASSUME NEW get \in PageGet, NEW role \in Page!Roles, get[role] \notin {Pending, Arrived}
    PROVE  get[role] \in PageListings /\ (role = "linked" => ~Page!Flagged)
  BY DEF PageGet, PageAnswers, Page!Roles

\* What is shown stays while nothing is refreshed.
LEMMA RowsStay ==
    ASSUME PageInv, rows' = rows
    PROVE  PicksStay(rows, rows')
  BY DEF PicksStay, StillPicked

\* The page stays the page.
LEMMA PageInvKeeps ==
    ASSUME PageInv, opened' = opened, pageServer' \in [Page!Roles -> Page!Kept], pageGets' \in Seq(PageGet), pageDb' \in PageDbs,
           OnceEach(heard', Page!OIDs), OnceEach(head', Page!OIDs), PageRowsOK(rows', head')
    PROVE  PageInv'
<1>1. (Page!Roles)' = Page!Roles /\ (Page!OIDs)' = Page!OIDs /\ (Page!Kept)' = Page!Kept /\ (Page!Pages)' = Page!Pages
  BY DEF Page!Roles, Page!OIDs, Page!Kept, Page!Pages
<1>2. PageGet' = PageGet /\ PageDbs' = PageDbs
  BY DEF PageGet, PageDbs, PageRecord, PageTies, PageReach, PageAnswers, PageListings, Page!Flagged
<1>3. PageRowsOK(rows, head)'
  BY DEF PageRowsOK, PageRow, Boxes, Selects, Places, Page!Flagged, BoxRow, ChoiceRow, AtRow, FlagRow
<1>4. OnceEach(heard, Page!OIDs)' /\ OnceEach(head, Page!OIDs)'
  OBVIOUS
<1> QED  BY <1>1, <1>2, <1>3, <1>4 DEF PageInv

LEMMA PageSweepStep ==
    ASSUME PageInv, Page!SweepDB
    PROVE  PageInv' /\ PicksStay(rows, rows')
<1>1. PICK role \in Page!Roles, n \in Page!OIDs : pageDb' = [pageDb EXCEPT ![role][n] = None]
  BY DEF Page!SweepDB
<1>2. PICK d : d = [pageDb[role] EXCEPT ![n] = None]
  OBVIOUS
<1>3. pageDb \in [Page!Roles -> [Page!OIDs -> PageRecord \cup {None}]]
  BY DEF PageInv, PageDbs
<1>4. d \in [Page!OIDs -> PageRecord \cup {None}]
  BY <1>2, <1>3
<1>5. pageDb' = [pageDb EXCEPT ![role] = d]
  BY <1>1, <1>2
<1>6. pageDb' \in PageDbs
  BY <1>3, <1>4, <1>5 DEF PageDbs
<1>7. heard' = Page!Ordered(pageDb'["linked"])
  BY DEF Page!SweepDB
<1>8. OnceEach(heard', Page!OIDs)
  BY <1>7, OrderedIs DEF PageInv
<1>9. opened' = opened /\ pageServer' = pageServer /\ pageGets' = pageGets /\ head' = head /\ rows' = rows
  BY DEF Page!SweepDB
<1> QED  BY <1>6, <1>8, <1>9, RowsStay, PageInvKeeps DEF PageInv

LEMMA PagePollStep ==
    ASSUME PageInv, Page!Poll
    PROVE  PageInv' /\ PicksStay(rows, rows')
<1>1. pageGets' = Append(pageGets, Page!Requests)
  BY DEF Page!Poll
<1>2. Page!Requests \in PageGet
  BY DEF Page!Requests, PageGet, PageAnswers, Page!Flagged, Page!Roles
<1>3. pageGets' \in Seq(PageGet)
  BY <1>1, <1>2, AppendProperties DEF PageInv
<1>4. /\ opened' = opened /\ pageServer' = pageServer /\ pageDb' = pageDb /\ heard' = heard
      /\ head' = head /\ rows' = rows
  BY DEF Page!Poll
<1> QED  BY <1>3, <1>4, RowsStay, PageInvKeeps DEF PageInv

LEMMA PageServedStep ==
    ASSUME PageInv, Page!Served
    PROVE  PageInv' /\ PicksStay(rows, rows')
<1>1. PICK i \in DOMAIN pageGets, role \in Page!Roles :
         pageGets[i][role] = Pending /\ pageGets' = [pageGets EXCEPT ![i][role] = Page!Listing(role)]
  BY DEF Page!Served
<1>2. PICK get : get = [pageGets[i] EXCEPT ![role] = Page!Listing(role)]
  OBVIOUS
<1>3. pageGets[i] \in PageGet /\ \A g \in PageGet : [pageGets EXCEPT ![i] = g] \in Seq(PageGet)
  BY PageGetsAre
<1>4. Page!Listing(role) \in PageAnswers
  BY PageListedTyped DEF PageInv, PageAnswers
<1>5. get \in PageGet
  BY <1>1, <1>2, <1>3, <1>4, AnsweredTyped, PagesAssumption
<1>6. pageGets' = [pageGets EXCEPT ![i] = get]
  BY <1>1, <1>2
<1>7. /\ opened' = opened /\ pageServer' = pageServer /\ pageDb' = pageDb /\ heard' = heard
      /\ head' = head /\ rows' = rows
  BY DEF Page!Served
<1> QED  BY <1>3, <1>5, <1>6, <1>7, RowsStay, PageInvKeeps DEF PageInv

\* What has been answered is put into DB.
LEMMA PageDbHears ==
    ASSUME PageInv, NEW i \in DOMAIN pageGets, NEW role \in Page!Roles, pageGets[i][role] \notin {Pending, Arrived},
           pageDb' = Page!Updated(role, pageGets[i][role]), heard' = Page!Ordered(pageDb'["linked"])
    PROVE  pageDb' \in PageDbs /\ OnceEach(heard', Page!OIDs)
<1>1. pageGets[i] \in PageGet
  BY PageGetsAre
<1>2. pageGets[i][role] \in PageListings /\ (role = "linked" => ~Page!Flagged)
  BY <1>1, AnswerIsListing
<1>3. pageDb' \in PageDbs
  BY <1>2, PageUpdatedTyped DEF PageInv
<1> QED  BY <1>3, OrderedIs DEF PageInv

LEMMA PageArrivesStep ==
    ASSUME PageInv, Page!Arrives
    PROVE  PageInv' /\ PicksStay(rows, rows')
<1>1. PICK i \in DOMAIN pageGets, role \in Page!Roles :
         /\ pageGets[i][role] \notin {Pending, Arrived}
         /\ pageDb' = Page!Updated(role, pageGets[i][role])
         /\ heard' = Page!Ordered(pageDb'["linked"])
         /\ \/ pageGets' = Page!RemoveAt(pageGets, i) /\ Page!Refreshed
            \/ /\ pageGets' = [pageGets EXCEPT ![i] = [pageGets[i] EXCEPT ![role] = Arrived]]
               /\ head' = head /\ rows' = rows
  BY DEF Page!Arrives
<1>2. pageDb' \in PageDbs /\ OnceEach(heard', Page!OIDs)
  BY <1>1, PageDbHears
<1>3. /\ pageGets[i] \in PageGet /\ Page!RemoveAt(pageGets, i) \in Seq(PageGet)
      /\ \A get \in PageGet : [pageGets EXCEPT ![i] = get] \in Seq(PageGet)
  BY PageGetsAre
<1>4. opened' = opened /\ pageServer' = pageServer
  BY DEF Page!Arrives
<1>5. CASE pageGets' = Page!RemoveAt(pageGets, i) /\ Page!Refreshed
  <2>1. OnceEach(head', Page!OIDs) /\ PageRowsOK(rows', head') /\ PicksStay(rows, rows')
    BY <1>2, <1>5, RowsAreRefreshed
  <2> QED  BY <1>2, <1>3, <1>4, <1>5, <2>1, PageInvKeeps DEF PageInv
<1>6. CASE pageGets' = [pageGets EXCEPT ![i] = [pageGets[i] EXCEPT ![role] = Arrived]] /\ head' = head /\ rows' = rows
  <2>1. [pageGets[i] EXCEPT ![role] = Arrived] \in PageGet
    BY <1>3, AnsweredTyped DEF PageAnswers
  <2>2. pageGets' \in Seq(PageGet)
    BY <1>3, <1>6, <2>1
  <2> QED  BY <1>2, <1>4, <1>6, <2>2, RowsStay, PageInvKeeps DEF PageInv
<1> QED  BY <1>1, <1>5, <1>6

LEMMA PageFailsStep ==
    ASSUME PageInv, Page!Fails
    PROVE  PageInv' /\ PicksStay(rows, rows')
<1>1. PICK i \in DOMAIN pageGets, role \in Page!Roles :
         \/ pageGets' = Page!RemoveAt(pageGets, i) /\ pageDb' = pageDb /\ heard' = heard
         \/ \E other \in Page!Roles \ {role} :
                /\ pageGets[i][other] \notin {Pending, Arrived}
                /\ pageGets' = Page!RemoveAt(pageGets, i)
                /\ pageDb' = Page!Updated(other, pageGets[i][other])
                /\ heard' = Page!Ordered(pageDb'["linked"])
  BY DEF Page!Fails
<1>2. pageGets' \in Seq(PageGet)
  BY <1>1, PageGetsAre
<1>3. pageDb' \in PageDbs /\ OnceEach(heard', Page!OIDs)
  BY <1>1, PageDbHears DEF PageInv
<1>4. opened' = opened /\ pageServer' = pageServer /\ head' = head /\ rows' = rows
  BY DEF Page!Fails
<1> QED  BY <1>2, <1>3, <1>4, RowsStay, PageInvKeeps DEF PageInv

LEMMA PageStep ==
    ASSUME PageInv, [Page!Next]_Page!vars
    PROVE  PageInv' /\ PicksStay(rows, rows')
<1>1. CASE Page!Elsewhere \/ Page!SweepServer
  <2>1. pageServer' \in [Page!Roles -> Page!Kept]
    BY <1>1, PageServerStep DEF PageInv
  <2>2. /\ opened' = opened /\ pageDb' = pageDb /\ heard' = heard /\ pageGets' = pageGets
        /\ head' = head /\ rows' = rows
    BY <1>1 DEF Page!Elsewhere, Page!SweepServer
  <2> QED  BY <2>1, <2>2, RowsStay, PageInvKeeps DEF PageInv
<1>2. CASE Page!Pick
  <2>1. PageRowsOK(rows', head) /\ PicksStay(rows, rows')
    BY <1>2, PagePickStep
  <2>2. /\ opened' = opened /\ pageServer' = pageServer /\ pageDb' = pageDb /\ heard' = heard
        /\ pageGets' = pageGets /\ head' = head
    BY <1>2 DEF Page!Pick
  <2> QED  BY <2>1, <2>2, PageInvKeeps DEF PageInv
<1>3. CASE UNCHANGED Page!vars
  BY <1>3, RowsStay, PageInvKeeps DEF PageInv, Page!vars
<1> QED  BY <1>1, <1>2, <1>3, PageSweepStep, PagePollStep, PageServedStep, PageArrivesStep, PageFailsStep DEF Page!Next

LEMMA PageInvInit == Page!Init => PageInv
<1> SUFFICES ASSUME Page!Init PROVE PageInv
  OBVIOUS
<1>1. Page!Requests \in PageGet
  BY DEF Page!Requests, PageGet, PageAnswers, Page!Flagged, Page!Roles
<1>2. <<Page!Requests>> \in Seq(PageGet)
  BY <1>1
<1>3. OnceEach(<<>>, Page!OIDs)
  BY DEF OnceEach, IsInjective
<1>4. pageServer \in [Page!Roles -> Page!Kept]
  BY DEF Page!Init, Page!Kept
<1>5. pageDb \in PageDbs
  BY DEF Page!Init, PageDbs
<1>6. PageRowsOK(rows, head)
  BY DEF Page!Init, PageRowsOK
<1> QED  BY <1>2, <1>3, <1>4, <1>5, <1>6 DEF Page!Init, PageInv

\* What is in them are OIDs, each once.
LEMMA ListsAreShort ==
    ASSUME NEW s, OnceEach(s, Page!OIDs)
    PROVE  s \in Page!BoundedSeq(Page!OIDs, PageRecords) /\ Len(s) <= PageRecords
<1>1. s \in Seq(Page!OIDs) /\ Len(s) \in Nat /\ s \in [1..Len(s) -> Page!OIDs]
  BY LenProperties DEF OnceEach
<1>2. PICK m : m = Len(s)
  OBVIOUS
<1>3. m \in Nat /\ s \in [1..m -> 1..PageRecords]
  BY <1>1, <1>2, PageOIDs
<1>4. m <= PageRecords
  BY <1>3, Fits, PageOIDs DEF OnceEach
<1>5. m \in 0..PageRecords
  BY <1>3, <1>4, PageOIDs
<1>6. s \in UNION {[1..k -> Page!OIDs] : k \in 0..PageRecords}
  BY <1>1, <1>2, <1>5
<1> QED  BY <1>2, <1>4, <1>6 DEF Page!BoundedSeq, Page!SeqOf

LEMMA RowsAreTyped ==
    ASSUME PageInv, NEW n \in Page!OIDs, rows[n] # None
    PROVE  /\ Boxes => /\ rows[n].cells \in Page!BoundedSeq(Page!OIDs, PageRecords)
                       /\ rows[n].on \subseteq Page!Range(rows[n].cells)
           /\ Selects => /\ rows[n].options \in Page!BoundedSeq(Page!OIDs, PageRecords)
                         /\ rows[n].selected \in 0..Len(rows[n].options)
                         /\ {rows[n].value, rows[n].original} \subseteq 0..PageRecords /\ rows[n].modified \in BOOLEAN
           /\ Places => rows[n].at \in 0..PageRecords
           /\ Page!Flagged => rows[n].on \subseteq {1, 2}
<1>1. PageRow(rows[n], head)
  BY DEF PageInv, PageRowsOK
<1>2. CASE Boxes
  BY <1>1, <1>2, ListsAreShort, PageLists, ThePages DEF PageRow, BoxRow, PageInv
<1>3. CASE Selects
  <2>1. PICK s \in Seq(Page!OIDs) : \E p, value, original, modified :
          /\ rows[n] = SelectRow(s, p, value, original, modified)
          /\ Ascending(s) /\ p \in 0..Len(s)
          /\ value \in 0..PageRecords /\ original \in 0..PageRecords /\ modified \in BOOLEAN
    BY <1>1, <1>3 DEF PageRow, ChoiceRow
  <2>2. s \in Seq(Int)
    BY <2>1, PageOIDs, SeqMonotonic
  <2>3. OnceEach(s, Page!OIDs)
    BY <2>1, <2>2, AscendingOnce DEF OnceEach
  <2>4. rows[n].options = s
    BY <2>1 DEF SelectRow
  <2>5. rows[n].options \in Page!BoundedSeq(Page!OIDs, PageRecords)
    BY <2>3, <2>4, ListsAreShort
  <2>6. /\ rows[n].selected \in 0..Len(rows[n].options)
        /\ {rows[n].value, rows[n].original} \subseteq 0..PageRecords /\ rows[n].modified \in BOOLEAN
    BY <2>1 DEF SelectRow
  <2> QED  BY <1>3, <2>5, <2>6, ThePages DEF PageInv
<1>4. CASE Places
  BY <1>1, <1>4, ThePages DEF PageRow, AtRow, PageInv
<1>5. CASE Page!Flagged
  BY <1>1, <1>5, ThePages DEF PageRow, FlagRow, PageInv
<1> QED  BY <1>2, <1>3, <1>4, <1>5

LEMMA PagesAreTyped == PageInv => Page!TypeOK
<1> SUFFICES ASSUME PageInv PROVE Page!TypeOK
  OBVIOUS
<1>1. ASSUME NEW role \in Page!Roles, NEW n \in Page!OIDs, pageDb[role][n] # None
      PROVE  pageDb[role][n].deleted \in BOOLEAN /\ DOMAIN pageDb[role][n].ties \subseteq Page!OIDs
  <2>1. pageDb[role][n] \in PageRecord
    BY <1>1 DEF PageInv, PageDbs
  <2> QED  BY <2>1, TheTies, PageOIDs DEF PageRecord
<1>2. head \in Page!BoundedSeq(Page!OIDs, PageRecords) /\ heard \in Page!BoundedSeq(Page!OIDs, PageRecords)
  BY ListsAreShort DEF PageInv
<1>3. opened \in Page!Pages /\ pageServer \in [Page!Roles -> Page!Kept]
  BY DEF PageInv
<1> QED  BY <1>1, <1>2, <1>3, RowsAreTyped DEF Page!TypeOK, Boxes, Selects, Places

\* In the order of the headings is below them.
LEMMA CellsAreBelow == PageInv => Page!ColumnsMatch
<1> SUFFICES ASSUME PageInv, opened.rows \in {"cards", "groups"}, NEW n \in Page!OIDs, rows[n] # None
             PROVE  /\ Page!Range(rows[n].cells) = Page!Range(head) /\ Len(rows[n].cells) = Len(head)
                    /\ (\A i, j \in DOMAIN head : i < j => head[i] < head[j]) => rows[n].cells = head
  BY DEF Page!ColumnsMatch
<1>1. BoxRow(rows[n], head)
  BY DEF PageInv, PageRowsOK, PageRow, Boxes
<1>2. PICK c : c = rows[n].cells
  OBVIOUS
<1>3. OnceEach(c, Page!OIDs) /\ InOrderOf(c, head) /\ OnceEach(head, Page!OIDs)
  BY <1>1, <1>2 DEF BoxRow, PageInv
<1>4. Range(c) = Range(head) /\ \A u, v \in Nat : Precedes(u, v, head) /\ u < v => Precedes(u, v, c)
  BY <1>3 DEF InOrderOf
<1>5. Len(c) = Len(head)
  BY <1>3, <1>4, SameLength
<1>6. OnceEach(c, Nat) /\ OnceEach(head, Nat)
  BY <1>3, PageOIDs, SeqMonotonic DEF OnceEach
<1>7. Ascending(head) => c = head
  BY <1>4, <1>6, AscendingToo
<1> QED  BY <1>2, <1>4, <1>5, <1>7, PageLists DEF Ascending

-----------------------------------------------------------------------------
(* The pages together. *)

LEMMA EachStep ==
    ASSUME [TablesNext]_tablesVars
    PROVE  /\ [Next]_vars /\ [Page!Next]_Page!vars /\ [Mark!MarksNext]_Mark!marksVars
           /\ [Object!ObjectsNext]_Object!objectsVars /\ [Date!DatesNext]_Date!dateVars
           /\ [Combo!ComboNext]_Combo!comboVars
<1>1. [Next]_vars
  BY DEF TablesNext, tablesVars, tableVars
<1>2. [Page!Next]_Page!vars
  BY DEF TablesNext, tablesVars, pageVars, Page!vars
<1>3. [Mark!MarksNext]_Mark!marksVars
  BY DEF TablesNext, tablesVars, marksVars, Mark!marksVars
<1>4. [Object!ObjectsNext]_Object!objectsVars
  BY DEF TablesNext, tablesVars, objectsVars, Object!objectsVars
<1>5. [Date!DatesNext]_Date!dateVars
  BY DEF TablesNext, tablesVars, dateVars, Date!dateVars
<1>6. [Combo!ComboNext]_Combo!comboVars
  BY DEF TablesNext, tablesVars, fieldVars, Combo!comboVars, Combo!flags, Combo!strays
<1> QED  BY <1>1, <1>2, <1>3, <1>4, <1>5, <1>6

TablesInv == TableInv /\ PageInv /\ MarkInv /\ ShapesOK /\ ObjectTyped /\ DateTyped /\ ComboTyped

LEMMA TablesInvHolds == TablesSpec => []TablesInv
<1>1. TablesInit => TablesInv
  BY TableInvInit, PageInvInit, MarksInits, ObjectInits, ObjectTypesInit, DateTypesInit, ComboTypesInit
     DEF TablesInit, TablesInv, ObjectInv
<1>2. TablesInv /\ [TablesNext]_tablesVars => TablesInv'
  <2> SUFFICES ASSUME TablesInv, [TablesNext]_tablesVars PROVE TablesInv'
    OBVIOUS
  <2>1. TableInv'
    BY EachStep, TableInvStep DEF TablesInv
  <2>2. PageInv'
    BY EachStep, PageStep DEF TablesInv
  <2>3. MarkInv'
    BY EachStep, MarksStep DEF TablesInv
  <2>4. ShapesOK' /\ ObjectTyped'
    BY EachStep, ShapesStep, ObjectTypesStep DEF TablesInv
  <2>5. DateTyped' /\ ComboTyped'
    BY EachStep, DateTypesStep, ComboTypesStep DEF TablesInv
  <2> QED  BY <2>1, <2>2, <2>3, <2>4, <2>5 DEF TablesInv
<1> QED  BY <1>1, <1>2, PTL DEF TablesSpec

\* tabular.js, db.js, combobox.js, controllers.js: whatever is listed, heard of, edited, submitted,
\* refused, deleted and swept, in any order, records, rows, headings, checkboxes, options, marks
\* and fields keep to their types (MCTables' TablesTypeOK).
THEOREM TablesAreTyped == TablesSpec => []TablesTypeOK
<1>1. TablesInv => TablesTypeOK
  BY PagesAreTyped, MarksAreTyped, ObjectTypesSuffice, DateTypesSuffice, ComboTypesSuffice
     DEF TablesInv, TablesTypeOK, TableInv
<1> QED  BY <1>1, TablesInvHolds, PTL

\* What Page!PickIsShown says of a step.
ShownStays ==
    \A n \in Page!OIDs :
           /\ opened.rows = "controllers" /\ ~opened.overview /\ rows[n] # None /\ rows'[n] # None
           /\ rows[n].modified /\ rows'[n].modified /\ rows[n].value = rows'[n].value
           /\ Page!Shown(rows[n]) = rows[n].value
           /\ Page!Range(rows[n].options) \subseteq Page!Range(rows'[n].options)
           => Page!Shown(rows'[n]) = rows'[n].value

\* cards.js, groups.js, controllers.js: in whatever order groups and doors are created, heard of and
\* deleted and answers come or fail, every row has the checkboxes of the headings, and below
\* them while these are in the order of creation; and a select shows what was picked (MCTables'
\* PagesAgree).
THEOREM PagesSayTheSame == TablesSpec => PagesAgree
<1>1. TablesInv => (at = "pages" => Page!ColumnsMatch)
  BY CellsAreBelow DEF TablesInv
<1>2. TablesInv /\ [TablesNext]_tablesVars => [ShownStays]_Page!vars
  <2> SUFFICES ASSUME TablesInv, [TablesNext]_tablesVars PROVE ShownStays
    OBVIOUS
  <2>1. PicksStay(rows, rows')
    BY EachStep, PageStep DEF TablesInv
  <2> QED  BY <2>1 DEF PicksStay, StillPicked, Selects, ShownStays
<1>3. TablesSpec => [][TablesNext]_tablesVars
  BY PTL DEF TablesSpec
<1>4. TablesSpec => [][ShownStays]_Page!vars
  BY <1>2, <1>3, TablesInvHolds, PTL
<1>5. ([][ShownStays]_Page!vars) <=> Page!PickIsShown
  BY DEF Page!PickIsShown, ShownStays
<1> QED  BY <1>1, <1>4, <1>5, TablesInvHolds, PTL DEF PagesAgree

=============================================================================
