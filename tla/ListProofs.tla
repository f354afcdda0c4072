----------------------------- MODULE ListProofs -----------------------------
(***************************************************************************)
(* What the proofs about the pages need of lists: what is left of one that *)
(* is filtered, and what of those that are put one behind another, cut,    *)
(* or have an element removed or inserted.                                 *)
(***************************************************************************)
EXTENDS Lists, SequenceTheorems, FunctionTheorems, WellFoundedInduction, TLAPS

\* A set of numbers has a least one: what holds unless it fails somewhere first, holds.
LEMMA LeastNumber ==
    ASSUME NEW T, T \subseteq Nat, T # {}
    PROVE  \E n \in T : \A m \in T : n <= m
<1>1. IsWellFoundedOn(OpToRel(<, Nat), Nat)
  BY NatLessThanWellFounded
<1>2. PICK R : R = OpToRel(<, Nat)
  OBVIOUS
<1>3. \A x, y \in Nat : x < y => <<x, y>> \in R
  BY <1>2 DEF OpToRel
<1>4. PICK n \in T : \A y \in T : ~ (<<y, n>> \in R)
  BY <1>1, <1>2, WFMin
<1>5. \A y \in T : ~(y < n)
  BY <1>3, <1>4, Zenon
<1> QED  BY <1>5

\* What a list has been filtered to, before each of its elements.
IsFilter(f, s, S, m) ==
    f = [i \in 0..m |-> IF i = 0 THEN <<>> ELSE IF s[i] \in S THEN Append(f[i - 1], s[i]) ELSE f[i - 1]]

LEMMA FilterExists ==
    ASSUME NEW s, NEW S, NEW n \in Nat
    PROVE  \E f : IsFilter(f, s, S, n)
<1> DEFINE T == {m \in Nat : ~\E f : IsFilter(f, s, S, m)}
<1> SUFFICES ASSUME T # {} PROVE FALSE
  OBVIOUS
<1>1. PICK m \in T : \A k \in T : m <= k
  <2>1. T \subseteq Nat
    OBVIOUS
  <2> HIDE DEF T
  <2> QED  BY <2>1, LeastNumber
<1>2. m # 0
  <2>1. IsFilter([i \in 0..0 |-> <<>>], s, S, 0)
    BY DEF IsFilter
  <2> QED  BY <2>1
<1>3. m - 1 \in Nat /\ m - 1 \notin T
  BY <1>1, <1>2
<1>4. PICK f : IsFilter(f, s, S, m - 1)
  BY <1>3
<1>5. PICK g : g = [i \in 0..m |-> IF i # m THEN f[i] ELSE IF s[m] \in S THEN Append(f[m - 1], s[m]) ELSE f[m - 1]]
  OBVIOUS
<1>6. IsFilter(g, s, S, m)
  <2>1. DOMAIN f = 0..m - 1
    BY <1>4 DEF IsFilter
  <2>2. \A i \in 0..m - 1 : f[i] = IF i = 0 THEN <<>> ELSE IF s[i] \in S THEN Append(f[i - 1], s[i]) ELSE f[i - 1]
    <3>1. PICK k : k = m - 1
      OBVIOUS
    <3>2. f = [i \in 0..k |-> IF i = 0 THEN <<>> ELSE IF s[i] \in S THEN Append(f[i - 1], s[i]) ELSE f[i - 1]]
      BY <1>4, <3>1 DEF IsFilter
    <3> QED  BY <3>1, <3>2
  <2>3. \A i \in 0..m : g[i] = IF i = 0 THEN <<>> ELSE IF s[i] \in S THEN Append(g[i - 1], s[i]) ELSE g[i - 1]
    <3> SUFFICES ASSUME NEW i \in 0..m
                 PROVE  g[i] = IF i = 0 THEN <<>> ELSE IF s[i] \in S THEN Append(g[i - 1], s[i]) ELSE g[i - 1]
      OBVIOUS
    <3>1. CASE i = m
      BY <3>1, <1>2, <1>5
    <3>2. CASE i # m
      <4>1. i \in 0..m - 1 /\ g[i] = f[i] /\ (i # 0 => g[i - 1] = f[i - 1])
        BY <3>2, <1>3, <1>5
      <4> QED  BY <4>1, <2>2
    <3> QED  BY <3>1, <3>2
  <2> QED  BY <2>3, <1>5 DEF IsFilter
<1> QED  BY <1>6

LEMMA AmongIs ==
    ASSUME NEW s, NEW S, Len(s) \in Nat
    PROVE  \E f : IsFilter(f, s, S, Len(s)) /\ Among(s, S) = f[Len(s)]
<1>1. PICK f : f = CHOOSE g : IsFilter(g, s, S, Len(s))
  OBVIOUS
<1>2. IsFilter(f, s, S, Len(s))
  BY <1>1, FilterExists
<1>3. Among(s, S) = f[Len(s)]
  BY <1>1 DEF Among, IsFilter
<1> QED  BY <1>2, <1>3

\* The elements of k are those of s up to m that are in S, in their order: h says where each was.
Embeds(h, k, s, S, m) ==
    /\ h \in [1..Len(k) -> 1..m]
    /\ \A a, b \in 1..Len(k) : a < b => h[a] < h[b]
    /\ \A a \in 1..Len(k) : k[a] = s[h[a]] /\ s[h[a]] \in S
    /\ \A j \in 1..m : s[j] \in S => \E a \in 1..Len(k) : h[a] = j

LEMMA FilterEmbeds ==
    ASSUME NEW A, NEW s \in Seq(A), NEW S, NEW f, IsFilter(f, s, S, Len(s)), NEW n \in 0..Len(s)
    PROVE  f[n] \in Seq(A) /\ \E h : Embeds(h, f[n], s, S, n)
<1> DEFINE Good(i) == f[i] \in Seq(A) /\ \E h : Embeds(h, f[i], s, S, i)
           T == {i \in 0..Len(s) : ~Good(i)}
<1>0. Len(s) \in Nat /\ \A i \in 1..Len(s) : s[i] \in A
  BY LenProperties, ElementOfSeq
<1>1. f = [i \in 0..Len(s) |-> IF i = 0 THEN <<>> ELSE IF s[i] \in S THEN Append(f[i - 1], s[i]) ELSE f[i - 1]]
  BY DEF IsFilter
<1> SUFFICES ASSUME T # {} PROVE FALSE
  OBVIOUS
<1>2. PICK m \in T : \A i \in T : m <= i
  <2>1. T \subseteq Nat
    BY <1>0
  <2> HIDE DEF T
  <2> QED  BY <2>1, LeastNumber
<1>3. Good(0)
  <2>1. f[0] = <<>>
    BY <1>0, <1>1
  <2>2. Embeds([a \in {} |-> 0], <<>>, s, S, 0)
    BY DEF Embeds
  <2> QED  BY <2>1, <2>2
<1>4. m \in 1..Len(s) /\ m - 1 \in 0..Len(s) /\ m - 1 \notin T
  <2> HIDE DEF Good
  <2> QED  BY <1>0, <1>2, <1>3
<1>5. f[m - 1] \in Seq(A) /\ \E h : Embeds(h, f[m - 1], s, S, m - 1)
  BY <1>4
<1>6. PICK h : Embeds(h, f[m - 1], s, S, m - 1)
  BY <1>5
<1>7. PICK k : k = f[m - 1]
  OBVIOUS
<1>8. k \in Seq(A) /\ Len(k) \in Nat /\ Embeds(h, k, s, S, m - 1)
  BY <1>5, <1>6, <1>7, LenProperties
<1>11. f[m] = IF s[m] \in S THEN Append(f[m - 1], s[m]) ELSE f[m - 1]
  <2>1. \A i \in 0..Len(s) : f[i] = IF i = 0 THEN <<>> ELSE IF s[i] \in S THEN Append(f[i - 1], s[i]) ELSE f[i - 1]
    BY <1>1
  <2>2. m \in 0..Len(s) /\ m # 0
    BY <1>0, <1>4
  <2> QED  BY <2>1, <2>2
<1>9. CASE s[m] \notin S
  <2>1. f[m] = k
    BY <1>11, <1>7, <1>9
  <2>2. Embeds(h, k, s, S, m)
    BY <1>0, <1>4, <1>8, <1>9 DEF Embeds
  <2> QED  BY <1>2, <1>8, <2>1, <2>2
<1>10. CASE s[m] \in S
  <2>1. PICK e : e = Append(k, s[m])
    OBVIOUS
  <2>2. f[m] = e
    BY <1>11, <1>7, <1>10, <2>1
  <2>3. e \in Seq(A) /\ Len(e) = Len(k) + 1 /\ e[Len(k) + 1] = s[m] /\ \A a \in 1..Len(k) : e[a] = k[a]
    BY <1>0, <1>4, <1>8, <2>1, AppendProperties
  <2>4. PICK g : g = [a \in 1..Len(e) |-> IF a = Len(e) THEN m ELSE h[a]]
    OBVIOUS
  <2>5. \A a \in 1..Len(k) : h[a] \in 1..m - 1
    BY <1>8 DEF Embeds
  <2>6. \A a \in 1..Len(k) : g[a] = h[a] /\ a # Len(e)
    BY <1>8, <2>3, <2>4
  <2>7. g[Len(e)] = m
    BY <1>8, <2>3, <2>4
  <2>8. \A a \in 1..Len(e) : a = Len(e) \/ a \in 1..Len(k)
    BY <1>8, <2>3
  <2>9. g \in [1..Len(e) -> 1..m]
    BY <1>4, <2>4, <2>5, <2>6, <2>7, <2>8
  <2>10. \A a, b \in 1..Len(e) : a < b => g[a] < g[b]
    <3> SUFFICES ASSUME NEW a \in 1..Len(e), NEW b \in 1..Len(e), a < b PROVE g[a] < g[b]
      OBVIOUS
    <3>1. a \in 1..Len(k) /\ g[a] = h[a]
      BY <1>8, <2>3, <2>6
    <3>2. CASE b = Len(e)
      BY <1>4, <2>5, <2>7, <3>1, <3>2
    <3>3. CASE b \in 1..Len(k)
      BY <1>8, <2>6, <3>1, <3>3 DEF Embeds
    <3> QED  BY <2>8, <3>2, <3>3
  <2>11. \A a \in 1..Len(e) : e[a] = s[g[a]] /\ s[g[a]] \in S
    BY <1>8, <1>10, <2>3, <2>6, <2>7, <2>8 DEF Embeds
  <2>12. \A j \in 1..m : s[j] \in S => \E a \in 1..Len(e) : g[a] = j
    <3> SUFFICES ASSUME NEW j \in 1..m, s[j] \in S PROVE \E a \in 1..Len(e) : g[a] = j
      OBVIOUS
    <3>1. Len(e) \in 1..Len(e)
      BY <1>8, <2>3
    <3>2. CASE j = m
      BY <2>7, <3>1, <3>2
    <3>3. CASE j # m
      <4>1. PICK a \in 1..Len(k) : h[a] = j
        BY <1>4, <1>8, <3>3 DEF Embeds
      <4> QED  BY <1>8, <2>3, <2>6, <4>1
    <3> QED  BY <3>2, <3>3
  <2>13. Embeds(g, e, s, S, m)
    BY <2>9, <2>10, <2>11, <2>12 DEF Embeds
  <2> QED  BY <1>2, <2>2, <2>3, <2>13
<1> QED  BY <1>9, <1>10

LEMMA AmongEmbeds ==
    ASSUME NEW A, NEW s \in Seq(A), NEW S
    PROVE  Among(s, S) \in Seq(A) /\ \E h : Embeds(h, Among(s, S), s, S, Len(s))
<1>1. Len(s) \in Nat
  BY LenProperties
<1>2. PICK f : IsFilter(f, s, S, Len(s)) /\ Among(s, S) = f[Len(s)]
  BY <1>1, AmongIs
<1> QED  BY <1>1, <1>2, FilterEmbeds

\* k has what is in S, in its order, and nothing twice that was not there twice.
Sieved(k, s, S) ==
    /\ Range(k) = Range(s) \cap S
    /\ IsInjective(s) => IsInjective(k)
    /\ \A a, b \in DOMAIN k : a < b => \E i, j \in DOMAIN s : i < j /\ s[i] = k[a] /\ s[j] = k[b]

LEMMA AmongKeeps ==
    ASSUME NEW A, NEW s \in Seq(A), NEW S
    PROVE  Among(s, S) \in Seq(A) /\ Sieved(Among(s, S), s, S)
<1>1. PICK k : k = Among(s, S)
  OBVIOUS
<1>2. PICK h : k \in Seq(A) /\ Embeds(h, k, s, S, Len(s))
  BY <1>1, AmongEmbeds
<1>3. Len(k) \in Nat /\ DOMAIN k = 1..Len(k) /\ Len(s) \in Nat /\ DOMAIN s = 1..Len(s)
  BY <1>2, LenProperties
<1>4. /\ \A a \in DOMAIN k : h[a] \in DOMAIN s /\ k[a] = s[h[a]] /\ s[h[a]] \in S
      /\ \A a, b \in DOMAIN k : a < b => h[a] < h[b]
      /\ \A j \in DOMAIN s : s[j] \in S => \E a \in DOMAIN k : h[a] = j
  BY <1>2, <1>3 DEF Embeds
<1>5. Range(k) = Range(s) \cap S
  <2>1. \A x \in Range(k) : x \in Range(s) /\ x \in S
    BY <1>4 DEF Range
  <2>2. ASSUME NEW x \in Range(s), x \in S PROVE x \in Range(k)
    <3>1. PICK j \in DOMAIN s : s[j] = x
      BY DEF Range
    <3>2. PICK a \in DOMAIN k : h[a] = j
      BY <1>4, <2>2, <3>1
    <3>3. k[a] = x
      BY <1>4, <3>1, <3>2
    <3> QED  BY <3>3 DEF Range
  <2> QED  BY <2>1, <2>2
<1>6. ASSUME IsInjective(s) PROVE IsInjective(k)
  <2> SUFFICES ASSUME NEW a \in DOMAIN k, NEW b \in DOMAIN k, k[a] = k[b], a # b PROVE FALSE
    BY DEF IsInjective
  <2>1. h[a] = h[b]
    BY <1>4, <1>6 DEF IsInjective
  <2>2. h[a] \in Int /\ a \in Int /\ b \in Int
    BY <1>3, <1>4
  <2> QED  BY <1>4, <2>1, <2>2
<1>7. \A a, b \in DOMAIN k : a < b => \E i, j \in DOMAIN s : i < j /\ s[i] = k[a] /\ s[j] = k[b]
  BY <1>4
<1> QED  BY <1>1, <1>2, <1>5, <1>6, <1>7 DEF Sieved

\* c is s and behind it u: it has the elements of both, in the order they had in each.
Joined(c, s, u) ==
    /\ Range(c) = Range(s) \cup Range(u)
    /\ IsInjective(s) /\ IsInjective(u) /\ Range(s) \cap Range(u) = {} => IsInjective(c)
    /\ \A a, b \in DOMAIN c : a < b =>
          \/ \E i, j \in DOMAIN s : i < j /\ c[a] = s[i] /\ c[b] = s[j]
          \/ c[a] \in Range(s) /\ c[b] \in Range(u)
          \/ \E i, j \in DOMAIN u : i < j /\ c[a] = u[i] /\ c[b] = u[j]

LEMMA BehindKeeps ==
    ASSUME NEW A, NEW s \in Seq(A), NEW u \in Seq(A), NEW c, c = s \o u
    PROVE  c \in Seq(A) /\ Joined(c, s, u)
<1>2. /\ c \in Seq(A) /\ Len(c) = Len(s) + Len(u)
      /\ \A i \in 1..Len(s) + Len(u) : c[i] = IF i <= Len(s) THEN s[i] ELSE u[i - Len(s)]
  BY ConcatProperties
<1>3. /\ Len(s) \in Nat /\ Len(u) \in Nat
      /\ DOMAIN s = 1..Len(s) /\ DOMAIN u = 1..Len(u) /\ DOMAIN c = 1..Len(s) + Len(u)
  BY <1>2, LenProperties
<1>4. \A i \in DOMAIN c : \/ i \in DOMAIN s /\ c[i] = s[i]
                          \/ i > Len(s) /\ i - Len(s) \in DOMAIN u /\ c[i] = u[i - Len(s)]
  BY <1>2, <1>3
<1>5. Range(c) = Range(s) \cup Range(u)
  <2>1. \A x \in Range(c) : x \in Range(s) \cup Range(u)
    BY <1>4 DEF Range
  <2>2. \A i \in DOMAIN s : i \in DOMAIN c /\ c[i] = s[i]
    BY <1>2, <1>3
  <2>3. \A i \in DOMAIN u : i + Len(s) \in DOMAIN c /\ c[i + Len(s)] = u[i]
    BY <1>2, <1>3
  <2>4. \A x \in Range(s) \cup Range(u) : x \in Range(c)
    BY <2>2, <2>3 DEF Range
  <2> QED  BY <2>1, <2>4
<1>6. ASSUME IsInjective(s), IsInjective(u), Range(s) \cap Range(u) = {} PROVE IsInjective(c)
  <2> SUFFICES ASSUME NEW i \in DOMAIN c, NEW j \in DOMAIN c, c[i] = c[j] PROVE i = j
    BY DEF IsInjective
  <2>1. i \in Int /\ j \in Int
    BY <1>3
  <2>2. CASE i \in DOMAIN s /\ j \in DOMAIN s /\ c[i] = s[i] /\ c[j] = s[j]
    BY <1>6, <2>2 DEF IsInjective
  <2>3. CASE i - Len(s) \in DOMAIN u /\ j - Len(s) \in DOMAIN u /\ c[i] = u[i - Len(s)] /\ c[j] = u[j - Len(s)]
    <3>1. i - Len(s) = j - Len(s)
      BY <1>6, <2>3 DEF IsInjective
    <3> QED  BY <1>3, <2>1, <3>1
  <2>4. ASSUME NEW x \in DOMAIN s, NEW y \in DOMAIN u, s[x] = u[y] PROVE FALSE
    BY <1>6, <2>4 DEF Range
  <2> QED  BY <1>4, <2>2, <2>3, <2>4
<1>7. \A a, b \in DOMAIN c : a < b =>
          \/ \E i, j \in DOMAIN s : i < j /\ c[a] = s[i] /\ c[b] = s[j]
          \/ c[a] \in Range(s) /\ c[b] \in Range(u)
          \/ \E i, j \in DOMAIN u : i < j /\ c[a] = u[i] /\ c[b] = u[j]
  <2> SUFFICES ASSUME NEW a \in DOMAIN c, NEW b \in DOMAIN c, a < b
               PROVE  \/ \E i, j \in DOMAIN s : i < j /\ c[a] = s[i] /\ c[b] = s[j]
                      \/ c[a] \in Range(s) /\ c[b] \in Range(u)
                      \/ \E i, j \in DOMAIN u : i < j /\ c[a] = u[i] /\ c[b] = u[j]
    OBVIOUS
  <2>1. CASE a \in DOMAIN s /\ b \in DOMAIN s
    BY <1>3, <1>4, <2>1
  <2>2. CASE a \in DOMAIN s /\ b \notin DOMAIN s
    BY <1>3, <1>4, <2>2 DEF Range
  <2>3. CASE a \notin DOMAIN s
    <3>1. /\ a - Len(s) \in DOMAIN u /\ c[a] = u[a - Len(s)]
          /\ b - Len(s) \in DOMAIN u /\ c[b] = u[b - Len(s)]
          /\ a - Len(s) < b - Len(s)
      BY <1>3, <1>4, <2>3
    <3> QED  BY <3>1
  <2> QED  BY <2>1, <2>2, <2>3
<1> QED  BY <1>2, <1>5, <1>6, <1>7 DEF Joined

\* r is the part of s from m to n.
Slice(r, s, m, n) ==
    /\ Len(r) = IF m <= n THEN n - m + 1 ELSE 0
    /\ \A j \in DOMAIN r : m + j - 1 \in m..n /\ m + j - 1 \in DOMAIN s /\ r[j] = s[m + j - 1]
    /\ \A j \in m..n : s[j] \in Range(r)
    /\ IsInjective(s) => IsInjective(r)

LEMMA SliceIs ==
    ASSUME NEW A, NEW s \in Seq(A), NEW m \in Nat \ {0}, NEW n \in Nat, n <= Len(s), NEW r, r = SubSeq(s, m, n)
    PROVE  r \in Seq(A) /\ Slice(r, s, m, n)
<1>1. Len(s) \in Nat /\ DOMAIN s = 1..Len(s) /\ \A j \in 1..Len(s) : s[j] \in A
  BY LenProperties, ElementOfSeq
<1>2. \A j \in m..n : s[j] \in A
  BY <1>1
<1>3. /\ r \in Seq(A) /\ Len(r) = IF m <= n THEN n - m + 1 ELSE 0
      /\ \A j \in 1..n - m + 1 : r[j] = s[m + j - 1]
  BY <1>2, SubSeqProperties
<1>4. DOMAIN r = 1..Len(r)
  BY <1>3, LenProperties
<1>5. \A j \in DOMAIN r : m + j - 1 \in m..n /\ m + j - 1 \in DOMAIN s /\ r[j] = s[m + j - 1]
  BY <1>1, <1>3, <1>4
<1>6. ASSUME NEW j \in m..n PROVE s[j] \in Range(r)
  <2>1. j - m + 1 \in DOMAIN r /\ m + (j - m + 1) - 1 = j
    BY <1>3, <1>4
  <2>2. r[j - m + 1] = s[j]
    BY <1>5, <2>1
  <2> QED  BY <2>1, <2>2 DEF Range
<1>7. ASSUME IsInjective(s) PROVE IsInjective(r)
  <2> SUFFICES ASSUME NEW a \in DOMAIN r, NEW b \in DOMAIN r, r[a] = r[b] PROVE a = b
    BY DEF IsInjective
  <2>1. m + a - 1 = m + b - 1
    BY <1>5, <1>7 DEF IsInjective
  <2> QED  BY <1>3, <1>4, <2>1
<1> QED  BY <1>3, <1>5, <1>6, <1>7 DEF Slice

LEMMA RemoveAtIs ==
    ASSUME NEW A, NEW s \in Seq(A), NEW i \in DOMAIN s, NEW r, r = RemoveAt(s, i)
    PROVE  /\ r \in Seq(A) /\ Range(r) \subseteq Range(s)
           /\ \A x \in Range(s) : x \in Range(r) \/ x = s[i]
<1>1. Len(s) \in Nat /\ DOMAIN s = 1..Len(s) /\ i \in 1..Len(s)
  BY LenProperties
<1>2. PICK a, b : a = SubSeq(s, 1, i - 1) /\ b = SubSeq(s, i + 1, Len(s))
  OBVIOUS
<1>3. r = a \o b
  BY <1>2 DEF RemoveAt
<1>4. /\ a \in Seq(A) /\ \A j \in DOMAIN a : a[j] \in Range(s)
      /\ \A j \in 1..i - 1 : s[j] \in Range(a)
  <2>1. 1 \in Nat \ {0} /\ i - 1 \in Nat /\ i - 1 <= Len(s)
    BY <1>1
  <2>2. a \in Seq(A) /\ Slice(a, s, 1, i - 1)
    BY <1>2, <2>1, SliceIs, Zenon
  <2> QED  BY <2>2 DEF Range, Slice
<1>5. /\ b \in Seq(A) /\ \A j \in DOMAIN b : b[j] \in Range(s)
      /\ \A j \in i + 1..Len(s) : s[j] \in Range(b)
  <2>1. i + 1 \in Nat \ {0} /\ Len(s) <= Len(s)
    BY <1>1
  <2>2. b \in Seq(A) /\ Slice(b, s, i + 1, Len(s))
    BY <1>1, <1>2, <2>1, SliceIs
  <2> QED  BY <2>2 DEF Range, Slice
<1>6. r \in Seq(A) /\ Joined(r, a, b)
  BY <1>3, <1>4, <1>5, BehindKeeps, Zenon
<1>7. Range(r) = Range(a) \cup Range(b)
  BY <1>6 DEF Joined
<1>8. Range(r) \subseteq Range(s)
  BY <1>4, <1>5, <1>7 DEF Range
<1>9. ASSUME NEW j \in DOMAIN s PROVE s[j] \in Range(r) \/ s[j] = s[i]
  <2>1. j \in 1..i - 1 \/ j = i \/ j \in i + 1..Len(s)
    BY <1>1
  <2> QED  BY <1>4, <1>5, <1>7, <2>1
<1> QED  BY <1>6, <1>8, <1>9 DEF Range

\* r is s and e somewhere in it.
Inserted(r, s, e) ==
    /\ Len(r) = Len(s) + 1 /\ Range(r) = Range(s) \cup {e}
    /\ IsInjective(s) /\ e \notin Range(s) => IsInjective(r)

LEMMA InsertAtIs ==
    ASSUME NEW A, NEW s \in Seq(A), NEW e \in A, NEW p \in 1..Len(s) + 1, NEW r, r = InsertAt(s, p, e)
    PROVE  r \in Seq(A) /\ Inserted(r, s, e)
<1>1. Len(s) \in Nat /\ DOMAIN s = 1..Len(s) /\ p - 1 \in Nat /\ p \in Nat \ {0}
  BY LenProperties
<1>2. PICK a, c : a = SubSeq(s, 1, p - 1) /\ c = SubSeq(s, p, Len(s))
  OBVIOUS
<1>x. PICK x : x = <<e>>
  OBVIOUS
<1>b. PICK b : b = a \o x
  OBVIOUS
<1>3. r = b \o c
  BY <1>2, <1>x, <1>b DEF InsertAt
<1>4. /\ a \in Seq(A) /\ Len(a) = p - 1
      /\ IsInjective(s) => IsInjective(a)
      /\ \A j \in DOMAIN a : j \in 1..p - 1 /\ j \in DOMAIN s /\ a[j] = s[j]
      /\ \A j \in 1..p - 1 : s[j] \in Range(a)
  <2>1. 1 \in Nat \ {0} /\ p - 1 \in Nat /\ p - 1 <= Len(s)
    BY <1>1
  <2>2. a \in Seq(A) /\ Slice(a, s, 1, p - 1)
    BY <1>2, <2>1, SliceIs, Zenon
  <2>3. \A j \in DOMAIN a : j \in Nat
    BY <2>2, LenProperties
  <2> QED  BY <1>1, <2>2, <2>3 DEF Slice
<1>5. /\ c \in Seq(A) /\ Len(c) = Len(s) - p + 1
      /\ IsInjective(s) => IsInjective(c)
      /\ \A j \in DOMAIN c : p + j - 1 \in p..Len(s) /\ p + j - 1 \in DOMAIN s /\ c[j] = s[p + j - 1]
      /\ \A j \in p..Len(s) : s[j] \in Range(c)
  <2>0. Len(s) <= Len(s)
    BY <1>1
  <2>1. c \in Seq(A) /\ Slice(c, s, p, Len(s))
    BY <1>1, <1>2, <2>0, SliceIs, Zenon
  <2> QED  BY <1>1, <2>1 DEF Slice
<1>6. x \in Seq(A) /\ Len(x) = 1 /\ Range(x) = {e} /\ IsInjective(x)
  BY <1>x DEF Range, IsInjective
<1>7. b \in Seq(A) /\ Joined(b, a, x) /\ Len(b) = p
  <2>1. b \in Seq(A) /\ Joined(b, a, x)
    BY <1>b, <1>4, <1>6, BehindKeeps, Zenon
  <2>2. Len(b) = Len(a) + Len(x)
    BY <1>b, <1>4, <1>6, ConcatProperties
  <2> QED  BY <1>1, <1>4, <1>6, <2>1, <2>2
<1>8. r \in Seq(A) /\ Joined(r, b, c) /\ Len(r) = Len(s) + 1
  <2>1. r \in Seq(A) /\ Joined(r, b, c)
    BY <1>3, <1>5, <1>7, BehindKeeps, Zenon
  <2>2. Len(r) = Len(b) + Len(c)
    BY <1>3, <1>5, <1>7, ConcatProperties
  <2> QED  BY <1>1, <1>5, <1>7, <2>1, <2>2
<1>9. Range(b) = Range(a) \cup {e} /\ Range(r) = Range(a) \cup {e} \cup Range(c)
  BY <1>6, <1>7, <1>8 DEF Joined
<1>10. Range(s) = Range(a) \cup Range(c)
  <2>1. Range(a) \subseteq Range(s) /\ Range(c) \subseteq Range(s)
    BY <1>4, <1>5 DEF Range
  <2>2. \A j \in DOMAIN s : j \in 1..p - 1 \/ j \in p..Len(s)
    BY <1>1
  <2>3. \A j \in DOMAIN s : s[j] \in Range(a) \cup Range(c)
    BY <1>4, <1>5, <2>2
  <2> QED  BY <2>1, <2>3 DEF Range
<1>11. ASSUME IsInjective(s), e \notin Range(s) PROVE IsInjective(r)
  <2>1. IsInjective(b)
    BY <1>4, <1>6, <1>7, <1>10, <1>11 DEF Joined
  <2>2. Range(a) \cap Range(c) = {}
    <3> SUFFICES ASSUME NEW j \in DOMAIN a, NEW k \in DOMAIN c, a[j] = c[k] PROVE FALSE
      BY DEF Range
    <3>1. j = p + k - 1
      BY <1>4, <1>5, <1>11 DEF IsInjective
    <3> QED  BY <1>1, <1>4, <1>5, <3>1
  <2>3. Range(b) \cap Range(c) = {}
    BY <1>9, <1>10, <1>11, <2>2
  <2> QED  BY <1>5, <1>8, <1>11, <2>1, <2>3 DEF Joined
<1> QED  BY <1>8, <1>9, <1>10, <1>11 DEF Inserted

\* As many different ones as n do not fit among fewer.
LEMMA Fits ==
    ASSUME NEW n \in Nat, NEW m \in Nat, NEW g \in [1..n -> 1..m], IsInjective(g)
    PROVE  n <= m
<1>1. g \in Injection(1..n, 1..m)
  BY DEF Injection
<1>2. ExistsInjection(1..n, 1..m)
  BY <1>1 DEF ExistsInjection
<1> QED  BY <1>2, Fun_NatInjLeq

-----------------------------------------------------------------------------
(* Lists without anything twice, and the order of what is in them.         *)

\* A list of some of A, each once.
OnceEach(s, A) == s \in Seq(A) /\ IsInjective(s)

Ascending(s) == \A i, j \in DOMAIN s : i < j => s[i] < s[j]

\* u is in s, and v behind it.
Precedes(u, v, s) == \E i, j \in DOMAIN s : i < j /\ s[i] = u /\ s[j] = v

LEMMA OnePrecedes ==
    ASSUME NEW A, NEW s, OnceEach(s, A), NEW u \in Range(s), NEW v \in Range(s), u # v
    PROVE  Precedes(u, v, s) \/ Precedes(v, u, s)
<1>1. PICK i \in DOMAIN s : s[i] = u
  BY DEF Range
<1>2. PICK j \in DOMAIN s : s[j] = v
  BY DEF Range
<1>3. i \in Nat /\ j \in Nat
  BY LenProperties DEF OnceEach
<1>4. i < j \/ j < i
  BY <1>1, <1>2, <1>3
<1> QED  BY <1>1, <1>2, <1>4 DEF Precedes

LEMMA NotBothPrecede ==
    ASSUME NEW A, NEW s, OnceEach(s, A), NEW u, NEW v, Precedes(u, v, s), Precedes(v, u, s)
    PROVE  FALSE
<1>1. PICK i \in DOMAIN s, j \in DOMAIN s : i < j /\ s[i] = u /\ s[j] = v
  BY DEF Precedes
<1>2. PICK k \in DOMAIN s, l \in DOMAIN s : k < l /\ s[k] = v /\ s[l] = u
  BY DEF Precedes
<1>3. k = j /\ l = i
  BY <1>1, <1>2 DEF OnceEach, IsInjective
<1>4. i \in Nat /\ j \in Nat
  BY LenProperties DEF OnceEach
<1> QED  BY <1>1, <1>2, <1>3, <1>4

LEMMA AscendingOnce ==
    ASSUME NEW s \in Seq(Int), Ascending(s)
    PROVE  IsInjective(s)
<1> SUFFICES ASSUME NEW a \in DOMAIN s, NEW b \in DOMAIN s, s[a] = s[b], a # b PROVE FALSE
  BY DEF IsInjective
<1>1. a \in Nat /\ b \in Nat /\ s[a] \in Int /\ s[b] \in Int
  BY LenProperties, ElementOfSeq
<1> QED  BY <1>1 DEF Ascending

LEMMA AsLong ==
    ASSUME NEW A, NEW s, NEW t, OnceEach(s, A), t \in Seq(A), Range(s) \subseteq Range(t)
    PROVE  Len(s) <= Len(t)
<1>1. Len(s) \in Nat /\ DOMAIN s = 1..Len(s) /\ Len(t) \in Nat /\ DOMAIN t = 1..Len(t)
  BY LenProperties DEF OnceEach
<1>2. PICK g : g = [i \in 1..Len(s) |-> CHOOSE j \in 1..Len(t) : t[j] = s[i]]
  OBVIOUS
<1>3. ASSUME NEW i \in 1..Len(s) PROVE g[i] \in 1..Len(t) /\ t[g[i]] = s[i]
  <2>1. \E j \in 1..Len(t) : t[j] = s[i]
    BY <1>1 DEF Range
  <2> QED  BY <1>2, <2>1
<1>4. g \in [1..Len(s) -> 1..Len(t)]
  BY <1>2, <1>3
<1>5. IsInjective(g)
  BY <1>1, <1>3, <1>4 DEF OnceEach, IsInjective
<1> QED  BY <1>1, <1>4, <1>5, Fits

LEMMA SameLength ==
    ASSUME NEW A, NEW s, NEW t, OnceEach(s, A), OnceEach(t, A), Range(s) = Range(t)
    PROVE  Len(s) = Len(t)
<1>1. Len(s) <= Len(t) /\ Len(t) <= Len(s)
  BY AsLong DEF OnceEach
<1>2. Len(s) \in Nat /\ Len(t) \in Nat
  BY LenProperties DEF OnceEach
<1> QED  BY <1>1, <1>2

\* Numbers can be put into one order only.
LEMMA OneOrder ==
    ASSUME NEW s \in Seq(Nat), NEW t \in Seq(Nat), Ascending(s), Ascending(t), Range(s) = Range(t)
    PROVE  s = t
<1>0. s \in Seq(Int) /\ t \in Seq(Int)
  BY SeqMonotonic
<1>1. OnceEach(s, Nat) /\ OnceEach(t, Nat)
  BY <1>0, AscendingOnce DEF OnceEach
<1>2. Len(s) = Len(t)
  BY <1>1, SameLength
<1>3. Len(s) \in Nat /\ DOMAIN s = 1..Len(s) /\ DOMAIN t = 1..Len(s)
  BY <1>2, LenProperties
<1>4. \A i \in 1..Len(s) : s[i] \in Nat /\ t[i] \in Nat
  BY <1>2, ElementOfSeq
<1> DEFINE T == {i \in 1..Len(s) : s[i] # t[i]}
<1> SUFFICES ASSUME T # {} PROVE FALSE
  BY <1>2, <1>3, SeqEqual
<1>5. PICK i \in T : \A j \in T : i <= j
  <2>1. T \subseteq Nat
    BY <1>3
  <2> HIDE DEF T
  <2> QED  BY <2>1, LeastNumber
<1>6. \A j \in 1..Len(s) : j < i => s[j] = t[j]
  BY <1>3, <1>5
<1>7. t[i] < s[i]
  <2>1. PICK j \in 1..Len(s) : t[j] = s[i]
    BY <1>3 DEF Range
  <2>2. ~(j < i)
    BY <1>1, <1>3, <1>6, <2>1 DEF OnceEach, IsInjective
  <2>3. i < j
    BY <1>3, <2>1, <2>2
  <2> QED  BY <1>3, <2>1, <2>3 DEF Ascending
<1>8. s[i] < t[i]
  <2>1. PICK j \in 1..Len(s) : s[j] = t[i]
    BY <1>3 DEF Range
  <2>2. ~(j < i)
    BY <1>1, <1>3, <1>6, <2>1 DEF OnceEach, IsInjective
  <2>3. i < j
    BY <1>3, <2>1, <2>2
  <2> QED  BY <1>3, <2>1, <2>3 DEF Ascending
<1> QED  BY <1>4, <1>7, <1>8

\* What is ascending and in the order of what is ascending.
LEMMA AscendingToo ==
    ASSUME NEW c, NEW h, OnceEach(c, Nat), OnceEach(h, Nat), Range(c) = Range(h), Ascending(h),
           \A u, v \in Nat : Precedes(u, v, h) /\ u < v => Precedes(u, v, c)
    PROVE  c = h
<1>1. Ascending(c)
  <2> SUFFICES ASSUME NEW x \in DOMAIN c, NEW y \in DOMAIN c, x < y PROVE c[x] < c[y]
    BY DEF Ascending
  <2>1. c[x] \in Nat /\ c[y] \in Nat /\ x \in Nat /\ y \in Nat
    BY LenProperties, ElementOfSeq DEF OnceEach
  <2>2. Precedes(c[x], c[y], c)
    BY DEF Precedes
  <2>3. ~Precedes(c[y], c[x], c)
    BY <2>2, NotBothPrecede
  <2>4. ~(c[y] < c[x])
    <3> SUFFICES ASSUME c[y] < c[x] PROVE FALSE
      OBVIOUS
    <3>1. c[x] \in Range(h) /\ c[y] \in Range(h) /\ c[x] # c[y]
      BY <2>1 DEF Range
    <3>2. Precedes(c[y], c[x], h)
      <4>1. Precedes(c[x], c[y], h) \/ Precedes(c[y], c[x], h)
        BY <3>1, OnePrecedes
      <4>2. ASSUME Precedes(c[x], c[y], h) PROVE c[x] < c[y]
        BY <4>2 DEF Precedes, Ascending
      <4> QED  BY <2>1, <4>1, <4>2
    <3> QED  BY <2>1, <2>3, <3>2
  <2>5. c[x] # c[y]
    BY <2>1 DEF OnceEach, IsInjective
  <2> QED  BY <2>1, <2>4, <2>5
<1> QED  BY <1>1, OneOrder DEF OnceEach

\* c has the numbers of h, and the smaller before the greater where h has.
InOrderOf(c, h) == Range(c) = Range(h) /\ \A u, v \in Nat : Precedes(u, v, h) /\ u < v => Precedes(u, v, c)

\* What there is and not too much, and behind it what is missing.
Completed(cs, all, P) == Among(cs, Range(all)) \o Among(all, P \ Range(cs))

LEMMA CompletedIs ==
    ASSUME NEW P, NEW cs, NEW all, OnceEach(cs, P), OnceEach(all, P)
    PROVE  /\ OnceEach(Completed(cs, all, P), P) /\ Range(Completed(cs, all, P)) = Range(all)
           /\ \A u, v : Precedes(u, v, Completed(cs, all, P)) =>
                 \/ Precedes(u, v, cs)
                 \/ u \in Range(cs) /\ v \notin Range(cs)
                 \/ u \notin Range(cs) /\ v \notin Range(cs) /\ Precedes(u, v, all)
<1>1. PICK s, t : s = Among(cs, Range(all)) /\ t = Among(all, P \ Range(cs))
  OBVIOUS
<1>2. s \in Seq(P) /\ Sieved(s, cs, Range(all)) /\ t \in Seq(P) /\ Sieved(t, all, P \ Range(cs))
  <2>1. cs \in Seq(P) /\ all \in Seq(P)
    BY DEF OnceEach
  <2> QED  BY <1>1, <2>1, AmongKeeps, Zenon
<1>3. PICK c : c = s \o t
  OBVIOUS
<1>4. c \in Seq(P) /\ Joined(c, s, t)
  BY <1>2, <1>3, BehindKeeps, Zenon
<1>5. c = Completed(cs, all, P)
  BY <1>1, <1>3 DEF Completed
<1>6. Range(s) = Range(cs) \cap Range(all) /\ Range(t) = Range(all) \cap (P \ Range(cs))
  BY <1>2 DEF Sieved
<1>7. Range(all) \subseteq P
  BY RangeOfSeq DEF OnceEach
<1>8. Range(c) = Range(all)
  <2>1. Range(c) = Range(s) \cup Range(t)
    BY <1>4 DEF Joined
  <2> QED  BY <1>6, <1>7, <2>1
<1>9. IsInjective(c)
  <2>1. Range(s) \cap Range(t) = {}
    BY <1>6
  <2>2. IsInjective(s) /\ IsInjective(t)
    BY <1>2 DEF Sieved, OnceEach
  <2> QED  BY <1>4, <2>1, <2>2 DEF Joined
<1>10. ASSUME NEW u, NEW v, Precedes(u, v, c)
       PROVE  \/ Precedes(u, v, cs)
              \/ u \in Range(cs) /\ v \notin Range(cs)
              \/ u \notin Range(cs) /\ v \notin Range(cs) /\ Precedes(u, v, all)
  <2>1. PICK a \in DOMAIN c, b \in DOMAIN c : a < b /\ c[a] = u /\ c[b] = v
    BY <1>10 DEF Precedes
  <2>2. \/ \E i, j \in DOMAIN s : i < j /\ u = s[i] /\ v = s[j]
        \/ u \in Range(s) /\ v \in Range(t)
        \/ \E i, j \in DOMAIN t : i < j /\ u = t[i] /\ v = t[j]
    BY <1>4, <2>1 DEF Joined
  <2>3. CASE \E i, j \in DOMAIN s : i < j /\ u = s[i] /\ v = s[j]
    <3>1. \E i, j \in DOMAIN cs : i < j /\ cs[i] = u /\ cs[j] = v
      BY <1>2, <2>3 DEF Sieved
    <3> QED  BY <3>1 DEF Precedes, Range
  <2>4. CASE u \in Range(s) /\ v \in Range(t)
    BY <1>6, <2>4
  <2>5. CASE \E i, j \in DOMAIN t : i < j /\ u = t[i] /\ v = t[j]
    <3>1. \E i, j \in DOMAIN all : i < j /\ all[i] = u /\ all[j] = v
      BY <1>2, <2>5 DEF Sieved
    <3>2. u \in Range(t) /\ v \in Range(t)
      BY <2>5 DEF Range
    <3> QED  BY <1>6, <3>1, <3>2 DEF Precedes
  <2> QED  BY <2>2, <2>3, <2>4, <2>5
<1> QED  BY <1>4, <1>5, <1>8, <1>9, <1>10 DEF OnceEach

\* What is completed with the same keeps its order.
LEMMA CompletedInOrder ==
    ASSUME NEW P \in SUBSET Nat, NEW c, NEW h, NEW all, OnceEach(c, P), OnceEach(h, P), OnceEach(all, P), InOrderOf(c, h)
    PROVE  InOrderOf(Completed(c, all, P), Completed(h, all, P))
<1>1. PICK d, g : d = Completed(c, all, P) /\ g = Completed(h, all, P)
  OBVIOUS
<1>2. OnceEach(d, P) /\ Range(d) = Range(all) /\ OnceEach(g, P) /\ Range(g) = Range(all)
  BY <1>1, CompletedIs
<1>3. ASSUME NEW u \in Nat, NEW v \in Nat, Precedes(u, v, g), u < v PROVE Precedes(u, v, d)
  <2> SUFFICES ASSUME ~Precedes(u, v, d) PROVE FALSE
    OBVIOUS
  <2>1. u \in Range(d) /\ v \in Range(d)
    BY <1>2, <1>3 DEF Precedes, Range
  <2>2. Precedes(v, u, d)
    BY <1>2, <1>3, <2>1, OnePrecedes
  <2>3. \/ Precedes(v, u, c)
        \/ v \in Range(c) /\ u \notin Range(c)
        \/ v \notin Range(c) /\ u \notin Range(c) /\ Precedes(v, u, all)
    BY <1>1, <2>2, CompletedIs, Zenon
  <2>4. \/ Precedes(u, v, h)
        \/ u \in Range(h) /\ v \notin Range(h)
        \/ u \notin Range(h) /\ v \notin Range(h) /\ Precedes(u, v, all)
    BY <1>1, <1>3, CompletedIs, Zenon
  <2>5. Precedes(v, u, c) => v \in Range(c) /\ u \in Range(c) /\ ~Precedes(u, v, c)
    <3>1. Precedes(v, u, c) => ~Precedes(u, v, c)
      BY NotBothPrecede
    <3> QED  BY <3>1 DEF Precedes, Range
  <2>6. Precedes(u, v, h) => v \in Range(h) /\ u \in Range(h) /\ Precedes(u, v, c)
    <3>1. Precedes(u, v, h) => Precedes(u, v, c)
      BY <1>3 DEF InOrderOf
    <3> QED  BY <3>1 DEF Precedes, Range
  <2>7. ~(Precedes(u, v, all) /\ Precedes(v, u, all))
    BY NotBothPrecede
  <2>8. Range(c) = Range(h)
    BY DEF InOrderOf
  <2> QED  BY <2>3, <2>4, <2>5, <2>6, <2>7, <2>8
<1> QED  BY <1>1, <1>2, <1>3 DEF InOrderOf

\* What had none has all in their own order.
LEMMA CompletedAnew ==
    ASSUME NEW P \in SUBSET Nat, NEW h, NEW all, OnceEach(h, P), OnceEach(all, P), Ascending(all)
    PROVE  InOrderOf(Completed(<<>>, all, P), Completed(h, all, P))
<1>1. PICK d, g : d = Completed(<<>>, all, P) /\ g = Completed(h, all, P)
  OBVIOUS
<1>2. OnceEach(<<>>, P) /\ Range(<<>>) = {}
  <2>1. <<>> \in Seq(P) /\ DOMAIN <<>> = {}
    OBVIOUS
  <2> QED  BY <2>1 DEF OnceEach, IsInjective, Range
<1>3. OnceEach(d, P) /\ Range(d) = Range(all) /\ OnceEach(g, P) /\ Range(g) = Range(all)
  BY <1>1, <1>2, CompletedIs
<1>4. ASSUME NEW u \in Nat, NEW v \in Nat, Precedes(u, v, g), u < v PROVE Precedes(u, v, d)
  <2>1. u \in Range(d) /\ v \in Range(d)
    BY <1>3, <1>4 DEF Precedes, Range
  <2>2. ASSUME Precedes(v, u, d) PROVE FALSE
    <3>1. Precedes(v, u, all)
      <4>1. Precedes(v, u, <<>>) => FALSE
        BY DEF Precedes
      <4>2. PICK e : e = <<>>
        OBVIOUS
      <4>3. \/ Precedes(v, u, e)
            \/ v \in Range(e) /\ u \notin Range(e)
            \/ v \notin Range(e) /\ u \notin Range(e) /\ Precedes(v, u, all)
        <5>1. OnceEach(e, P) /\ Precedes(v, u, Completed(e, all, P))
          BY <1>1, <1>2, <2>2, <4>2
        <5> QED  BY <5>1, CompletedIs, Zenon
      <4> QED  BY <1>2, <4>1, <4>2, <4>3
    <3>2. v < u
      BY <3>1 DEF Precedes, Ascending
    <3> QED  BY <1>4, <3>2
  <2> QED  BY <1>3, <1>4, <2>1, <2>2, OnePrecedes
<1> QED  BY <1>1, <1>3, <1>4 DEF InOrderOf

\* Where everything is once e is put before what is at p.
LEMMA InsertAtPuts ==
    ASSUME NEW A, NEW s \in Seq(A), NEW e \in A, NEW p \in 1..Len(s) + 1, NEW r, r = InsertAt(s, p, e)
    PROVE  /\ r \in Seq(A) /\ Len(r) = Len(s) + 1
           /\ \A i \in 1..Len(r) : r[i] = IF i < p THEN s[i] ELSE IF i = p THEN e ELSE s[i - 1]
<1>1. Len(s) \in Nat /\ DOMAIN s = 1..Len(s) /\ p - 1 \in Nat /\ p \in Nat \ {0} /\ \A i \in 1..Len(s) : s[i] \in A
  BY LenProperties, ElementOfSeq
<1>2. PICK a, x, c : a = SubSeq(s, 1, p - 1) /\ x = <<e>> /\ c = SubSeq(s, p, Len(s))
  OBVIOUS
<1>3. PICK b : b = a \o x
  OBVIOUS
<1>4. r = b \o c
  BY <1>2, <1>3 DEF InsertAt
<1>5. a \in Seq(A) /\ Len(a) = p - 1 /\ \A i \in 1..p - 1 : a[i] = s[i]
  <2>1. \A i \in 1..p - 1 : s[i] \in A
    BY <1>1
  <2>2. 1 \in Int /\ p - 1 \in Int
    BY <1>1
  <2>3. /\ a \in Seq(A) /\ Len(a) = IF 1 <= p - 1 THEN p - 1 - 1 + 1 ELSE 0
        /\ \A i \in 1..p - 1 - 1 + 1 : a[i] = s[1 + i - 1]
    BY <1>1, <1>2, <2>1, <2>2, SubSeqProperties
  <2> QED  BY <1>1, <2>3
<1>6. c \in Seq(A) /\ Len(c) = Len(s) - p + 1 /\ \A i \in 1..Len(s) - p + 1 : c[i] = s[p + i - 1]
  <2>1. \A i \in p..Len(s) : s[i] \in A
    BY <1>1
  <2>2. /\ c \in Seq(A) /\ Len(c) = IF p <= Len(s) THEN Len(s) - p + 1 ELSE 0
        /\ \A i \in 1..Len(s) - p + 1 : c[i] = s[p + i - 1]
    BY <1>1, <1>2, <2>1, SubSeqProperties
  <2> QED  BY <1>1, <2>2
<1>7. x \in Seq(A) /\ Len(x) = 1 /\ x[1] = e
  BY <1>2
<1>8. b \in Seq(A) /\ Len(b) = p /\ b[p] = e /\ \A i \in 1..p - 1 : b[i] = s[i]
  <2>1. /\ b \in Seq(A) /\ Len(b) = Len(a) + Len(x)
        /\ \A i \in 1..Len(a) + Len(x) : b[i] = IF i <= Len(a) THEN a[i] ELSE x[i - Len(a)]
    BY <1>3, <1>5, <1>7, ConcatProperties
  <2>2. Len(a) = p - 1 /\ Len(x) = 1 /\ p - 1 + 1 = p
    BY <1>1, <1>5, <1>7
  <2>3. Len(b) = p /\ \A i \in 1..p : b[i] = IF i <= p - 1 THEN a[i] ELSE x[i - (p - 1)]
    BY <2>1, <2>2
  <2>4. b[p] = x[1]
    <3>1. p \in 1..p /\ ~(p <= p - 1) /\ p - (p - 1) = 1
      BY <1>1
    <3> QED  BY <2>3, <3>1
  <2>5. \A i \in 1..p - 1 : b[i] = s[i]
    BY <1>1, <1>5, <2>3
  <2> QED  BY <1>7, <2>1, <2>3, <2>4, <2>5
<1>9. /\ r \in Seq(A) /\ Len(r) = Len(b) + Len(c)
      /\ \A i \in 1..Len(b) + Len(c) : r[i] = IF i <= Len(b) THEN b[i] ELSE c[i - Len(b)]
  BY <1>4, <1>6, <1>8, ConcatProperties
<1>10. Len(r) = Len(s) + 1
  BY <1>1, <1>6, <1>8, <1>9
<1>11. ASSUME NEW i \in 1..Len(r) PROVE r[i] = IF i < p THEN s[i] ELSE IF i = p THEN e ELSE s[i - 1]
  <2>1. CASE i < p
    BY <1>1, <1>8, <1>9, <1>10, <2>1
  <2>2. CASE i = p
    BY <1>1, <1>8, <1>9, <1>10, <2>2
  <2>3. CASE i > p
    <3>1. r[i] = c[i - p] /\ i - p \in 1..Len(s) - p + 1
      BY <1>1, <1>6, <1>8, <1>9, <1>10, <2>3
    <3>2. c[i - p] = s[p + (i - p) - 1] /\ p + (i - p) - 1 = i - 1
      BY <1>1, <1>6, <3>1
    <3> QED  BY <1>1, <2>3, <3>1, <3>2
  <2> QED  BY <1>1, <2>1, <2>2, <2>3
<1> QED  BY <1>9, <1>10, <1>11

-----------------------------------------------------------------------------
(* The options of a select are compared with the doors.                    *)

ComparedWith(doors, row, ix) ==
    IF ix > Len(row.options) THEN [row EXCEPT !.options = Append(@, doors[ix])]
    ELSE IF row.options[ix] = doors[ix] THEN row
    ELSE [row EXCEPT !.options = InsertAt(@, ix, doors[ix]), !.selected = IF @ >= ix THEN @ + 1 ELSE @]

SelectRow(options, selected, value, original, modified) ==
    [options |-> options, selected |-> selected, value |-> value, original |-> original, modified |-> modified]

Picked(options, selected) == IF selected = 0 THEN 0 ELSE options[selected]

\* The select with options s, of which p is selected, when t are the options and q the selected one
\* of the first as many doors as have been compared.
ComparedTo(m, s, p, t, q, doors, P) ==
    /\ t \in Seq(P) /\ m <= Len(t) /\ \A i \in 1..m : t[i] = doors[i]
    /\ q \in 0..Len(t) /\ Picked(t, q) = Picked(s, p) /\ (q = 0 <=> p = 0)
    /\ Ascending(s) /\ Range(s) \subseteq Range(doors) => Ascending(t) /\ Range(t) \subseteq Range(doors)

NextCompared(m, s, p, row, value, original, modified, doors, P) ==
    \E u, r : row = SelectRow(u, r, value, original, modified) /\ ComparedTo(m, s, p, u, r, doors, P)

LEMMA ComparesOne ==
    ASSUME NEW P \in SUBSET Nat, NEW doors \in Seq(P), Ascending(doors), NEW s \in Seq(P), NEW p,
           NEW m \in 1..Len(doors), NEW t, NEW q, ComparedTo(m - 1, s, p, t, q, doors, P),
           NEW value, NEW original, NEW modified
    PROVE  NextCompared(m, s, p, ComparedWith(doors, SelectRow(t, q, value, original, modified), m), value, original, modified, doors, P)
<1>1. /\ Len(doors) \in Nat /\ DOMAIN doors = 1..Len(doors) /\ doors[m] \in P /\ m \in Nat
      /\ t \in Seq(P) /\ Len(t) \in Nat /\ DOMAIN t = 1..Len(t) /\ q \in 0..Len(t)
  BY LenProperties, ElementOfSeq DEF ComparedTo
<1>1a. /\ m - 1 <= Len(t) /\ \A i \in 1..m - 1 : t[i] = doors[i]
       /\ \A i \in 1..Len(t) : t[i] \in P
       /\ Picked(t, q) = Picked(s, p) /\ (q = 0 <=> p = 0)
       /\ Ascending(s) /\ Range(s) \subseteq Range(doors) => Ascending(t) /\ Range(t) \subseteq Range(doors)
  BY ElementOfSeq DEF ComparedTo
<1>2. PICK row : row = SelectRow(t, q, value, original, modified)
  OBVIOUS
<1>3. CASE m > Len(t)
  <2>1. PICK u : u = Append(t, doors[m])
    OBVIOUS
  <2>2. /\ u \in Seq(P) /\ Len(u) = Len(t) + 1 /\ \A i \in 1..Len(t) : u[i] = t[i]
        /\ u[Len(t) + 1] = doors[m]
    BY <1>1, <2>1, AppendProperties
  <2>3. Len(t) = m - 1
    BY <1>1, <1>1a, <1>3
  <2>4. ComparedWith(doors, row, m) = SelectRow(u, q, value, original, modified)
    BY <1>2, <1>3, <2>1 DEF ComparedWith, SelectRow
  <2>5. \A i \in 1..m : u[i] = doors[i]
    BY <1>1, <1>1a, <2>2, <2>3
  <2>6. Len(u) = m /\ DOMAIN u = 1..m
    BY <1>1, <2>2, <2>3, LenProperties
  <2>7. Ascending(u) /\ Range(u) \subseteq Range(doors)
    BY <1>1, <2>5, <2>6 DEF Ascending, Range
  <2>8. Picked(u, q) = Picked(t, q)
    BY <1>1, <2>2 DEF Picked
  <2>9. q \in 0..Len(u) /\ m <= Len(u)
    BY <1>1, <2>2, <2>6
  <2>10. ComparedTo(m, s, p, u, q, doors, P)
    BY <1>1a, <2>2, <2>5, <2>7, <2>8, <2>9 DEF ComparedTo
  <2> QED  BY <1>2, <2>4, <2>10 DEF NextCompared
<1>4. CASE m <= Len(t) /\ t[m] = doors[m]
  <2>1. ComparedWith(doors, row, m) = row
    BY <1>1, <1>2, <1>4 DEF ComparedWith, SelectRow
  <2>2. \A i \in 1..m : t[i] = doors[i]
    BY <1>1, <1>1a, <1>4
  <2>3. ComparedTo(m, s, p, t, q, doors, P)
    BY <1>1, <1>1a, <1>4, <2>2 DEF ComparedTo
  <2> QED  BY <1>2, <2>1, <2>3 DEF NextCompared
<1>5. CASE m <= Len(t) /\ t[m] # doors[m]
  <2>1. PICK u : u = InsertAt(t, m, doors[m])
    OBVIOUS
  <2>2. PICK r : r = IF q >= m THEN q + 1 ELSE q
    OBVIOUS
  <2>3. /\ u \in Seq(P) /\ Len(u) = Len(t) + 1
        /\ \A i \in 1..Len(u) : u[i] = IF i < m THEN t[i] ELSE IF i = m THEN doors[m] ELSE t[i - 1]
    <3>1. m \in 1..Len(t) + 1
      BY <1>1, <1>5
    <3> QED  BY <1>1, <2>1, <3>1, InsertAtPuts
  <2>4. ComparedWith(doors, row, m) = SelectRow(u, r, value, original, modified)
    <3>1. ComparedWith(doors, row, m) = [row EXCEPT !.options = u, !.selected = r]
      <4>1. row.options = t /\ row.selected = q
        BY <1>2 DEF SelectRow
      <4>2. ~(m > Len(row.options)) /\ row.options[m] # doors[m]
        BY <1>1, <1>5, <4>1
      <4>3. ComparedWith(doors, row, m) =
                [row EXCEPT !.options = InsertAt(@, m, doors[m]), !.selected = IF @ >= m THEN @ + 1 ELSE @]
        BY <4>2 DEF ComparedWith
      <4> QED  BY <2>1, <2>2, <4>1, <4>3
    <3>2. [row EXCEPT !.options = u, !.selected = r] = SelectRow(u, r, value, original, modified)
      <4>1. PICK w : w = [row EXCEPT !.options = u]
        OBVIOUS
      <4>2. w = [options |-> u, selected |-> q, value |-> value, original |-> original, modified |-> modified]
        BY <1>2, <4>1 DEF SelectRow
      <4>3. [w EXCEPT !.selected = r] = SelectRow(u, r, value, original, modified)
        BY <4>2 DEF SelectRow
      <4>4. [row EXCEPT !.options = u, !.selected = r] = [w EXCEPT !.selected = r]
        BY <4>1
      <4> QED  BY <4>3, <4>4
    <3> QED  BY <3>1, <3>2
  <2>5. \A i \in 1..m : u[i] = doors[i]
    BY <1>1, <1>1a, <1>5, <2>3
  <2>6. DOMAIN u = 1..Len(t) + 1
    BY <2>3, LenProperties
  <2>7. Picked(u, r) = Picked(t, q)
    BY <1>1, <2>2, <2>3 DEF Picked
  <2>8. r \in 0..Len(u) /\ m <= Len(u) /\ (r = 0 <=> q = 0)
    BY <1>1, <1>5, <2>2, <2>3
  <2>9. ASSUME Ascending(s), Range(s) \subseteq Range(doors) PROVE Ascending(u) /\ Range(u) \subseteq Range(doors)
    <3>1. Ascending(t) /\ Range(t) \subseteq Range(doors)
      BY <1>1a, <2>9
    <3>2. \A i \in DOMAIN u : u[i] \in Range(doors)
      <4> SUFFICES ASSUME NEW i \in 1..Len(t) + 1 PROVE u[i] \in Range(doors)
        BY <2>6
      <4>1. doors[m] \in Range(doors) /\ \A k \in 1..Len(t) : t[k] \in Range(t)
        BY <1>1 DEF Range
      <4>2. CASE i < m
        BY <1>1, <1>5, <2>3, <3>1, <4>1, <4>2
      <4>3. CASE i = m
        BY <1>1, <2>3, <4>1, <4>3
      <4>4. CASE i > m
        <5>1. i - 1 \in 1..Len(t) /\ u[i] = t[i - 1]
          BY <1>1, <2>3, <4>4
        <5> QED  BY <3>1, <4>1, <5>1
      <4> QED  BY <1>1, <4>2, <4>3, <4>4
    <3>3. doors[m] < t[m]
      <4>1. PICK j \in 1..Len(doors) : doors[j] = t[m]
        <5>1. m \in DOMAIN t
          BY <1>1, <1>5
        <5>2. t[m] \in Range(doors)
          BY <3>1, <5>1 DEF Range
        <5> QED  BY <1>1, <5>2 DEF Range
      <4>2. ASSUME j < m PROVE FALSE
        <5>1. t[j] = doors[j] /\ j \in 1..Len(t)
          BY <1>1, <1>1a, <1>5, <4>2
        <5>2. t[j] < t[m] /\ t[j] \in Nat
          <6>1. j \in DOMAIN t /\ m \in DOMAIN t
            BY <1>1, <1>5, <5>1
          <6>2. t[j] < t[m]
            BY <3>1, <4>2, <6>1 DEF Ascending
          <6>3. t[j] \in P
            BY <1>1a, <5>1
          <6> QED  BY <6>2, <6>3
        <5> QED  BY <4>1, <5>1, <5>2
      <4>3. m < j
        BY <1>1, <1>5, <4>1, <4>2
      <4> QED  BY <1>1, <4>1, <4>3 DEF Ascending
    <3>4. Ascending(u)
      <4> SUFFICES ASSUME NEW i \in 1..Len(t) + 1, NEW j \in 1..Len(t) + 1, i < j PROVE u[i] < u[j]
        BY <2>6 DEF Ascending
      <4>0. \A k \in 1..Len(t) + 1 : u[k] = IF k < m THEN t[k] ELSE IF k = m THEN doors[m] ELSE t[k - 1]
        BY <2>3
      <4>a. \A k, l \in 1..Len(t) : k < l => t[k] < t[l]
        BY <1>1, <3>1 DEF Ascending
      <4>b. \A k, l \in 1..Len(doors) : k < l => doors[k] < doors[l]
        BY <1>1 DEF Ascending
      <4>n. \A k \in 1..Len(t) : t[k] \in Nat
        BY <1>1a
      <4>1. CASE i < m /\ j < m
        BY <1>1, <1>5, <4>0, <4>1, <4>a
      <4>2. CASE i < m /\ j = m
        <5>1. u[i] = doors[i] /\ u[j] = doors[m]
          BY <1>1, <1>1a, <4>0, <4>2
        <5> QED  BY <1>1, <4>2, <4>b, <5>1
      <4>3. CASE i < m /\ j > m
        BY <1>1, <4>0, <4>3, <4>a
      <4>4. CASE i = m /\ j > m
        <5>1. u[i] = doors[m] /\ u[j] = t[j - 1] /\ j - 1 \in 1..Len(t)
          BY <1>1, <4>0, <4>4
        <5>2. j - 1 = m \/ t[m] < t[j - 1]
          BY <1>1, <1>5, <4>4, <4>a
        <5>3. doors[m] \in Nat /\ t[m] \in Nat /\ t[j - 1] \in Nat
          <6>1. m \in 1..Len(t)
            BY <1>1, <1>5
          <6>2. doors[m] \in P
            BY <1>1
          <6> QED  BY <4>n, <5>1, <6>1, <6>2
        <5> QED  BY <3>3, <5>1, <5>2, <5>3
      <4>5. CASE i > m
        <5>1. u[i] = t[i - 1] /\ u[j] = t[j - 1] /\ i - 1 \in 1..Len(t) /\ j - 1 \in 1..Len(t) /\ i - 1 < j - 1
          BY <1>1, <4>0, <4>5
        <5> QED  BY <4>a, <5>1
      <4> QED  BY <1>1, <4>1, <4>2, <4>3, <4>4, <4>5
    <3> QED  BY <3>2, <3>4 DEF Range
  <2>10. ComparedTo(m, s, p, u, r, doors, P)
    BY <1>1a, <2>3, <2>5, <2>7, <2>8, <2>9 DEF ComparedTo
  <2> QED  BY <1>2, <2>4, <2>10 DEF NextCompared
<1> QED  BY <1>1, <1>3, <1>4, <1>5

IsCompared(f, doors, row, n) ==
    f = [ix \in 0..n |-> IF ix = 0 THEN row ELSE ComparedWith(doors, f[ix - 1], ix)]

LEMMA ComparedExists ==
    ASSUME NEW doors, NEW row, NEW n \in Nat
    PROVE  \E f : IsCompared(f, doors, row, n)
<1> DEFINE T == {m \in Nat : ~\E f : IsCompared(f, doors, row, m)}
<1> SUFFICES ASSUME T # {} PROVE FALSE
  OBVIOUS
<1>1. PICK m \in T : \A k \in T : m <= k
  <2>1. T \subseteq Nat
    OBVIOUS
  <2> HIDE DEF T
  <2> QED  BY <2>1, LeastNumber
<1>2. m # 0
  <2>1. IsCompared([ix \in 0..0 |-> row], doors, row, 0)
    BY DEF IsCompared
  <2> QED  BY <2>1
<1>3. m - 1 \in Nat /\ m - 1 \notin T
  BY <1>1, <1>2
<1>4. PICK f : IsCompared(f, doors, row, m - 1)
  BY <1>3
<1>5. PICK g : g = [ix \in 0..m |-> IF ix # m THEN f[ix] ELSE ComparedWith(doors, f[m - 1], m)]
  OBVIOUS
<1>6. IsCompared(g, doors, row, m)
  <2>1. \A ix \in 0..m - 1 : f[ix] = IF ix = 0 THEN row ELSE ComparedWith(doors, f[ix - 1], ix)
    <3>1. PICK k : k = m - 1
      OBVIOUS
    <3>2. f = [ix \in 0..k |-> IF ix = 0 THEN row ELSE ComparedWith(doors, f[ix - 1], ix)]
      BY <1>4, <3>1 DEF IsCompared
    <3> QED  BY <3>1, <3>2
  <2>2. \A ix \in 0..m : g[ix] = IF ix = 0 THEN row ELSE ComparedWith(doors, g[ix - 1], ix)
    <3> SUFFICES ASSUME NEW ix \in 0..m
                 PROVE  g[ix] = IF ix = 0 THEN row ELSE ComparedWith(doors, g[ix - 1], ix)
      OBVIOUS
    <3>1. CASE ix = m
      <4>1. g[m - 1] = f[m - 1] /\ g[m] = ComparedWith(doors, f[m - 1], m)
        BY <1>3, <1>5
      <4> QED  BY <1>2, <3>1, <4>1
    <3>2. CASE ix # m
      <4>1. ix \in 0..m - 1 /\ g[ix] = f[ix] /\ (ix # 0 => g[ix - 1] = f[ix - 1])
        BY <3>2, <1>3, <1>5
      <4> QED  BY <4>1, <2>1
    <3> QED  BY <3>1, <3>2
  <2> QED  BY <2>2, <1>5 DEF IsCompared
<1> QED  BY <1>6

LEMMA ComparesAll ==
    ASSUME NEW P \in SUBSET Nat, NEW doors \in Seq(P), Ascending(doors), NEW s \in Seq(P), NEW p \in 0..Len(s),
           NEW value, NEW original, NEW modified, NEW f,
           IsCompared(f, doors, SelectRow(s, p, value, original, modified), Len(doors))
    PROVE  \E t, q : /\ f[Len(doors)] = SelectRow(t, q, value, original, modified)
                     /\ ComparedTo(Len(doors), s, p, t, q, doors, P)
<1> DEFINE Good(n) == \E t, q : f[n] = SelectRow(t, q, value, original, modified) /\ ComparedTo(n, s, p, t, q, doors, P)
           T == {n \in 0..Len(doors) : ~Good(n)}
<1>0. Len(doors) \in Nat
  BY LenProperties
<1>1. \A n \in 0..Len(doors) :
          f[n] = IF n = 0 THEN SelectRow(s, p, value, original, modified) ELSE ComparedWith(doors, f[n - 1], n)
  BY DEF IsCompared
<1>2. Good(0)
  <2>1. f[0] = SelectRow(s, p, value, original, modified)
    BY <1>0, <1>1
  <2>2. ComparedTo(0, s, p, s, p, doors, P)
    <3>1. Len(s) \in Nat /\ DOMAIN s = 1..Len(s)
      BY LenProperties
    <3> QED  BY <3>1 DEF ComparedTo
  <2> QED  BY <2>1, <2>2
<1>3. ASSUME NEW n \in 1..Len(doors), Good(n - 1) PROVE Good(n)
  <2>1. PICK t, q : f[n - 1] = SelectRow(t, q, value, original, modified) /\ ComparedTo(n - 1, s, p, t, q, doors, P)
    BY <1>3
  <2>2. NextCompared(n, s, p, ComparedWith(doors, SelectRow(t, q, value, original, modified), n), value, original, modified, doors, P)
    BY <2>1, ComparesOne, Zenon
  <2>3. f[n] = ComparedWith(doors, f[n - 1], n)
    BY <1>0, <1>1
  <2> QED  BY <2>1, <2>2, <2>3 DEF NextCompared
<1>4. Good(Len(doors))
  <2> SUFFICES ASSUME T # {} PROVE FALSE
    BY <1>0
  <2>1. PICK n \in T : \A m \in T : n <= m
    <3>1. T \subseteq Nat
      BY <1>0
    <3> HIDE DEF T
    <3> QED  BY <3>1, LeastNumber
  <2>2. n \in 1..Len(doors) /\ n - 1 \in 0..Len(doors) /\ n - 1 \notin T /\ ~Good(n)
    <3> HIDE DEF Good
    <3> QED  BY <1>0, <1>2, <2>1
  <2>3. Good(n - 1)
    <3> HIDE DEF Good
    <3> QED  BY <2>2
  <2> QED  BY <1>3, <2>2, <2>3
<1> QED  BY <1>4

\* What is left over is cut off: the options are the doors, and what was selected is unless its door
\* has gone.
LEMMA CutToDoors ==
    ASSUME NEW P \in SUBSET Nat, NEW doors \in Seq(P), Ascending(doors), NEW s, NEW p, NEW t, NEW q,
           ComparedTo(Len(doors), s, p, t, q, doors, P), NEW r, r = IF q > Len(doors) THEN 0 ELSE q
    PROVE  /\ SubSeq(t, 1, Len(doors)) = doors /\ r \in 0..Len(doors)
           /\ Ascending(s) /\ Range(s) \subseteq Range(doors) => Picked(doors, r) = Picked(s, p)
<1>1. /\ Len(doors) \in Nat /\ DOMAIN doors = 1..Len(doors) /\ t \in Seq(P) /\ Len(t) \in Nat /\ DOMAIN t = 1..Len(t)
      /\ Len(doors) <= Len(t) /\ q \in 0..Len(t) /\ \A i \in 1..Len(doors) : t[i] = doors[i]
      /\ Picked(t, q) = Picked(s, p)
  BY LenProperties DEF ComparedTo
<1>2. PICK cut : cut = SubSeq(t, 1, Len(doors))
  OBVIOUS
<1>3. cut = doors
  <2>0. 1 \in Nat \ {0}
    OBVIOUS
  <2>1. cut \in Seq(P) /\ Slice(cut, t, 1, Len(doors))
    BY <1>1, <1>2, <2>0, SliceIs, Zenon
  <2>2. Len(cut) = Len(doors) /\ DOMAIN cut = 1..Len(doors) /\ \A j \in 1..Len(doors) : cut[j] = t[1 + j - 1]
    BY <1>1, <2>1, LenProperties DEF Slice
  <2>3. \A j \in 1..Len(doors) : cut[j] = doors[j]
    BY <1>1, <2>2
  <2> QED  BY <2>1, <2>2, <2>3, SeqEqual
<1>4. r \in 0..Len(doors)
  BY <1>1
<1>5. ASSUME Ascending(s), Range(s) \subseteq Range(doors) PROVE Picked(doors, r) = Picked(s, p)
  <2>1. Ascending(t) /\ Range(t) \subseteq Range(doors)
    BY <1>5 DEF ComparedTo
  <2>2. OnceEach(t, P)
    <3>1. t \in Seq(Int)
      <4>1. P \subseteq Int
        OBVIOUS
      <4> QED  BY <1>1, <4>1, SeqMonotonic
    <3> QED  BY <1>1, <2>1, <3>1, AscendingOnce DEF OnceEach
  <2>3. Len(t) <= Len(doors)
    BY <2>1, <2>2, AsLong
  <2>4. r = q
    BY <1>1, <2>3
  <2> QED  BY <1>1, <2>3, <2>4 DEF Picked
<1> QED  BY <1>2, <1>3, <1>4, <1>5

=============================================================================
