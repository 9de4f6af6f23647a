-------------------------- MODULE TagAnalystProofs --------------------------
(***************************************************************************)
(* The tags that the scan finds and the groups of titles, for pages of any  *)
(* width with any number of lines.                                          *)
(***************************************************************************)
EXTENDS TagAnalyst, FiniteSetTheorems, TLAPS

\* The columns from left to right.
Increasing(s) == \A a, b \in DOMAIN s : a < b => s[a] < s[b]

\* analyst is at work on page, with its tags.
Working == pc \in {"level", "scan", "merge"}

\* The columns of the level that is scanned, all of them and in order.
CoordOK ==
    /\ page \in [w : Nat \ {0}, base : Int, lines : Seq(Quads)]
    /\ level \in Nat
    /\ Increasing(coord)
    /\ coord = <<>> => m = 1
    /\ pc = "scan" =>
          level > 0 /\ Range(coord) = {c \in 0 .. page.w - 1 : tag_result(c) = level}

TagType == [level : Nat, left : Nat, right : Nat, len : Nat]

\* What is said of tags is said of any list of them, so of the next one too.
Shaped(T)    == \A n \in DOMAIN T : T[n].len > SHORT_TAG /\ T[n].right - T[n].left >= T[n].len
Apart(T)     == \A n, k \in DOMAIN T : n < k =>
                    /\ T[n].left # T[k].left
                    /\ T[n].level = T[k].level => T[n].right <= T[k].left
OfLevels(T)  == \A n \in DOMAIN T : T[n].level \in 1 .. level
                                    /\ tag_result(T[n].left) = T[n].level
EndBefore(T, x) == \A n \in DOMAIN T :
                    T[n].level = level => coord # <<>> /\ T[n].right <= coord[x]

\* A tag of level l holds the columns a to b.
Holds(T, a, b, l) ==
    \E n \in DOMAIN T : T[n].level = l /\ T[n].left <= a /\ b <= T[n].right

\* A tag begins in a column of its level; while its level is scanned, the tags
\* of it end before the interval that is open.
TagsOK ==
    /\ tag \in Seq(TagType)
    /\ Working => OfLevels(tag)
    /\ pc = "scan" => EndBefore(tag, tmp_left_idx)

\* The columns at the indices p to q are neighbours.
Run(p, q) == coord[q] - coord[p] = q - p

\* The run that ends at m lies in the open interval.
LastRun ==
    pc = "scan" /\ coord # <<>> =>
        \A p \in 1 .. m : Run(p, m) => tmp_left_idx <= p /\ (p < m => tmp_right_idx = m)

\* A long run that was passed lies in the open interval or in a tag.
Pending ==
    pc = "scan" /\ coord # <<>> =>
        \A p, q \in 1 .. m :
            q - p > SHORT_TAG /\ Run(p, q) =>
                \/ tmp_left_idx <= p /\ q <= tmp_right_idx
                \/ Holds(tag, coord[p], coord[q], level)

\* The long regions of the levels that were scanned lie in tags.
Finished ==
    Working =>
        \A l \in 1 .. level : l < level \/ pc # "scan" =>
            \A a, b \in 0 .. page.w - 1 :
                b - a > SHORT_TAG /\ Region(a, b, l) => Holds(tag, a, b, l)

\* The inductive invariant of tag_analyst.
TagInv == TypeOK /\ CoordOK /\ TagsOK /\ TagsApart /\ LastRun /\ Pending /\ Finished

\* The inductive invariant of first_tag_merge: its groups are not empty.
TitleInv ==
    /\ CloseTogether
    /\ pc = "merge" =>
          /\ i \in Nat \ {0}
          /\ first \in Seq(Quads)
          /\ result_boxes \in Seq(Seq(Quads) \ {<<>>})
          /\ first # <<>> => result_boxes # <<>>

-----------------------------------------------------------------------------
(* Sequences.                                                                *)

\* Induction: a set of naturals with 0 and every successor has them all.
LEMMA SetInduction ==
    ASSUME NEW S \in SUBSET Nat, 0 \in S, \A n \in S : n + 1 \in S
    PROVE  S = Nat
<1> SUFFICES ASSUME Nat \ S # {} PROVE FALSE
  OBVIOUS
<1>1. IsWellFoundedOn(OpToRel(<, Nat), Nat)
  BY NatLessThanWellFounded
<1>2. PICK n \in Nat \ S : \A k \in Nat \ S : ~(<<k, n>> \in OpToRel(<, Nat))
  BY <1>1, WFMin
<1>3. n - 1 \in Nat /\ n - 1 < n /\ (n - 1) + 1 = n
  OBVIOUS
<1>4. n - 1 \in S
  BY <1>2, <1>3 DEF OpToRel
<1> QED BY <1>2, <1>3, <1>4

\* push_back adds one element to what a list holds, behind the others.
LEMMA Appended ==
    ASSUME NEW D, NEW s \in Seq(D), NEW b \in D
    PROVE  /\ Append(s, b) \in Seq(D)
           /\ DOMAIN s = 1 .. Len(s) /\ Len(s) \in Nat
           /\ DOMAIN Append(s, b) = 1 .. (Len(s) + 1)
           /\ Append(s, b)[Len(s) + 1] = b
           /\ \A n \in DOMAIN s : Append(s, b)[n] = s[n]
           /\ \A n \in DOMAIN Append(s, b) : n \in DOMAIN s \/ n = Len(s) + 1
           /\ Range(Append(s, b)) = Range(s) \cup {b}
<1> DEFINE t == Append(s, b)
<1>1. /\ t \in Seq(D) /\ DOMAIN s = 1 .. Len(s) /\ Len(s) \in Nat
      /\ DOMAIN t = 1 .. (Len(s) + 1) /\ t[Len(s) + 1] = b
      /\ \A n \in 1 .. Len(s) : t[n] = s[n]
  OBVIOUS
<1>2. \A n \in 1 .. (Len(s) + 1) : n \in 1 .. Len(s) \/ n = Len(s) + 1
  BY <1>1
<1>3. 1 .. Len(s) \subseteq 1 .. (Len(s) + 1) /\ Len(s) + 1 \in 1 .. (Len(s) + 1)
  BY <1>1
<1> HIDE DEF t
<1>4. Range(t) = Range(s) \cup {b}
  BY <1>1, <1>2, <1>3 DEF Range
<1> QED BY <1>1, <1>2, <1>4 DEF t

\* A round of the recursion of Where.
WhereStep(s, S, f, k) ==
    IF k = 0 THEN <<>> ELSE IF k \in S THEN Append(f[k - 1], s[k]) ELSE f[k - 1]

\* The recursion of Where defines a function.
LEMMA WhereDefined ==
    ASSUME NEW s, NEW S, NEW n \in Nat
    PROVE  \E f : f = [k \in 0 .. n |-> WhereStep(s, S, f, k)]
<1> DEFINE E == {j \in Nat : \E f : f = [k \in 0 .. j |-> WhereStep(s, S, f, k)]}
<1>1. 0 \in E
  <2> DEFINE f == [k \in 0 .. 0 |-> <<>>]
  <2>1. f = [k \in 0 .. 0 |-> WhereStep(s, S, f, k)]
    BY DEF WhereStep
  <2> QED BY <2>1, Zenon
<1>2. ASSUME NEW j \in E PROVE j + 1 \in E
  <2>1. PICK f : f = [k \in 0 .. j |-> WhereStep(s, S, f, k)]
    OBVIOUS
  <2> DEFINE h == [k \in 0 .. (j + 1) |-> WhereStep(s, S, f, k)]
  <2>2. \A k \in 0 .. (j + 1) : WhereStep(s, S, f, k) = WhereStep(s, S, h, k)
    <3> SUFFICES ASSUME NEW k \in 0 .. (j + 1), k # 0 PROVE f[k - 1] = h[k - 1]
      BY DEF WhereStep
    <3>1. k - 1 \in 0 .. j /\ k - 1 \in 0 .. (j + 1)
      OBVIOUS
    <3> QED BY <2>1, <3>1
  <2>3. h = [k \in 0 .. (j + 1) |-> WhereStep(s, S, h, k)]
    BY <2>2
  <2> HIDE DEF h
  <2>4. j + 1 \in Nat
    OBVIOUS
  <2> QED BY <2>3, <2>4
<1>3. E = Nat
  BY <1>1, <1>2, SetInduction
<1> QED BY <1>3

\* Where keeps the members at the indices, all of them, in their order.
LEMMA WhereFacts ==
    ASSUME NEW X, NEW s \in Seq(X), NEW S
    PROVE  /\ Where(s, S) \in Seq(X)
           /\ Range(Where(s, S)) = {s[k] : k \in S \cap DOMAIN s}
           /\ X \subseteq Nat /\ Increasing(s) => Increasing(Where(s, S))
<1>1. PICK N \in Nat : N = Len(s) /\ DOMAIN s = 1 .. N
  OBVIOUS
<1> DEFINE u == CHOOSE f : f = [k \in 0 .. N |-> WhereStep(s, S, f, k)]
<1>2. Where(s, S) = u[N]
  BY <1>1, Zenon DEF Where, WhereStep
<1>3. u = [k \in 0 .. N |-> WhereStep(s, S, u, k)]
  <2>1. \E f : f = [k \in 0 .. N |-> WhereStep(s, S, f, k)]
    BY WhereDefined
  <2> QED BY <2>1, Zenon
<1> HIDE DEF u
<1> DEFINE Good(n) == /\ u[n] \in Seq(X)
                      /\ Range(u[n]) = {s[k] : k \in S \cap (1 .. n)}
                      /\ X \subseteq Nat /\ Increasing(s) => Increasing(u[n])
           G == {n \in Nat : n <= N => Good(n)}
<1>4. 0 \in G
  <2>1. u[0] = <<>>
    BY <1>3 DEF WhereStep
  <2>2. DOMAIN u[0] = {} /\ 1 .. 0 = {}
    BY <2>1
  <2>3. Range(u[0]) = {}
    BY <2>2 DEF Range
  <2>4. u[0] \in Seq(X) /\ Range(u[0]) = {s[k] : k \in S \cap (1 .. 0)}
    BY <2>1, <2>2, <2>3
  <2>5. Increasing(u[0])
    BY <2>2 DEF Increasing
  <2> QED BY <2>4, <2>5
<1>5. ASSUME NEW n \in G PROVE n + 1 \in G
  <2> SUFFICES ASSUME n + 1 <= N PROVE Good(n + 1)
    OBVIOUS
  <2>1. PICK v : v = u[n]
    OBVIOUS
  <2>2. /\ v \in Seq(X) /\ Range(v) = {s[k] : k \in S \cap (1 .. n)}
        /\ X \subseteq Nat /\ Increasing(s) => Increasing(v)
    BY <2>1
  <2>3. u[n + 1] = IF n + 1 \in S THEN Append(v, s[n + 1]) ELSE v
    <3>1. n + 1 \in 0 .. N /\ n + 1 # 0 /\ (n + 1) - 1 = n
      OBVIOUS
    <3> QED BY <1>3, <2>1, <3>1 DEF WhereStep
  <2>4. /\ 1 .. (n + 1) = (1 .. n) \cup {n + 1}
        /\ n + 1 \in DOMAIN s /\ 1 .. n \subseteq DOMAIN s /\ s[n + 1] \in X
        /\ \A k \in 1 .. n : k < n + 1
    BY <1>1
  <2>5. CASE n + 1 \notin S
    BY <2>2, <2>3, <2>4, <2>5
  <2>6. CASE n + 1 \in S
    <3>1. PICK b \in X : b = s[n + 1]
      BY <2>4
    <3>2. PICK t : t = Append(v, b)
      OBVIOUS
    <3>3. /\ t \in Seq(X) /\ DOMAIN t = 1 .. (Len(v) + 1) /\ t[Len(v) + 1] = b
          /\ DOMAIN v = 1 .. Len(v) /\ Len(v) \in Nat
          /\ \A k \in DOMAIN v : t[k] = v[k]
          /\ \A k \in DOMAIN t : k \in DOMAIN v \/ k = Len(v) + 1
          /\ Range(t) = Range(v) \cup {b}
      BY <2>2, <3>2, Appended
    <3>4. Range(t) = {s[k] : k \in S \cap (1 .. (n + 1))}
      BY <2>2, <2>4, <2>6, <3>1, <3>3
    <3>5. ASSUME X \subseteq Nat, Increasing(s) PROVE Increasing(t)
      <4>1. \A k \in DOMAIN v : v[k] < b
        <5> TAKE k \in DOMAIN v
        <5>1. v[k] \in Range(v)
          BY DEF Range
        <5>2. PICK j \in 1 .. n : v[k] = s[j]
          BY <2>2, <5>1
        <5> QED BY <2>4, <3>1, <3>5, <5>2 DEF Increasing
      <4> SUFFICES ASSUME NEW a \in DOMAIN t, NEW c \in DOMAIN t, a < c PROVE t[a] < t[c]
        BY DEF Increasing
      <4>2. a \in DOMAIN v
        BY <3>3
      <4>3. CASE c \in DOMAIN v
        BY <2>2, <3>3, <3>5, <4>2, <4>3 DEF Increasing
      <4>4. CASE c = Len(v) + 1
        BY <3>3, <4>1, <4>2, <4>4
      <4> QED BY <3>3, <4>3, <4>4
    <3>6. u[n + 1] = t
      BY <2>3, <2>6, <3>1, <3>2
    <3> QED BY <3>3, <3>4, <3>5, <3>6
  <2> QED BY <2>5, <2>6
<1>6. G = Nat
  BY <1>4, <1>5, SetInduction
<1>7. Good(N)
  <2> HIDE DEF Good, G
  <2>1. N \in G /\ N <= N
    BY <1>6
  <2> QED BY <2>1 DEF G
<1> QED BY <1>1, <1>2, <1>7

\* Columns in order are as far apart as their indices or further.
LEMMA Spread ==
    ASSUME NEW s \in Seq(Nat), Increasing(s), NEW a \in DOMAIN s, NEW b \in DOMAIN s, a <= b
    PROVE  s[b] - s[a] >= b - a
<1>1. PICK N \in Nat : DOMAIN s = 1 .. N
  OBVIOUS
<1>2. \A n \in 1 .. N : s[n] \in Nat
  BY <1>1
<1> DEFINE G == {d \in Nat : a + d <= N => s[a + d] - s[a] >= d}
<1>3. a \in 1 .. N /\ b \in 1 .. N /\ b - a \in Nat /\ a + (b - a) = b
  BY <1>1
<1>4. 0 \in G
  <2>1. a + 0 = a /\ s[a] \in Nat
    BY <1>2, <1>3
  <2>2. s[a + 0] - s[a] >= 0
    BY <2>1
  <2> QED BY <2>2
<1>5. ASSUME NEW d \in G PROVE d + 1 \in G
  <2> SUFFICES ASSUME a + (d + 1) <= N PROVE s[a + (d + 1)] - s[a] >= d + 1
    OBVIOUS
  <2>1. a + d \in 1 .. N /\ a + (d + 1) \in 1 .. N /\ a + d < a + (d + 1) /\ a + d <= N
    <3>1. d \in Nat /\ a \in Nat /\ a >= 1
      BY <1>3
    <3>2. \A x, y, z \in Nat : x >= 1 /\ x + (y + 1) <= z =>
             x + y \in 1 .. z /\ x + (y + 1) \in 1 .. z /\ x + y < x + (y + 1) /\ x + y <= z
      OBVIOUS
    <3> HIDE DEF G
    <3> QED BY <3>1, <3>2
  <2>2. s[a + d] < s[a + (d + 1)]
    <3>1. \A x, y \in 1 .. N : x < y => s[x] < s[y]
      BY <1>1 DEF Increasing
    <3> HIDE DEF G
    <3> QED BY <2>1, <3>1
  <2>3. s[a + d] - s[a] >= d
    BY <2>1
  <2>4. s[a] \in Nat /\ s[a + d] \in Nat /\ s[a + (d + 1)] \in Nat
    BY <1>2, <1>3, <2>1
  <2>5. PICK x, y, z \in Nat : x = s[a] /\ y = s[a + d] /\ z = s[a + (d + 1)]
    BY <2>4
  <2>6. d \in Nat /\ y < z /\ y - x >= d
    BY <2>2, <2>3, <2>5
  <2>7. z - x >= d + 1
    <3> HIDE DEF G
    <3> QED BY <2>6
  <2> QED BY <2>5, <2>7
<1>6. G = Nat
  BY <1>4, <1>5, SetInduction
<1>7. b - a \in G
  <2> HIDE DEF G
  <2> QED BY <1>3, <1>6
<1> QED BY <1>3, <1>7

\* All columns from a to b are in s.
AllIn(s, a, b) == \A c \in a .. b : c \in Range(s)

\* Neighbouring columns have neighbouring indices.
LEMMA RegionIsRun ==
    ASSUME NEW s \in Seq(Nat), Increasing(s), NEW a \in Nat, NEW b \in Nat, a <= b,
           AllIn(s, a, b)
    PROVE  \E p, q \in DOMAIN s : s[p] = a /\ s[q] = b /\ q - p = b - a
<1>1. PICK N \in Nat : DOMAIN s = 1 .. N
  OBVIOUS
<1>2. \A n \in 1 .. N : s[n] \in Nat
  BY <1>1
<1>3. \A c \in a .. b : \E n \in 1 .. N : s[n] = c
  BY <1>1 DEF Range, AllIn
<1>4. PICK p \in 1 .. N : s[p] = a
  BY <1>3
<1> DEFINE G == {d \in Nat : a + d <= b => \E q \in 1 .. N : s[q] = a + d /\ q >= p + d}
<1>5. 0 \in G
  BY <1>4
<1>6. ASSUME NEW d \in G PROVE d + 1 \in G
  <2> SUFFICES ASSUME a + (d + 1) <= b
               PROVE  \E q \in 1 .. N : s[q] = a + (d + 1) /\ q >= p + (d + 1)
    OBVIOUS
  <2>1. PICK n \in 1 .. N : s[n] = a + d /\ n >= p + d
    OBVIOUS
  <2>2. PICK q \in 1 .. N : s[q] = a + (d + 1)
    <3>1. a + (d + 1) \in a .. b
      OBVIOUS
    <3> QED BY <1>3, <3>1
  <2>3. ~(q <= n)
    <3> SUFFICES ASSUME q <= n PROVE FALSE
      OBVIOUS
    <3>1. q = n \/ s[q] < s[n]
      <4>1. \A x, y \in 1 .. N : x < y => s[x] < s[y]
        BY <1>1, Zenon DEF Increasing
      <4>2. q = n \/ q < n
        OBVIOUS
      <4> QED BY <4>1, <4>2
    <3> QED BY <2>1, <2>2, <3>1
  <2> QED BY <2>1, <2>2, <2>3
<1>7. G = Nat
  BY <1>5, <1>6, SetInduction
<1>8. b - a \in G /\ a + (b - a) = b /\ b - a \in Nat
  <2> HIDE DEF G
  <2> QED BY <1>7
<1>9. PICK q \in 1 .. N : s[q] = b /\ q >= p + (b - a)
  BY <1>8
<1> HIDE DEF G
<1>10. p <= q /\ p \in DOMAIN s /\ q \in DOMAIN s
  BY <1>1, <1>4, <1>8, <1>9
<1>11. s[q] - s[p] >= q - p
  BY <1>10, Spread
<1>12. q - p = b - a
  BY <1>4, <1>9, <1>11
<1> QED BY <1>4, <1>9, <1>10, <1>12

\* np.where answers the columns of a level, all of them and in order.
LEMMA ColumnsFacts ==
    ASSUME page.w \in Nat, NEW l
    PROVE  /\ Columns(l) \in Seq(Nat)
           /\ Increasing(Columns(l))
           /\ Range(Columns(l)) = {c \in 0 .. page.w - 1 : tag_result(c) = l}
<1>1. PICK w \in Nat : w = page.w
  OBVIOUS
<1>2. PICK s : s = [n \in 1 .. w |-> n - 1]
  OBVIOUS
<1>3. s \in Seq(Nat) /\ DOMAIN s = 1 .. w
  BY <1>2
<1>4. Increasing(s)
  BY <1>2 DEF Increasing
<1>5. PICK S : S = {n \in 1 .. w : tag_result(n - 1) = l}
  OBVIOUS
<1>6. Columns(l) = Where(s, S)
  BY <1>1, <1>2, <1>5 DEF Columns
<1>7. {s[k] : k \in S \cap DOMAIN s} = {c \in 0 .. w - 1 : tag_result(c) = l}
  <2>1. ASSUME NEW k \in S \cap DOMAIN s
        PROVE  s[k] \in {c \in 0 .. w - 1 : tag_result(c) = l}
    <3>1. s[k] = k - 1 /\ tag_result(k - 1) = l /\ k - 1 \in 0 .. w - 1
      BY <1>2, <1>3, <1>5
    <3> QED BY <3>1
  <2>2. ASSUME NEW c \in 0 .. w - 1, tag_result(c) = l
        PROVE  \E k \in S \cap DOMAIN s : s[k] = c
    <3>1. c + 1 \in 1 .. w /\ (c + 1) - 1 = c
      OBVIOUS
    <3>2. c + 1 \in S
      BY <1>5, <2>2, <3>1
    <3> QED BY <1>2, <1>3, <3>1, <3>2
  <2> QED BY <2>1, <2>2
<1>8. /\ Where(s, S) \in Seq(Nat)
      /\ Range(Where(s, S)) = {s[k] : k \in S \cap DOMAIN s}
      /\ Nat \subseteq Nat /\ Increasing(s) => Increasing(Where(s, S))
  BY <1>3, WhereFacts
<1> QED BY <1>1, <1>4, <1>6, <1>7, <1>8

-----------------------------------------------------------------------------
(* The tags.                                                                 *)

\* The indices of the scan lie within the columns.
LEMMA ScanTypes ==
    ASSUME TagInv, pc = "scan"
    PROVE  /\ SHORT_TAG \in Nat /\ level \in Nat \ {0} /\ m \in Nat \ {0}
           /\ coord \in Seq(Nat) /\ Increasing(coord)
           /\ DOMAIN coord = 1 .. Len(coord) /\ Len(coord) \in Nat
           /\ tmp_left_idx \in 1 .. m /\ tmp_right_idx \in 1 .. m
           /\ coord = <<>> => tmp_left_idx = tmp_right_idx
           /\ coord # <<>> => /\ tmp_left_idx <= tmp_right_idx /\ m <= Len(coord)
                              /\ 1 .. m \subseteq DOMAIN coord
                              /\ \A x \in 1 .. m : coord[x] \in Nat
<1>1. /\ level \in Nat \ {0} /\ m \in Nat \ {0} /\ SHORT_TAG \in Nat
      /\ coord \in Seq(Nat) /\ Increasing(coord)
      /\ tmp_left_idx \in 1 .. m /\ tmp_right_idx \in 1 .. m
  BY TagBounds DEF TagInv, TypeOK, CoordOK
<1>2. DOMAIN coord = 1 .. Len(coord) /\ Len(coord) \in Nat
  BY <1>1
<1>3. ASSUME coord = <<>> PROVE tmp_left_idx = tmp_right_idx
  <2>1. m = 1
    BY <1>3 DEF TagInv, CoordOK
  <2> QED BY <1>1, <2>1
<1>4. ASSUME coord # <<>> PROVE tmp_left_idx <= tmp_right_idx /\ m <= Len(coord)
  BY <1>4 DEF TagInv, TypeOK
<1>5. ASSUME coord # <<>> PROVE 1 .. m \subseteq DOMAIN coord
  BY <1>1, <1>2, <1>4, <1>5
<1>6. ASSUME coord # <<>> PROVE \A x \in 1 .. m : coord[x] \in Nat
  BY <1>1, <1>5, <1>6
<1> QED BY <1>1, <1>2, <1>3, <1>4, <1>5, <1>6

\* The columns at the indices of the scan are in order.
LEMMA ScanOrder ==
    ASSUME TagInv, pc = "scan", coord # <<>>, NEW x \in 1 .. m, NEW y \in 1 .. m, x <= y
    PROVE  coord[x] <= coord[y] /\ coord[y] - coord[x] >= y - x
<1>1. x \in DOMAIN coord /\ y \in DOMAIN coord /\ coord \in Seq(Nat) /\ Increasing(coord)
  BY ScanTypes
<1>2. coord[y] - coord[x] >= y - x
  BY <1>1, Spread
<1>3. coord[x] \in Nat /\ coord[y] \in Nat
  BY ScanTypes
<1> QED BY <1>2, <1>3

\* The list with the open interval, if that is long enough: it keeps what holds of
\* the tags, and no long run is left out.
LEMMA TaggedFacts ==
    ASSUME TagInv, pc = "scan"
    PROVE  /\ Tagged \in Seq(TagType)
           /\ Shaped(Tagged) /\ Apart(Tagged) /\ OfLevels(Tagged)
           /\ EndBefore(Tagged, tmp_right_idx)
           /\ \A a, b, l : Holds(tag, a, b, l) => Holds(Tagged, a, b, l)
           /\ coord # <<>> => \A p, q \in 1 .. m :
                 q - p > SHORT_TAG /\ Run(p, q) => Holds(Tagged, coord[p], coord[q], level)
<1>1. /\ tag \in Seq(TagType) /\ Shaped(tag) /\ Apart(tag) /\ OfLevels(tag)
      /\ EndBefore(tag, tmp_left_idx)
  BY DEF TagInv, TypeOK, TagsOK, TagsApart, Shaped, Apart, Working
<1>2. /\ tmp_left_idx \in 1 .. m /\ tmp_right_idx \in 1 .. m /\ m \in Nat
      /\ level \in Nat \ {0} /\ SHORT_TAG \in Nat
  BY ScanTypes
<1>3. coord # <<>> => /\ coord[tmp_left_idx] \in Nat /\ coord[tmp_right_idx] \in Nat
                      /\ coord[tmp_left_idx] <= coord[tmp_right_idx]
                      /\ coord[tmp_right_idx] - coord[tmp_left_idx]
                            >= tmp_right_idx - tmp_left_idx
  BY <1>2, ScanTypes, ScanOrder
<1>4. \A n \in DOMAIN tag : tag[n] \in TagType
  BY <1>1
<1>5. \A t \in TagType : t.left \in Nat /\ t.right \in Nat /\ t.level \in Nat /\ t.len \in Nat
  BY DEF TagType
<1>6. EndBefore(tag, tmp_right_idx)
  <2> SUFFICES ASSUME NEW n \in DOMAIN tag, tag[n].level = level
               PROVE  coord # <<>> /\ tag[n].right <= coord[tmp_right_idx]
    BY DEF EndBefore
  <2>1. coord # <<>> /\ tag[n].right <= coord[tmp_left_idx]
    BY <1>1 DEF EndBefore
  <2> QED BY <1>3, <1>4, <1>5, <2>1
<1>7. CASE ~(tmp_len > SHORT_TAG)
  <2>1. Tagged = tag
    BY <1>7 DEF Tagged
  <2>2. ASSUME coord # <<>>, NEW p \in 1 .. m, NEW q \in 1 .. m, q - p > SHORT_TAG, Run(p, q)
        PROVE  Holds(tag, coord[p], coord[q], level)
    <3>1. ~(tmp_left_idx <= p /\ q <= tmp_right_idx)
      BY <1>2, <1>7, <2>2 DEF tmp_len
    <3> QED BY <2>2, <3>1 DEF TagInv, Pending
  <2> QED BY <1>1, <1>6, <2>1, <2>2
<1>8. CASE tmp_len > SHORT_TAG
  <2>1. coord # <<>>
    BY <1>2, <1>8, ScanTypes DEF tmp_len
  <2>2. PICK c, d \in Nat : c = coord[tmp_left_idx] /\ d = coord[tmp_right_idx]
    BY <1>3, <2>1
  <2>3. tmp_len \in Nat /\ c < d /\ d - c >= tmp_len
    <3>1. tmp_len \in Int /\ tmp_len > 0
      BY <1>2, <1>8 DEF tmp_len
    <3>2. d - c >= tmp_len
      BY <1>3, <2>1, <2>2 DEF tmp_len
    <3> QED BY <3>1, <3>2
  <2>4. PICK new : new = [level |-> level, left |-> c, right |-> d, len |-> tmp_len]
    OBVIOUS
  <2>5. /\ new \in TagType /\ new.level = level /\ new.left = c /\ new.right = d
        /\ new.len = tmp_len
    BY <1>2, <2>2, <2>3, <2>4 DEF TagType
  <2>6. Tagged = Append(tag, new)
    BY <1>8, <2>2, <2>4 DEF Tagged
  <2>7. PICK T : T = Tagged
    OBVIOUS
  <2>8. PICK z : z = Len(tag) + 1
    OBVIOUS
  <2>9. /\ T \in Seq(TagType) /\ z \in Nat
        /\ z \in DOMAIN T /\ T[z] = new
        /\ \A n \in DOMAIN tag : n \in DOMAIN T /\ T[n] = tag[n] /\ n \in Nat /\ n < z
        /\ \A n \in DOMAIN T : n \in DOMAIN tag \/ n = z
    <3>1. /\ T \in Seq(TagType) /\ DOMAIN tag = 1 .. Len(tag) /\ Len(tag) \in Nat
          /\ DOMAIN T = 1 .. (Len(tag) + 1) /\ T[Len(tag) + 1] = new
          /\ \A n \in DOMAIN tag : T[n] = tag[n]
          /\ \A n \in DOMAIN T : n \in DOMAIN tag \/ n = Len(tag) + 1
      BY <1>1, <2>5, <2>6, <2>7, Appended
    <3> QED BY <2>8, <3>1
  <2>10. Shaped(T)
    BY <1>1, <1>8, <2>3, <2>5, <2>9 DEF Shaped
  <2>11. tag_result(c) = level
    <3>1. c \in Range(coord)
      BY <1>2, <2>1, <2>2, ScanTypes DEF Range
    <3> QED BY <3>1 DEF TagInv, CoordOK
  <2>12. OfLevels(T)
    BY <1>1, <1>2, <2>5, <2>9, <2>11 DEF OfLevels
  <2>13. EndBefore(T, tmp_right_idx)
    BY <1>6, <2>1, <2>2, <2>5, <2>9 DEF EndBefore
  <2>14. Apart(T)
    <3> SUFFICES ASSUME NEW n \in DOMAIN T, NEW k \in DOMAIN T, n < k
                 PROVE  /\ T[n].left # T[k].left
                        /\ T[n].level = T[k].level => T[n].right <= T[k].left
      BY DEF Apart
    <3>1. CASE k \in DOMAIN tag
      <4>1. n \in DOMAIN tag
        BY <2>9, <3>1
      <4> QED BY <1>1, <2>9, <3>1, <4>1 DEF Apart
    <3>2. CASE k = z
      <4>1. n \in DOMAIN tag /\ T[n] = tag[n] /\ T[k] = new
        BY <2>9, <3>2
      <4>2. CASE tag[n].level # level
        <5>1. tag_result(tag[n].left) # tag_result(c)
          BY <1>1, <2>11, <4>1, <4>2 DEF OfLevels
        <5> QED BY <2>5, <4>1, <4>2, <5>1
      <4>3. CASE tag[n].level = level
        <5>1. tag[n].right <= c /\ tag[n].len > SHORT_TAG
              /\ tag[n].right - tag[n].left >= tag[n].len
          BY <1>1, <2>2, <4>1, <4>3 DEF EndBefore, Shaped
        <5>2. tag[n].left \in Nat /\ tag[n].right \in Nat /\ tag[n].len \in Nat
          BY <1>4, <1>5, <4>1
        <5>3. tag[n].left # c
          BY <1>2, <5>1, <5>2
        <5> QED BY <2>5, <4>1, <5>1, <5>3
      <4> QED BY <4>2, <4>3
    <3> QED BY <2>9, <3>1, <3>2
  <2>15. \A a, b, l : Holds(tag, a, b, l) => Holds(T, a, b, l)
    BY <2>9 DEF Holds
  <2>16. ASSUME NEW p \in 1 .. m, NEW q \in 1 .. m, q - p > SHORT_TAG, Run(p, q)
         PROVE  Holds(T, coord[p], coord[q], level)
    <3>1. CASE tmp_left_idx <= p /\ q <= tmp_right_idx
      <4>1. c <= coord[p] /\ coord[q] <= d
        BY <1>2, <2>1, <2>2, <3>1, ScanOrder
      <4> QED BY <2>5, <2>9, <4>1 DEF Holds
    <3>2. CASE ~(tmp_left_idx <= p /\ q <= tmp_right_idx)
      <4>1. Holds(tag, coord[p], coord[q], level)
        BY <2>1, <2>16, <3>2 DEF TagInv, Pending
      <4> QED BY <2>15, <4>1
    <3> QED BY <3>1, <3>2
  <2> QED BY <2>7, <2>9, <2>10, <2>12, <2>13, <2>14, <2>15, <2>16
<1> QED BY <1>7, <1>8

\* The counts of lines are those of the page.
LEMMA CountsFrame == ASSUME page' = page PROVE \A c : tag_result(c)' = tag_result(c)
BY DEF tag_result

\* A step that leaves the scan and what it has found.
LEMMA QuietTags ==
    ASSUME TagInv, UNCHANGED scan_vars,
           page' \in [w : Nat \ {0}, base : Int, lines : Seq(Quads)],
           pc' \in {"idle", "measure", "level", "scan", "merge"},
           Working' => page' = page /\ Working /\ (pc' = "scan" <=> pc = "scan")
    PROVE  TagInv'
<1>1. UNCHANGED <<level, coord, m, tmp_left_idx, tmp_right_idx, tag>>
  BY DEF scan_vars
<1>2. pc' = "scan" => Working'
  BY DEF Working
<1>3. Working' => \A c : tag_result(c)' = tag_result(c)
  BY CountsFrame
<1>4. TypeOK'
  BY <1>1, <1>2 DEF TagInv, TypeOK, Working
<1>5. CoordOK'
  BY <1>1, <1>2, <1>3 DEF TagInv, CoordOK
<1>6. TagsOK'
  <2>1. Working' => OfLevels(tag)'
    BY <1>1, <1>3 DEF TagInv, TagsOK, OfLevels
  <2>2. pc' = "scan" => EndBefore(tag, tmp_left_idx)'
    BY <1>1, <1>2 DEF TagInv, TagsOK, EndBefore
  <2> QED BY <1>1, <2>1, <2>2 DEF TagInv, TagsOK
<1>7. TagsApart'
  BY <1>1 DEF TagInv, TagsApart
<1>8. LastRun' /\ Pending'
  BY <1>1, <1>2 DEF TagInv, LastRun, Pending, Run, Holds
<1>9. Finished'
  <2> SUFFICES ASSUME Working', NEW l \in 1 .. level, l < level \/ pc' # "scan",
                      NEW a \in 0 .. page'.w - 1, NEW b \in 0 .. page'.w - 1,
                      b - a > SHORT_TAG, Region(a, b, l)'
               PROVE  Holds(tag, a, b, l)
    BY <1>1 DEF Finished, Holds
  <2>1. page' = page /\ Working /\ (l < level \/ pc # "scan")
    OBVIOUS
  <2>2. Region(a, b, l)
    BY <1>3 DEF Region
  <2> QED BY <2>1, <2>2 DEF TagInv, Finished
<1> QED BY <1>4, <1>5, <1>6, <1>7, <1>8, <1>9 DEF TagInv

\* tag_analyst begins without tags.
LEMMA MeasureTags == TagInv /\ Measure => TagInv'
<1> SUFFICES ASSUME TagInv, Measure PROVE TagInv'
  OBVIOUS
<1>1. /\ level' = 0 /\ coord' = <<>> /\ m' = 1 /\ tmp_left_idx' = 1 /\ tmp_right_idx' = 1
      /\ tag' = <<>> /\ pc' = "level" /\ page' = page
  BY DEF Measure
<1>2. DOMAIN coord' = {} /\ DOMAIN tag' = {} /\ 1 .. level' = {}
  BY <1>1
<1>3. TypeOK'
  <2>1. /\ pc' \in {"idle", "measure", "level", "scan", "merge"} /\ coord' \in Seq(Nat)
        /\ m' \in Nat \ {0} /\ {tmp_left_idx', tmp_right_idx'} \subseteq 1 .. m'
    BY <1>1
  <2> QED BY <1>1, <1>2, <2>1 DEF TypeOK
<1>4. CoordOK'
  <2>1. page \in [w : Nat \ {0}, base : Int, lines : Seq(Quads)]
    BY DEF TagInv, CoordOK
  <2> QED BY <1>1, <1>2, <2>1 DEF CoordOK, Increasing
<1>5. TagsOK' /\ TagsApart'
  BY <1>1, <1>2 DEF TagsOK, TagsApart, OfLevels
<1>6. LastRun' /\ Pending' /\ Finished'
  BY <1>1, <1>2 DEF LastRun, Pending, Finished
<1> QED BY <1>3, <1>4, <1>5, <1>6 DEF TagInv

\* The scan of the next level begins.
LEMMA OpenTags == TagInv /\ OpenLevel => TagInv'
<1> SUFFICES ASSUME TagInv, OpenLevel PROVE TagInv'
  OBVIOUS
<1>1. /\ level' = level + 1 /\ coord' = Columns(level') /\ m' = 1
      /\ tmp_left_idx' = 1 /\ tmp_right_idx' = 1 /\ tag' = tag /\ page' = page
      /\ pc = "level" /\ pc' = "scan"
  BY DEF OpenLevel
<1>2. \A c : tag_result(c)' = tag_result(c)
  BY <1>1, CountsFrame
<1>3. level \in Nat /\ page.w \in Nat
  BY DEF TagInv, CoordOK
<1>4. /\ coord' \in Seq(Nat) /\ Increasing(coord')
      /\ Range(coord') = {c \in 0 .. page.w - 1 : tag_result(c) = level'}
  BY <1>1, <1>3, ColumnsFacts
<1>5. TypeOK'
  <2>1. coord' # <<>> => 1 <= Len(coord')
    BY <1>4
  <2>2. 1 \in 1 .. 1 /\ 1 \in Nat \ {0} /\ 1 <= 1
    OBVIOUS
  <2> QED BY <1>1, <1>4, <2>1, <2>2 DEF TagInv, TypeOK
<1>6. CoordOK'
  <2>1. level' \in Nat /\ level' > 0
    BY <1>1, <1>3
  <2> QED BY <1>1, <1>2, <1>4, <2>1 DEF TagInv, CoordOK, Increasing
<1>7. TagsOK'
  <2>1. OfLevels(tag) /\ tag \in Seq(TagType)
    BY <1>1 DEF TagInv, TagsOK, Working
  <2>2. 1 .. level \subseteq 1 .. level' /\ level' \notin 1 .. level
    BY <1>1, <1>3
  <2>3. OfLevels(tag)'
    BY <1>1, <1>2, <2>1, <2>2 DEF OfLevels
  <2>4. EndBefore(tag, tmp_left_idx)'
    BY <1>1, <2>1, <2>2 DEF OfLevels, EndBefore
  <2> QED BY <1>1, <2>1, <2>3, <2>4 DEF TagsOK
<1>8. TagsApart'
  BY <1>1 DEF TagInv, TagsApart
<1>9. LastRun'
  <2>1. \A p \in 1 .. 1 : 1 <= p /\ ~(p < 1)
    OBVIOUS
  <2> QED BY <1>1, <2>1 DEF LastRun
<1>10. Pending'
  <2>1. \A p, q \in 1 .. 1 : ~(q - p > SHORT_TAG)
    BY TagBounds
  <2> QED BY <1>1, <2>1 DEF Pending
<1>11. Finished'
  <2>1. \A l \in 1 .. level' : l < level' => l \in 1 .. level
    BY <1>1, <1>3
  <2> QED BY <1>1, <1>2, <2>1 DEF TagInv, Finished, Working, Region, Holds
<1> QED BY <1>5, <1>6, <1>7, <1>8, <1>9, <1>10, <1>11 DEF TagInv

\* A round of the scan.
LEMMA ScanTags == TagInv /\ ScanColumn => TagInv'
<1> SUFFICES ASSUME TagInv, ScanColumn PROVE TagInv'
  OBVIOUS
<1>1. /\ UNCHANGED <<page, level, coord, pc>> /\ m' = m + 1
      /\ pc = "scan" /\ m < Len(coord)
  BY DEF ScanColumn
<1>2. /\ SHORT_TAG \in Nat /\ level \in Nat \ {0} /\ m \in Nat \ {0}
      /\ coord \in Seq(Nat) /\ Increasing(coord)
      /\ DOMAIN coord = 1 .. Len(coord) /\ Len(coord) \in Nat
      /\ tmp_left_idx \in 1 .. m /\ tmp_right_idx \in 1 .. m
  BY <1>1, ScanTypes
<1>3. coord # <<>>
  <2>1. Len(coord) # 0
    BY <1>1, <1>2
  <2> QED BY <2>1
<1>4. /\ tmp_left_idx <= tmp_right_idx
      /\ m + 1 \in DOMAIN coord /\ m \in DOMAIN coord /\ m + 1 <= Len(coord)
      /\ 1 .. m \subseteq 1 .. (m + 1)
      /\ \A p \in 1 .. (m + 1) : p \in DOMAIN coord /\ (p \in 1 .. m \/ p = m + 1)
  BY <1>1, <1>2, <1>3, ScanTypes
<1>5. \A c : tag_result(c)' = tag_result(c)
  BY <1>1, CountsFrame
<1>6. CoordOK'
  BY <1>1, <1>3, <1>5 DEF TagInv, CoordOK, Increasing
<1>7. \A p \in 1 .. (m + 1) : coord[p] \in Nat
  BY <1>2, <1>4
<1>8. ASSUME NEW p \in 1 .. m, Run(p, m + 1) PROVE Run(p, m) /\ coord[m + 1] - coord[m] = 1
  <2>1. coord[m] - coord[p] >= m - p /\ coord[m + 1] - coord[m] >= 1
    <3>1. p \in DOMAIN coord /\ p <= m /\ m <= m + 1
      BY <1>2, <1>4
    <3>2. coord[m] - coord[p] >= m - p
      BY <1>2, <1>4, <3>1, Spread
    <3>3. coord[m + 1] - coord[m] >= (m + 1) - m
      BY <1>2, <1>4, <3>1, Spread
    <3> QED BY <1>2, <3>2, <3>3
  <2>2. coord[m + 1] - coord[p] = (m + 1) - p
    BY <1>8 DEF Run
  <2>3. PICK x, y, z \in Nat : x = coord[p] /\ y = coord[m] /\ z = coord[m + 1]
    BY <1>2, <1>4, <1>7
  <2>4. p \in Nat /\ y - x >= m - p /\ z - y >= 1 /\ z - x = (m + 1) - p
    BY <2>1, <2>2, <2>3
  <2>5. y - x = m - p /\ z - y = 1
    BY <1>2, <2>4
  <2> QED BY <2>3, <2>5 DEF Run
<1>9. Finished'
  <2> SUFFICES ASSUME NEW l \in 1 .. level, l < level,
                      NEW a \in 0 .. page.w - 1, NEW b \in 0 .. page.w - 1,
                      b - a > SHORT_TAG, Region(a, b, l)
               PROVE  Holds(tag, a, b, l)'
    BY <1>1, <1>5 DEF Finished, Region
  <2>1. Holds(tag, a, b, l)
    BY <1>1 DEF TagInv, Finished, Working
  <2>2. tag' = tag \/ tag' = Tagged
    BY DEF ScanColumn
  <2>3. Holds(tag', a, b, l)
    BY <1>1, <2>1, <2>2, TaggedFacts
  <2> QED BY <2>3 DEF Holds
<1>10. CASE coord[m + 1] - coord[m] = 1
  <2>1. tmp_right_idx' = m + 1 /\ UNCHANGED <<tag, tmp_left_idx>>
    BY <1>10 DEF ScanColumn
  <2>2. TypeOK'
    <3>1. {tmp_left_idx', tmp_right_idx'} \subseteq 1 .. m' /\ tmp_left_idx' <= tmp_right_idx'
          /\ m' \in Nat \ {0} /\ m' <= Len(coord)
      BY <1>1, <1>2, <1>4, <2>1
    <3> QED BY <1>1, <2>1, <3>1 DEF TagInv, TypeOK
  <2>3. TagsOK' /\ TagsApart'
    <3>1. OfLevels(tag)'
      BY <1>1, <1>5, <2>1 DEF TagInv, TagsOK, OfLevels, Working
    <3>2. EndBefore(tag, tmp_left_idx)'
      BY <1>1, <2>1 DEF TagInv, TagsOK, EndBefore
    <3> QED BY <2>1, <3>1, <3>2 DEF TagInv, TagsOK, TagsApart
  <2>4. LastRun'
    <3> SUFFICES ASSUME NEW p \in 1 .. (m + 1), Run(p, m + 1)
                 PROVE  tmp_left_idx <= p /\ (p < m + 1 => m + 1 = m + 1)
      BY <1>1, <2>1 DEF LastRun, Run
    <3>1. CASE p \in 1 .. m
      BY <1>1, <1>3, <1>8, <3>1 DEF TagInv, LastRun
    <3>2. CASE p = m + 1
      BY <1>2, <3>2
    <3> QED BY <1>4, <3>1, <3>2
  <2>5. Pending'
    <3> SUFFICES ASSUME NEW p \in 1 .. (m + 1), NEW q \in 1 .. (m + 1),
                        q - p > SHORT_TAG, Run(p, q)
                 PROVE  \/ tmp_left_idx <= p /\ q <= m + 1
                        \/ Holds(tag, coord[p], coord[q], level)
      BY <1>1, <2>1 DEF Pending, Run, Holds
    <3>1. p \in 1 .. m
      BY <1>2
    <3>2. CASE q \in 1 .. m
      <4>1. \/ tmp_left_idx <= p /\ q <= tmp_right_idx
            \/ Holds(tag, coord[p], coord[q], level)
        BY <1>1, <1>3, <3>1, <3>2 DEF TagInv, Pending
      <4> QED BY <1>2, <4>1
    <3>3. CASE q = m + 1
      <4>1. tmp_left_idx <= p
        BY <1>1, <1>3, <1>8, <3>1, <3>3 DEF TagInv, LastRun
      <4> QED BY <1>2, <3>3, <4>1
    <3> QED BY <1>4, <3>2, <3>3
  <2> QED BY <1>6, <1>9, <2>2, <2>3, <2>4, <2>5 DEF TagInv
<1>11. CASE coord[m + 1] - coord[m] # 1
  <2>1. tag' = Tagged /\ tmp_left_idx' = tmp_right_idx /\ UNCHANGED tmp_right_idx
    BY <1>11 DEF ScanColumn, LeftAtGap
  <2>2. PICK T : T = tag'
    OBVIOUS
  <2>3. /\ T \in Seq(TagType)
        /\ Shaped(T) /\ Apart(T) /\ OfLevels(T) /\ EndBefore(T, tmp_right_idx)
        /\ \A p, q \in 1 .. m :
              q - p > SHORT_TAG /\ Run(p, q) => Holds(T, coord[p], coord[q], level)
    BY <1>1, <1>3, <2>1, <2>2, TaggedFacts
  <2>4. TypeOK'
    <3>1. {tmp_left_idx', tmp_right_idx'} \subseteq 1 .. m' /\ tmp_left_idx' <= tmp_right_idx'
          /\ m' \in Nat \ {0} /\ m' <= Len(coord)
      BY <1>1, <1>2, <1>4, <2>1
    <3> QED BY <1>1, <2>2, <2>3, <3>1 DEF TagInv, TypeOK, Shaped
  <2>5. TagsOK' /\ TagsApart'
    <3>1. OfLevels(tag)'
      BY <1>1, <1>5, <2>2, <2>3 DEF OfLevels
    <3>2. EndBefore(tag, tmp_left_idx)'
      BY <1>1, <2>1, <2>2, <2>3 DEF EndBefore
    <3> QED BY <2>2, <2>3, <3>1, <3>2 DEF TagsOK, TagsApart, Apart
  <2>6. LastRun'
    <3> SUFFICES ASSUME NEW p \in 1 .. (m + 1), Run(p, m + 1)
                 PROVE  tmp_right_idx <= p /\ (p < m + 1 => tmp_right_idx = m + 1)
      BY <1>1, <2>1 DEF LastRun, Run
    <3>1. p = m + 1
      BY <1>4, <1>8, <1>11
    <3> QED BY <1>2, <3>1
  <2>7. Pending'
    <3> SUFFICES ASSUME NEW p \in 1 .. (m + 1), NEW q \in 1 .. (m + 1),
                        q - p > SHORT_TAG, Run(p, q)
                 PROVE  Holds(T, coord[p], coord[q], level)
      BY <1>1, <2>2 DEF Pending, Run, Holds
    <3>1. p \in 1 .. m
      BY <1>2
    <3>2. q # m + 1
      BY <1>8, <1>11, <3>1
    <3> QED BY <1>4, <2>3, <3>1, <3>2
  <2> QED BY <1>6, <1>9, <2>4, <2>5, <2>6, <2>7 DEF TagInv
<1> QED BY <1>10, <1>11

\* Behind the loop: every long region of the level lies in a tag.
LEMMA CloseTags == TagInv /\ CloseLevel => TagInv'
<1> SUFFICES ASSUME TagInv, CloseLevel PROVE TagInv'
  OBVIOUS
<1>1. /\ UNCHANGED <<page, level, coord, m, tmp_left_idx, tmp_right_idx>>
      /\ pc = "scan" /\ pc' = "level" /\ m >= Len(coord) /\ tag' = Tagged
  BY DEF CloseLevel, LastTagged
<1>2. \A c : tag_result(c)' = tag_result(c)
  BY <1>1, CountsFrame
<1>3. PICK T : T = tag'
  OBVIOUS
<1>4. /\ T \in Seq(TagType) /\ Shaped(T) /\ Apart(T) /\ OfLevels(T)
      /\ \A a, b, l : Holds(tag, a, b, l) => Holds(T, a, b, l)
      /\ coord # <<>> => \A p, q \in 1 .. m :
            q - p > SHORT_TAG /\ Run(p, q) => Holds(T, coord[p], coord[q], level)
  BY <1>1, <1>3, TaggedFacts
<1>5. TypeOK'
  BY <1>1, <1>3, <1>4 DEF TagInv, TypeOK, Shaped
<1>6. CoordOK'
  BY <1>1 DEF TagInv, CoordOK, Increasing
<1>7. TagsOK' /\ TagsApart'
  <2>1. OfLevels(tag)'
    BY <1>1, <1>2, <1>3, <1>4 DEF OfLevels
  <2> QED BY <1>1, <1>3, <1>4, <2>1 DEF TagsOK, TagsApart, Apart
<1>8. LastRun' /\ Pending'
  BY <1>1 DEF LastRun, Pending
<1>9. Finished'
  <2> SUFFICES ASSUME NEW l \in 1 .. level,
                      NEW a \in 0 .. page.w - 1, NEW b \in 0 .. page.w - 1,
                      b - a > SHORT_TAG, Region(a, b, l)
               PROVE  Holds(T, a, b, l)
    BY <1>1, <1>2, <1>3 DEF Finished, Region, Holds
  <2>1. /\ SHORT_TAG \in Nat /\ level \in Nat /\ coord \in Seq(Nat) /\ Increasing(coord)
        /\ DOMAIN coord = 1 .. Len(coord) /\ Len(coord) \in Nat /\ m \in Nat
    BY <1>1, ScanTypes
  <2>2. CASE l < level
    BY <1>1, <1>4, <2>2 DEF TagInv, Finished, Working
  <2>3. CASE l = level
    <3>1. page.w \in Nat
      BY DEF TagInv, CoordOK
    <3>2. AllIn(coord, a, b) /\ a \in Nat /\ b \in Nat /\ a <= b
      <4>1. a \in Nat /\ b \in Nat /\ a <= b /\ a .. b \subseteq 0 .. page.w - 1
        BY <2>1, <3>1
      <4>2. \A c \in a .. b : tag_result(c) = level
        BY <2>3 DEF Region
      <4>3. Range(coord) = {c \in 0 .. page.w - 1 : tag_result(c) = level}
        BY <1>1 DEF TagInv, CoordOK
      <4> QED BY <4>1, <4>2, <4>3 DEF AllIn
    <3>3. PICK p, q \in DOMAIN coord : coord[p] = a /\ coord[q] = b /\ q - p = b - a
      <4>1. coord \in Seq(Nat) /\ Increasing(coord)
        BY <2>1
      <4> QED BY <3>2, <4>1, RegionIsRun
    <3>4. coord # <<>>
      BY <3>3
    <3>5. p \in 1 .. m /\ q \in 1 .. m
      BY <1>1, <2>1, <3>3
    <3>6. Run(p, q) /\ q - p > SHORT_TAG
      BY <3>3 DEF Run
    <3> QED BY <1>4, <2>3, <3>3, <3>4, <3>5, <3>6
  <2> QED BY <2>1, <2>2, <2>3
<1> QED BY <1>5, <1>6, <1>7, <1>8, <1>9 DEF TagInv

\* Every step of analyst preserves the invariant of the tags.
LEMMA NextTags == TagInv /\ [Next]_vars => TagInv'
<1> SUFFICES ASSUME TagInv, [Next]_vars PROVE TagInv'
  OBVIOUS
<1>1. page \in [w : Nat \ {0}, base : Int, lines : Seq(Quads)]
      /\ pc \in {"idle", "measure", "level", "scan", "merge"}
  BY DEF TagInv, CoordOK, TypeOK
<1>2. ASSUME NEW p \in Pages, AnalystNoLine(p) \/ Analyst(p) PROVE TagInv'
  <2>1. UNCHANGED scan_vars /\ page' = p /\ pc' \in {"idle", "measure"}
    BY <1>2 DEF AnalystNoLine, Analyst
  <2>2. page' \in [w : Nat \ {0}, base : Int, lines : Seq(Quads)]
    BY <2>1, PagesAssumption
  <2>3. ~Working'
    BY <2>1 DEF Working
  <2> QED BY <2>1, <2>2, <2>3, QuietTags
<1>3. CASE ReturnOneTitle \/ Classify \/ MergeTitle \/ ReturnTitles \/ UNCHANGED vars
  <2>1. /\ UNCHANGED <<scan_vars, page>>
        /\ \/ pc' = pc
           \/ pc = "level" /\ pc' \in {"idle", "merge"}
           \/ pc = "merge" /\ pc' = "idle"
    <3>1. CASE ReturnOneTitle
      BY <3>1 DEF ReturnOneTitle
    <3>2. CASE Classify
      BY <3>2 DEF Classify
    <3>3. CASE MergeTitle
      BY <3>3 DEF MergeTitle
    <3>4. CASE ReturnTitles \/ UNCHANGED vars
      BY <3>4 DEF ReturnTitles, vars
    <3> QED BY <1>3, <3>1, <3>2, <3>3, <3>4
  <2>2. Working' => Working /\ (pc' = "scan" <=> pc = "scan")
    BY <2>1 DEF Working
  <2>3. pc' \in {"idle", "measure", "level", "scan", "merge"}
    BY <1>1, <2>1
  <2> QED BY <1>1, <2>1, <2>2, <2>3, QuietTags
<1> QED BY <1>2, <1>3, MeasureTags, OpenTags, ScanTags, CloseTags DEF Next

\* The process starts with it.
LEMMA InitTags == Init => TagInv
<1> SUFFICES ASSUME Init PROVE TagInv
  OBVIOUS
<1>1. /\ pc = "idle" /\ page = [w |-> 1, base |-> 0, lines |-> <<>>] /\ level = 0
      /\ coord = <<>> /\ m = 1 /\ tmp_left_idx = 1 /\ tmp_right_idx = 1 /\ tag = <<>>
  BY DEF Init
<1>2. DOMAIN coord = {} /\ DOMAIN tag = {}
  BY <1>1
<1>3. TypeOK
  <2>1. /\ pc \in {"idle", "measure", "level", "scan", "merge"} /\ coord \in Seq(Nat)
        /\ m \in Nat \ {0} /\ {tmp_left_idx, tmp_right_idx} \subseteq 1 .. m
    BY <1>1
  <2> QED BY <1>1, <1>2, <2>1 DEF TypeOK
<1>4. CoordOK
  <2>1. page \in [w : Nat \ {0}, base : Int, lines : Seq(Quads)]
    BY <1>1
  <2> QED BY <1>1, <1>2, <2>1 DEF CoordOK, Increasing
<1>5. TagsOK /\ TagsApart
  BY <1>1, <1>2 DEF TagsOK, TagsApart, Working
<1>6. LastRun /\ Pending /\ Finished
  BY <1>1 DEF LastRun, Pending, Finished, Working
<1> QED BY <1>3, <1>4, <1>5, <1>6 DEF TagInv

\* Every reachable state satisfies it.
LEMMA TagInvariant == Spec => []TagInv
BY InitTags, NextTags, PTL DEF Spec

\* On any page the indices of the scan stay within the columns, and a tag is longer
\* than SHORT_TAG.
THEOREM TypeCorrect == Spec => []TypeOK
<1>1. TagInv => TypeOK
  BY DEF TagInv
<1> QED BY <1>1, TagInvariant, PTL

\* On any page no two tags begin in the same column, and two of one level share at
\* most an end: sorted_tag leaves nothing open.
THEOREM TagsDoNotOverlap == Spec => []TagsApart
<1>1. TagInv => TagsApart
  BY DEF TagInv
<1> QED BY <1>1, TagInvariant, PTL

\* On any page the scan of tag_analyst loses no region that is longer than
\* SHORT_TAG, also not the last one, which is looked at behind the loop.
THEOREM NoRegionLost == Spec => []LongRegionsTagged
<1>1. TagInv => LongRegionsTagged
  <2> SUFFICES ASSUME TagInv, pc \in {"level", "merge"},
                      NEW a \in 0 .. page.w - 1, NEW b \in 0 .. page.w - 1,
                      NEW l \in 1 .. level, b - a > SHORT_TAG, Region(a, b, l)
               PROVE  Holds(tag, a, b, l)
    BY DEF LongRegionsTagged, Holds
  <2>1. Working /\ pc # "scan"
    BY DEF Working
  <2> QED BY <2>1 DEF TagInv, Finished
<1> QED BY <1>1, TagInvariant, PTL

-----------------------------------------------------------------------------
(* The titles.                                                               *)

\* The titles of the first level are lines of the page, in some order.
LEMMA TitlesFacts ==
    ASSUME page.lines \in Seq(Quads),
           NEW p \in argsort([n \in DOMAIN FirstTitles |-> FirstTitles[n][1]])
    PROVE  [n \in DOMAIN p |-> FirstTitles[p[n]]] \in Seq(Quads)
<1>1. FirstTitles \in Seq(Quads)
  BY WhereFacts DEF FirstTitles
<1>2. PICK f \in Seq(Quads) : f = FirstTitles
  BY <1>1
<1>3. p \in [DOMAIN f -> DOMAIN f]
  BY <1>2 DEF argsort
<1>4. PICK n \in Nat : DOMAIN f = 1 .. n
  BY <1>2
<1>5. \A k \in 1 .. n : f[k] \in Quads
  BY <1>2, <1>4
<1>6. [k \in DOMAIN p |-> f[p[k]]] \in [1 .. n -> Quads]
  BY <1>3, <1>4, <1>5
<1>7. [k \in DOMAIN p |-> f[p[k]]] \in Seq(Quads)
  BY <1>6
<1> QED BY <1>2, <1>7

\* A list of N elements with one more, and without its last one.
LEMMA OneMore ==
    ASSUME NEW D, NEW s \in Seq(D), NEW z \in D, NEW N \in Nat, Len(s) = N,
           NEW t, t = Append(s, z)
    PROVE  /\ t \in Seq(D) /\ DOMAIN t = 1 .. (N + 1) /\ t[N + 1] = z
           /\ \A k \in 1 .. N : t[k] = s[k]
<1> QED OBVIOUS

LEMMA OneLess ==
    ASSUME NEW D, NEW s \in Seq(D), NEW N \in Nat \ {0}, Len(s) = N
    PROVE  /\ Front(s) \in Seq(D) /\ Len(Front(s)) = N - 1
           /\ \A k \in 1 .. (N - 1) : Front(s)[k] = s[k]
<1> QED BY DEF Front

\* Two titles are together in one of the groups.
Together(boxes, a, b) == \E k \in DOMAIN boxes : {a, b} \subseteq Range(boxes[k])

\* What a round of the loop makes of the groups: the ones there were only grow,
\* and two titles close to each other are in one of them.
LEMMA MergedGroups ==
    ASSUME NEW X, NEW boxes \in Seq(Seq(X) \ {<<>>}), boxes # <<>>, NEW a \in X, NEW b \in X,
           NEW next,
           \/ Last(Last(boxes)) = a /\ next = Append(Front(boxes), Append(Last(boxes), b))
           \/ next = Append(boxes, <<a, b>>)
    PROVE  /\ next \in Seq(Seq(X) \ {<<>>}) /\ next # <<>>
           /\ Together(next, a, b)
           /\ \A c, d : Together(boxes, c, d) => Together(next, c, d)
<1>1. PICK N \in Nat \ {0} : N = Len(boxes) /\ DOMAIN boxes = 1 .. N
  <2>1. Len(boxes) \in Nat /\ DOMAIN boxes = 1 .. Len(boxes) /\ Len(boxes) # 0
    OBVIOUS
  <2> QED BY <2>1
<1>2. CASE next = Append(boxes, <<a, b>>)
  <2>1. <<a, b>> \in Seq(X) \ {<<>>} /\ Range(<<a, b>>) = {a, b}
    BY DEF Range
  <2>2. PICK z : z = <<a, b>>
    OBVIOUS
  <2>3. /\ next \in Seq(Seq(X) \ {<<>>}) /\ DOMAIN next = 1 .. (N + 1) /\ next[N + 1] = z
        /\ \A k \in 1 .. N : next[k] = boxes[k]
    BY <1>1, <1>2, <2>1, <2>2, Appended
  <2>4. N + 1 \in DOMAIN next /\ 1 .. N \subseteq DOMAIN next
    BY <2>3
  <2>5. next # <<>>
    BY <2>4
  <2>6. Together(next, a, b)
    BY <2>1, <2>2, <2>3, <2>4 DEF Together
  <2>7. \A c, d : Together(boxes, c, d) => Together(next, c, d)
    BY <1>1, <2>3, <2>4 DEF Together
  <2> QED BY <2>3, <2>5, <2>6, <2>7
<1>3. CASE Last(Last(boxes)) = a /\ next = Append(Front(boxes), Append(Last(boxes), b))
  <2>1. PICK last \in Seq(X) \ {<<>>} : last = boxes[N] /\ last = Last(boxes)
    BY <1>1 DEF Last
  <2>2. PICK front : front = Front(boxes)
    OBVIOUS
  <2>3. /\ front \in Seq(Seq(X) \ {<<>>}) /\ Len(front) = N - 1
        /\ \A k \in 1 .. (N - 1) : front[k] = boxes[k]
    <3>1. Len(boxes) = N
      BY <1>1
    <3>2. /\ Front(boxes) \in Seq(Seq(X) \ {<<>>}) /\ Len(Front(boxes)) = N - 1
          /\ \A k \in 1 .. (N - 1) : Front(boxes)[k] = boxes[k]
      BY <3>1, OneLess, Zenon
    <3> QED BY <2>2, <3>2, Zenon
  <2>4. PICK z : z = Append(last, b)
    OBVIOUS
  <2>5. z \in Seq(X) /\ Range(z) = Range(last) \cup {b} /\ Len(last) + 1 \in DOMAIN z
    <3>1. Len(last) \in Nat
      OBVIOUS
    <3> QED BY <2>4, <3>1, Appended
  <2>6. z \in Seq(X) \ {<<>>}
    BY <2>5
  <2>7. a \in Range(last)
    <3>1. Len(last) \in DOMAIN last
      OBVIOUS
    <3>2. last[Len(last)] = a
      BY <1>3, <2>1 DEF Last
    <3> QED BY <3>1, <3>2 DEF Range
  <2>8. /\ next \in Seq(Seq(X) \ {<<>>}) /\ DOMAIN next = 1 .. N /\ next[N] = z
        /\ \A k \in 1 .. (N - 1) : next[k] = boxes[k]
    <3>1. next = Append(front, z)
      BY <1>3, <2>1, <2>2, <2>4
    <3>2. PICK n \in Nat : n = N - 1 /\ n + 1 = N
      OBVIOUS
    <3>3. PICK D : D = Seq(X) \ {<<>>}
      OBVIOUS
    <3>4. front \in Seq(D) /\ z \in D
      BY <2>3, <2>6, <3>3, Zenon
    <3>5. Len(front) = n
      BY <2>3, <3>2, Zenon
    <3>6. /\ next \in Seq(D) /\ DOMAIN next = 1 .. (n + 1) /\ next[n + 1] = z
          /\ \A k \in 1 .. n : next[k] = front[k]
      BY <3>1, <3>4, <3>5, OneMore
    <3>7. next \in Seq(D) /\ DOMAIN next = 1 .. N /\ next[N] = z
      BY <3>2, <3>6, Zenon
    <3>8. \A k \in 1 .. (N - 1) : next[k] = boxes[k]
      BY <2>3, <3>2, <3>6, Zenon
    <3> QED BY <3>3, <3>7, <3>8, Zenon
  <2>9. N \in DOMAIN next
    BY <2>8
  <2>10. next # <<>>
    BY <2>9
  <2>11. Together(next, a, b)
    BY <2>5, <2>7, <2>8, <2>9 DEF Together
  <2>12. \A k \in DOMAIN boxes : k \in DOMAIN next /\ Range(boxes[k]) \subseteq Range(next[k])
    <3> TAKE k \in DOMAIN boxes
    <3>1. CASE k = N
      BY <1>1, <2>1, <2>5, <2>8, <3>1
    <3>2. CASE k # N
      <4>1. k \in 1 .. (N - 1)
        BY <1>1, <3>2
      <4> QED BY <1>1, <2>8, <4>1
    <3> QED BY <3>1, <3>2
  <2>13. \A c, d : Together(boxes, c, d) => Together(next, c, d)
    BY <2>12 DEF Together
  <2> QED BY <2>8, <2>10, <2>11, <2>13
<1> QED BY <1>2, <1>3

\* first_tag_merge begins with the uppermost title.
LEMMA ClassifyTitles == TagInv /\ Classify => TitleInv'
<1> SUFFICES ASSUME TagInv, Classify PROVE TitleInv'
  OBVIOUS
<1>1. PICK p \in argsort([n \in DOMAIN FirstTitles |-> FirstTitles[n][1]]) :
         first' = [n \in DOMAIN p |-> FirstTitles[p[n]]]
  BY DEF Classify
<1>2. i' = 1 /\ result_boxes' = IF first' = <<>> THEN <<>> ELSE <<<<first'[1]>>>>
  BY DEF Classify
<1>3. first' \in Seq(Quads)
  BY <1>1, TitlesFacts DEF TagInv, CoordOK
<1>4. /\ result_boxes' \in Seq(Seq(Quads) \ {<<>>})
      /\ first' # <<>> => result_boxes' # <<>>
  <2>1. CASE first' = <<>>
    BY <1>2, <2>1
  <2>2. CASE first' # <<>>
    <3>1. first'[1] \in Quads
      BY <1>3, <2>2
    <3>2. PICK q \in Quads : q = first'[1]
      BY <3>1
    <3>3. <<q>> \in Seq(Quads) \ {<<>>}
      OBVIOUS
    <3>4. <<<<q>>>> \in Seq(Seq(Quads) \ {<<>>}) /\ <<<<q>>>> # <<>>
      BY <3>3
    <3> QED BY <1>2, <2>2, <3>2, <3>4
  <2> QED BY <2>1, <2>2
<1>5. CloseTogether'
  <2>1. 1 .. i' - 1 = {}
    BY <1>2
  <2> QED BY <2>1 DEF CloseTogether
<1> QED BY <1>2, <1>3, <1>4, <1>5 DEF TitleInv

\* A round of its loop.
LEMMA MergeTitles == TitleInv /\ MergeTitle => TitleInv'
<1> SUFFICES ASSUME TitleInv, MergeTitle PROVE TitleInv'
  OBVIOUS
<1>1. /\ pc = "merge" /\ i < Len(first) /\ i' = i + 1 /\ UNCHANGED <<pc, first>>
      /\ result_boxes' =
            IF ~CloseTo(first[i], first[i + 1]) THEN result_boxes
            ELSE IF Last(Last(result_boxes)) = first[i]
            THEN Append(Front(result_boxes), Append(Last(result_boxes), first[i + 1]))
            ELSE Append(result_boxes, <<first[i], first[i + 1]>>)
  BY DEF MergeTitle, NewGroup
<1>2. /\ i \in Nat \ {0} /\ first \in Seq(Quads)
      /\ result_boxes \in Seq(Seq(Quads) \ {<<>>})
      /\ first # <<>> => result_boxes # <<>>
  BY <1>1 DEF TitleInv
<1>3. first # <<>> /\ first[i] \in Quads /\ first[i + 1] \in Quads
  <2>1. Len(first) \in Nat /\ DOMAIN first = 1 .. Len(first)
    BY <1>2
  <2>2. i \in DOMAIN first /\ i + 1 \in DOMAIN first
    BY <1>1, <1>2, <2>1
  <2> QED BY <1>2, <2>2
<1>4. PICK a, b \in Quads : a = first[i] /\ b = first[i + 1]
  BY <1>3
<1>5. PICK boxes, next : boxes = result_boxes /\ next = result_boxes'
  OBVIOUS
<1>6. /\ next \in Seq(Seq(Quads) \ {<<>>}) /\ next # <<>>
      /\ CloseTo(a, b) => Together(next, a, b)
      /\ \A c, d : Together(boxes, c, d) => Together(next, c, d)
  <2>1. CASE ~CloseTo(a, b)
    <3>1. next = boxes
      BY <1>1, <1>4, <1>5, <2>1
    <3> QED BY <1>2, <1>3, <1>5, <2>1, <3>1
  <2>2. CASE CloseTo(a, b)
    <3>1. boxes \in Seq(Seq(Quads) \ {<<>>}) /\ boxes # <<>>
      BY <1>2, <1>3, <1>5
    <3>2. \/ Last(Last(boxes)) = a /\ next = Append(Front(boxes), Append(Last(boxes), b))
          \/ next = Append(boxes, <<a, b>>)
      BY <1>1, <1>4, <1>5, <2>2
    <3> QED BY <3>1, <3>2, MergedGroups
  <2> QED BY <2>1, <2>2
<1>7. ASSUME NEW n \in 1 .. i, CloseTo(first[n], first[n + 1])
      PROVE  Together(next, first[n], first[n + 1])
  <2>1. CASE n = i
    BY <1>4, <1>6, <1>7, <2>1
  <2>2. CASE n \in 1 .. i - 1
    <3>1. Together(boxes, first[n], first[n + 1])
      BY <1>1, <1>5, <1>7, <2>2 DEF TitleInv, CloseTogether, Together
    <3> QED BY <1>6, <3>1
  <2> QED BY <1>2, <2>1, <2>2
<1>8. CloseTogether'
  <2>1. 1 .. i' - 1 = 1 .. i
    BY <1>1, <1>2
  <2> SUFFICES ASSUME NEW n \in 1 .. i, CloseTo(first[n], first[n + 1])'
               PROVE  Together(result_boxes, first[n], first[n + 1])'
    BY <2>1 DEF CloseTogether, Together
  <2>2. CloseTo(first[n], first[n + 1])
    BY <1>1 DEF CloseTo, Middle2
  <2>3. Together(next, first[n], first[n + 1])
    BY <1>7, <2>2
  <2> QED BY <1>1, <1>5, <2>3 DEF Together
<1>9. i' \in Nat \ {0}
  BY <1>1, <1>2
<1> QED BY <1>1, <1>2, <1>5, <1>6, <1>8, <1>9 DEF TitleInv

\* Every step of analyst preserves the invariant of the titles.
LEMMA NextTitles == TagInv /\ TitleInv /\ [Next]_vars => TitleInv'
<1> SUFFICES ASSUME TagInv, TitleInv, [Next]_vars PROVE TitleInv'
  OBVIOUS
<1>1. ASSUME pc' # "merge" PROVE TitleInv'
  BY <1>1 DEF TitleInv, CloseTogether
<1>2. ASSUME NEW p \in Pages, AnalystNoLine(p) \/ Analyst(p) PROVE TitleInv'
  BY <1>1, <1>2 DEF AnalystNoLine, Analyst
<1>3. CASE Measure \/ OpenLevel
  BY <1>1, <1>3 DEF Measure, OpenLevel
<1>4. CASE ScanColumn
  BY <1>1, <1>4 DEF ScanColumn
<1>5. CASE CloseLevel \/ ReturnOneTitle \/ ReturnTitles
  <2>1. pc' # "merge"
    BY <1>5 DEF CloseLevel, ReturnOneTitle, ReturnTitles
  <2> QED BY <1>1, <2>1
<1>6. CASE UNCHANGED vars
  <2>1. UNCHANGED <<pc, first, i, result_boxes>>
    BY <1>6 DEF vars, merge_vars
  <2>2. CloseTogether'
    BY <2>1 DEF TitleInv, CloseTogether, CloseTo, Middle2
  <2> QED BY <2>1, <2>2 DEF TitleInv
<1> QED BY <1>2, <1>3, <1>4, <1>5, <1>6, ClassifyTitles, MergeTitles DEF Next

\* On any page titles that are close to each other end up in one group.
THEOREM CloseTitlesMerge == Spec => []CloseTogether
<1>1. Init => TagInv /\ TitleInv
  <2>1. Init => TitleInv
    BY DEF Init, TitleInv, CloseTogether
  <2> QED BY <2>1, InitTags
<1>2. TagInv /\ TitleInv /\ [Next]_vars => (TagInv /\ TitleInv)'
  BY NextTags, NextTitles
<1>3. TitleInv => CloseTogether
  BY DEF TitleInv
<1> QED BY <1>1, <1>2, <1>3, PTL DEF Spec
=============================================================================
