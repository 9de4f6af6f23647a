-------------------------- MODULE NeatLayoutProofs --------------------------
(***************************************************************************)
(* What Nms keeps and drops, what ConnectBlock makes a line of, and what an *)
(* empty page leads to, for pages of every size with any number of blocks.  *)
(***************************************************************************)
EXTENDS NeatLayout, FiniteSetTheorems, TLAPS

\* A set of naturals has a least element.
LEMMA MinOfNat ==
    ASSUME NEW T, T \subseteq Nat, T # {}
    PROVE  Min(T) \in T /\ \A y \in T : Min(T) <= y
<1> DEFINE R == {ss \in Nat \X Nat : ss[1] < ss[2]}
<1>1. IsWellFoundedOn(R, Nat)
  BY NatLessThanWellFounded, Zenon DEF OpToRel
<1>2. \A y, x \in Nat : <<y, x>> \in R <=> y < x
  OBVIOUS
<1> HIDE DEF R
<1>3. PICK x \in T : \A y \in T : ~(<<y, x>> \in R)
  BY <1>1, WFMin, Zenon
<1>4. \A y \in T : x <= y
  <2> SUFFICES ASSUME NEW y \in T PROVE x <= y
    OBVIOUS
  <2>1. x \in Nat /\ y \in Nat
    BY <1>3
  <2>2. ~(y < x)
    BY <1>2, <1>3, <2>1, Zenon
  <2> QED BY <2>1, <2>2
<1> QED BY <1>4 DEF Min

\* A bounded set of naturals has a greatest element.
LEMMA MaxOfNat ==
    ASSUME NEW T, T \subseteq Nat, T # {}, NEW n \in Nat, \A y \in T : y <= n
    PROVE  Max(T) \in T /\ \A y \in T : Max(T) >= y
<1> DEFINE U == {n - y : y \in T}
<1>1. U \subseteq Nat /\ U # {}
  <2>1. \A y \in T : n - y \in Nat
    OBVIOUS
  <2>2. \E y : y \in T
    OBVIOUS
  <2> QED BY <2>1, <2>2, Zenon
<1>2. PICK u \in U : \A v \in U : u <= v
  BY <1>1, MinOfNat, Zenon
<1>3. PICK x \in T : u = n - x
  BY <1>2
<1>4. \A y \in T : x >= y
  <2> SUFFICES ASSUME NEW y \in T PROVE x >= y
    OBVIOUS
  <2>1. n - x <= n - y
    BY <1>2, <1>3
  <2> QED BY <2>1
<1> QED BY <1>4 DEF Max

\* The rectangle that ConnectBlock makes of a group lies within the page.
LEMMA AroundRect ==
    ASSUME NEW S, S \subseteq Rects, S # {}, NEW cols \in Nat, NEW rows \in Nat,
           \A r \in S : Right(r) <= cols /\ Bottom(r) <= rows
    PROVE  /\ Around(S) \in Rects
           /\ Right(Around(S)) <= cols
           /\ Bottom(Around(S)) <= rows
<1> DEFINE xs == {r.x : r \in S}
           ys == {r.y : r \in S}
           rs == {Right(r) : r \in S}
           bs == {Bottom(r) : r \in S}
<1>1. /\ xs \subseteq Nat /\ xs # {} /\ ys \subseteq Nat /\ ys # {}
      /\ rs \subseteq Nat /\ rs # {} /\ bs \subseteq Nat /\ bs # {}
      /\ \A n \in rs : n <= cols
      /\ \A n \in bs : n <= rows
  BY DEF Rects, Right, Bottom
<1>2. Min(xs) \in xs /\ \A n \in xs : Min(xs) <= n
  BY <1>1, MinOfNat
<1>3. Min(ys) \in ys /\ \A n \in ys : Min(ys) <= n
  BY <1>1, MinOfNat
<1>4. Max(rs) \in rs /\ \A n \in rs : Max(rs) >= n
  BY <1>1, MaxOfNat
<1>5. Max(bs) \in bs /\ \A n \in bs : Max(bs) >= n
  BY <1>1, MaxOfNat
<1>6. PICK r \in S : TRUE
  OBVIOUS
<1>7. /\ r.x \in Nat /\ r.y \in Nat /\ r.w \in Nat \ {0} /\ r.h \in Nat \ {0}
      /\ Min(xs) <= r.x /\ r.x + r.w <= Max(rs)
      /\ Min(ys) <= r.y /\ r.y + r.h <= Max(bs)
  BY <1>2, <1>3, <1>4, <1>5, <1>6 DEF Rects, Right, Bottom
<1> DEFINE a == Min(xs)
           b == Min(ys)
           c == Max(rs)
           d == Max(bs)
<1>8. a \in Nat /\ b \in Nat /\ c \in Nat /\ d \in Nat /\ c <= cols /\ d <= rows
  BY <1>1, <1>2, <1>3, <1>4, <1>5
<1>9. Around(S) = [x |-> a, y |-> b, w |-> c - a, h |-> d - b]
  BY DEF Around
<1>10. /\ a < c /\ b < d
  BY <1>7, <1>8
<1> HIDE DEF a, b, c, d
<1> QED BY <1>8, <1>9, <1>10 DEF Rects, Right, Bottom

-----------------------------------------------------------------------------

\* push_back adds one element to what a vector holds.
LEMMA RangeAppend ==
    ASSUME NEW D, NEW s \in Seq(D), NEW b \in D
    PROVE  /\ Append(s, b) \in Seq(D)
           /\ Range(Append(s, b)) = Range(s) \cup {b}
           /\ Range(s) \subseteq D
<1> DEFINE t == Append(s, b)
<1>1. t \in Seq(D) /\ DOMAIN s = 1..Len(s) /\ Len(s) \in Nat
  OBVIOUS
<1>2. DOMAIN t = 1..(Len(s) + 1)
  OBVIOUS
<1>3. t[Len(s) + 1] = b /\ \A i \in 1..Len(s) : t[i] = s[i]
  OBVIOUS
<1>4. \A i \in 1..Len(s) : s[i] \in D
  OBVIOUS
<1>5. Range(s) \subseteq D
  BY <1>1, <1>4, Zenon DEF Range
<1> HIDE DEF t
<1>6. Range(t) \subseteq Range(s) \cup {b}
  <2> SUFFICES ASSUME NEW i \in 1..(Len(s) + 1) PROVE t[i] \in Range(s) \cup {b}
    BY <1>2 DEF Range
  <2>1. CASE i \in 1..Len(s)
    BY <1>1, <1>3, <2>1 DEF Range
  <2>2. CASE i = Len(s) + 1
    BY <1>3, <2>2
  <2> QED BY <1>1, <2>1, <2>2
<1>7. Range(s) \cup {b} \subseteq Range(t)
  <2>1. b \in Range(t)
    BY <1>1, <1>2, <1>3 DEF Range
  <2>2. SUFFICES ASSUME NEW i \in 1..Len(s) PROVE s[i] \in Range(t)
    BY <1>1, <2>1 DEF Range
  <2>3. i \in DOMAIN t /\ s[i] = t[i]
    BY <1>1, <1>2, <1>3
  <2> QED BY <2>3 DEF Range
<1> QED BY <1>1, <1>5, <1>6, <1>7 DEF t

\* The intersection that Iou computes does not depend on the order.
LEMMA OverlapSymmetric ==
    ASSUME NEW a, NEW b
    PROVE  Overlap(a, b) = Overlap(b, a)
<1>1. /\ {Right(a), Right(b)} = {Right(b), Right(a)}
      /\ {Bottom(a), Bottom(b)} = {Bottom(b), Bottom(a)}
      /\ {a.x, b.x} = {b.x, a.x}
      /\ {a.y, b.y} = {b.y, a.y}
  OBVIOUS
<1> QED BY <1>1, Zenon DEF Overlap

\* A bounding box is not empty.
LEMMA AreaIsNat == ASSUME NEW r \in Rects PROVE Area(r) \in Nat \ {0}
  BY DEF Area, Rects

\* A box of the current page.
InPage(r) == r \in Rects /\ Right(r) <= image.cols /\ Bottom(r) <= image.rows

\* What Nms works on is within the page, and its indices are indices of boxes.
BoxesOK ==
    /\ image.rows \in Nat /\ image.cols \in Nat
    /\ boxes \in Seq(Rects)
    /\ \A i \in DOMAIN boxes : InPage(boxes[i])
    /\ rest \subseteq DOMAIN boxes
    /\ kept \in Seq(DOMAIN boxes)

\* ConnectBlock works on the blocks of the page, and its groups are not empty.
GroupsOK ==
    /\ pc \in {"idle", "nms_blocks", "connect", "nms_lines"}
    /\ pc = "nms_blocks" => line_group = <<>>
    /\ pc \in {"nms_blocks", "connect"} => boxes = image.stats
    /\ pc = "connect" =>
          /\ rest = {}
          /\ tmp.group \subseteq DOMAIN boxes
          /\ line_group \in Seq((SUBSET DOMAIN boxes) \ {{}})
          /\ boxes = <<>> => line_group = <<>>
    /\ tmp \in [group : SUBSET (1..Len(image.stats)), left : Int, right : Int]
    /\ image.stats = <<>> => pc # "nms_lines"

\* The order by area, and the suppression, of boxes given by their indices.
Below(a, b) == Area(boxes[a]) <= Area(boxes[b])
Hidden(a, b) == Suppressed(boxes[a], boxes[b])

\* The order in which Nms works: what is left is no greater than what was picked,
\* and not covered by it.
RestOK ==
    \A a \in rest :
        /\ ~TooBig(boxes[a], image)
        /\ \A b \in Range(kept) : Below(a, b) /\ ~Hidden(a, b)

\* Why a box is dropped, by the test of Iou, while Nms is still at work.
CoveredOrLeft ==
    \A a \in DOMAIN boxes :
        \/ a \in rest \cup Range(kept)
        \/ TooBig(boxes[a], image)
        \/ \E b \in Range(kept) : Below(a, b) /\ Hidden(a, b)

\* The inductive invariant.
IInv == BoxesOK /\ GroupsOK /\ RestOK /\ Separated /\ CoveredOrLeft /\ GarbageUnused

-----------------------------------------------------------------------------

\* A round of Nms.
LEMMA PickIInv == IInv /\ Pick => IInv'
<1> SUFFICES ASSUME IInv, Pick PROVE IInv'
  OBVIOUS
<1>1. PICK b \in rest :
          /\ \A i \in rest : Below(i, b)
          /\ kept' = Append(kept, b)
          /\ rest' = {i \in rest \ {b} : ~Hidden(i, b)}
  BY DEF Pick, Biggest, Survivors, Below, Hidden
<1>2. /\ UNCHANGED <<pc, image, boxes, line_group, tmp, neat_target, verdict>>
      /\ pc # "connect"
  BY DEF Pick, Biggest, Survivors, page_vars, scan_vars, out_vars
<1>3. /\ b \in DOMAIN boxes
      /\ kept' \in Seq(DOMAIN boxes)
      /\ Range(kept') = Range(kept) \cup {b}
      /\ Range(kept) \subseteq DOMAIN boxes
  BY <1>1, RangeAppend DEF IInv, BoxesOK
<1>4. BoxesOK'
  BY <1>1, <1>2, <1>3 DEF IInv, BoxesOK, InPage, Right, Bottom
<1>5. GroupsOK'
  BY <1>2 DEF IInv, GroupsOK
<1>6. \A x, y : Below(x, y)' = Below(x, y) /\ Hidden(x, y)' = Hidden(x, y)
  BY <1>2 DEF Below, Hidden
<1>7. \A x : TooBig(boxes[x], image)' = TooBig(boxes[x], image)
  BY <1>2
<1>8. RestOK'
  BY <1>1, <1>2, <1>3, <1>6, <1>7 DEF IInv, RestOK
<1>9. CoveredOrLeft'
  BY <1>1, <1>2, <1>3, <1>6, <1>7 DEF IInv, CoveredOrLeft
<1>10. Separated'
  <2> SUFFICES ASSUME NEW x \in Range(kept'), NEW y \in Range(kept')
               PROVE  /\ ~TooBig(boxes[x], image)
                      /\ x # y /\ Below(x, y) => ~Hidden(x, y)
    BY <1>2, <1>6, <1>7 DEF Separated, Below, Hidden
  <2>1. CASE x \in Range(kept) /\ y \in Range(kept)
    BY <2>1 DEF IInv, Separated, Below, Hidden
  <2>2. CASE x = b
    BY <1>1, <1>3, <2>2 DEF IInv, RestOK
  <2>3. CASE x \in Range(kept) /\ y = b
    <3>1. ~TooBig(boxes[x], image)
      BY <2>3 DEF IInv, Separated
    <3>2. SUFFICES ASSUME Below(x, y) PROVE ~Hidden(x, y)
      BY <3>1
    <3>3. Below(y, x) /\ ~Hidden(y, x)
      BY <1>1, <2>3 DEF IInv, RestOK
    <3>4. Area(boxes[x]) \in Nat /\ Area(boxes[y]) \in Nat
      BY <1>3, <2>3, AreaIsNat DEF IInv, BoxesOK, InPage
    <3>5. Area(boxes[x]) = Area(boxes[y])
      BY <3>2, <3>3, <3>4 DEF Below
    <3>6. Overlap(boxes[x], boxes[y]) = Overlap(boxes[y], boxes[x])
      BY OverlapSymmetric
    <3> QED BY <3>3, <3>5, <3>6 DEF Hidden, Suppressed
  <2> QED BY <1>3, <2>1, <2>2, <2>3
<1>11. GarbageUnused'
  BY <1>2 DEF IInv, GarbageUnused, Fresh
<1> QED BY <1>4, <1>5, <1>8, <1>9, <1>10, <1>11 DEF IInv

\* The blocks in the order of their centres are the same blocks.
LEMMA ArrangeIInv == IInv /\ ArrangeBlocks => IInv'
<1> SUFFICES ASSUME IInv, ArrangeBlocks PROVE IInv'
  OBVIOUS
<1>1. /\ UNCHANGED <<image, boxes, rest, line_group, tmp, neat_target, verdict>>
      /\ pc = "nms_blocks" /\ pc' = "connect" /\ rest = {}
  BY DEF ArrangeBlocks, page_vars, out_vars
<1>2. /\ Range(kept') = Range(kept)
      /\ kept' \in [DOMAIN kept -> Range(kept)]
  BY DEF ArrangeBlocks, Arrangements
<1>3. DOMAIN kept = 1..Len(kept) /\ Len(kept) \in Nat /\ Range(kept) \subseteq DOMAIN boxes
  BY DEF IInv, BoxesOK, Range
<1>4. kept' \in Seq(DOMAIN boxes)
  BY <1>2, <1>3
<1>5. BoxesOK'
  BY <1>1, <1>4 DEF IInv, BoxesOK, InPage
<1>6. GroupsOK'
  <2>1. DOMAIN boxes = 1..Len(image.stats)
    BY <1>1 DEF IInv, GroupsOK, BoxesOK
  <2>2. line_group \in Seq((SUBSET DOMAIN boxes) \ {{}})
    BY <1>1 DEF IInv, GroupsOK
  <2> QED BY <1>1, <2>1, <2>2 DEF IInv, GroupsOK
<1>7. RestOK' /\ CoveredOrLeft' /\ Separated' /\ GarbageUnused'
  BY <1>1, <1>2 DEF IInv, RestOK, CoveredOrLeft, Separated, GarbageUnused, Below, Hidden, Fresh
<1> QED BY <1>5, <1>6, <1>7 DEF IInv

\* A step that leaves the boxes and what Nms has made of them.
LEMMA NmsKept ==
    ASSUME IInv, UNCHANGED <<image, boxes, rest, kept>>
    PROVE  BoxesOK' /\ RestOK' /\ CoveredOrLeft' /\ Separated'
<1>1. BoxesOK'
  BY DEF IInv, BoxesOK, InPage
<1>2. RestOK' /\ CoveredOrLeft' /\ Separated'
  BY DEF IInv, RestOK, CoveredOrLeft, Separated, Below, Hidden
<1> QED BY <1>1, <1>2

\* A round of the inner loop of ConnectBlock.
LEMMA JoinIInv == IInv /\ JoinBlock => IInv'
<1> SUFFICES ASSUME IInv, JoinBlock PROVE IInv'
  OBVIOUS
<1>1. /\ UNCHANGED <<image, boxes, rest, kept, line_group, neat_target, verdict, pc>>
      /\ pc = "connect"
  BY DEF JoinBlock, page_vars, out_vars, nms_vars
<1> DEFINE i == kept[index]
           k == kept[inner]
           t == Edges(i)
<1>2. i \in DOMAIN boxes /\ k \in DOMAIN boxes
  BY DEF JoinBlock, IInv, BoxesOK
<1>3. /\ boxes[i] \in Rects /\ boxes[k] \in Rects
      /\ DOMAIN boxes = 1..Len(image.stats)
  BY <1>1, <1>2 DEF IInv, BoxesOK, InPage, GroupsOK
<1> DEFINE T == [group : SUBSET (1..Len(image.stats)), left : Int, right : Int]
<1>4. t \in T
  BY <1>3 DEF Edges, IInv, GroupsOK, Rects, Right
<1>5. tmp' \in T
  <2>1. \A m, n \in Int : Min({m, n}) \in Int /\ Max({m, n}) \in Int
    <3> SUFFICES ASSUME NEW m \in Int, NEW n \in Int
                 PROVE  Min({m, n}) \in Int /\ Max({m, n}) \in Int
      OBVIOUS
    <3>1. \E x \in {m, n} : \A y \in {m, n} : x <= y
      BY m <= n \/ n <= m
    <3>2. \E x \in {m, n} : \A y \in {m, n} : x >= y
      BY m <= n \/ n <= m
    <3>3. Min({m, n}) \in {m, n} /\ Max({m, n}) \in {m, n}
      BY <3>1, <3>2 DEF Min, Max
    <3> QED BY <3>3
  <2>2. boxes[k].x \in Int /\ Right(boxes[k]) \in Int
    BY <1>3 DEF Rects, Right
  <2>3. tmp' = t \/ tmp' = [group |-> t.group \cup {i, k},
                            left  |-> Min({t.left, boxes[k].x}),
                            right |-> Max({t.right, Right(boxes[k])})]
    BY DEF JoinBlock
  <2>4. t.group \cup {i, k} \in SUBSET (1..Len(image.stats))
    BY <1>2, <1>3, <1>4
  <2>5. Min({t.left, boxes[k].x}) \in Int /\ Max({t.right, Right(boxes[k])}) \in Int
    BY <1>4, <2>1, <2>2
  <2> HIDE DEF t, i, k
  <2> QED BY <1>4, <2>3, <2>4, <2>5
<1>6. GroupsOK'
  <2>1. tmp'.group \subseteq DOMAIN boxes
    BY <1>3, <1>5
  <2> QED BY <1>1, <1>5, <2>1 DEF IInv, GroupsOK
<1>7. GarbageUnused'
  BY <1>1 DEF IInv, GarbageUnused, Fresh
<1> QED BY <1>1, <1>6, <1>7, NmsKept DEF IInv

\* The end of a round of the outer loop of ConnectBlock.
LEMMA CloseIInv == IInv /\ CloseGroup => IInv'
<1> SUFFICES ASSUME IInv, CloseGroup PROVE IInv'
  OBVIOUS
<1>1. /\ UNCHANGED <<image, boxes, rest, kept, neat_target, verdict, pc>>
      /\ pc = "connect" /\ tmp' = Empty /\ index \in DOMAIN kept
      /\ line_group' = IF tmp.group = {} THEN line_group ELSE Append(line_group, tmp.group)
  BY DEF CloseGroup, page_vars, out_vars, nms_vars
<1>2. tmp' \in [group : SUBSET (1..Len(image.stats)), left : Int, right : Int]
  BY <1>1 DEF Empty
<1>3. line_group' \in Seq((SUBSET DOMAIN boxes) \ {{}})
  BY <1>1 DEF IInv, GroupsOK
<1>4. boxes # <<>>
  <2>1. kept[index] \in DOMAIN boxes
    BY <1>1 DEF IInv, BoxesOK
  <2> QED BY <2>1
<1>5. GroupsOK'
  BY <1>1, <1>2, <1>3, <1>4 DEF IInv, GroupsOK, Empty
<1>6. GarbageUnused'
  BY <1>1 DEF IInv, GarbageUnused, Fresh
<1> QED BY <1>1, <1>5, <1>6, NmsKept DEF IInv

\* Nms begins on boxes within the page.
LEMMA NmsBegins ==
    ASSUME kept' = <<>>, rest' = {n \in DOMAIN boxes' : ~TooBig(boxes[n], image)'}
    PROVE  RestOK' /\ CoveredOrLeft' /\ Separated'
<1>1. Range(kept') = {}
  BY DEF Range
<1> QED BY <1>1 DEF RestOK, CoveredOrLeft, Separated

\* The lines become the boxes of the second Nms.
LEMMA MergeIInv == IInv /\ MergeLines => IInv'
<1> SUFFICES ASSUME IInv, MergeLines PROVE IInv'
  OBVIOUS
<1>1. /\ UNCHANGED <<image, line_group, tmp, neat_target, verdict>>
      /\ pc = "connect" /\ pc' = "nms_lines" /\ line_group # <<>>
      /\ boxes' = Lines /\ kept' = <<>>
      /\ rest' = {n \in DOMAIN Lines : ~TooBig(Lines[n], image)}
  BY DEF MergeLines, NoPicks, page_vars, scan_vars, out_vars
<1>2. \A n \in DOMAIN line_group : InPage(Lines[n])
  <2> SUFFICES ASSUME NEW n \in DOMAIN line_group PROVE InPage(Lines[n])
    OBVIOUS
  <2> DEFINE S == {boxes[i] : i \in line_group[n]}
  <2>1. line_group[n] \subseteq DOMAIN boxes /\ line_group[n] # {}
    BY <1>1 DEF IInv, GroupsOK
  <2>2. /\ S \subseteq Rects /\ S # {}
        /\ \A r \in S : Right(r) <= image.cols /\ Bottom(r) <= image.rows
    BY <2>1 DEF IInv, BoxesOK, InPage
  <2>3. Lines[n] = Around(S)
    BY DEF Lines
  <2>4. image.cols \in Nat /\ image.rows \in Nat
    BY DEF IInv, BoxesOK
  <2> HIDE DEF S
  <2>5. /\ Around(S) \in Rects
        /\ Right(Around(S)) <= image.cols
        /\ Bottom(Around(S)) <= image.rows
    BY <2>2, <2>4, AroundRect
  <2> QED BY <2>3, <2>5 DEF InPage
<1>3. Lines \in Seq(Rects) /\ DOMAIN Lines = DOMAIN line_group
  <2>1. DOMAIN line_group = 1..Len(line_group) /\ Len(line_group) \in Nat
    BY <1>1 DEF IInv, GroupsOK
  <2>2. Lines \in [1..Len(line_group) -> Rects]
    BY <1>2, <2>1 DEF Lines, InPage
  <2> QED BY <2>1, <2>2
<1>4. BoxesOK'
  BY <1>1, <1>2, <1>3 DEF IInv, BoxesOK, InPage
<1>5. GroupsOK'
  BY <1>1 DEF IInv, GroupsOK
<1>6. RestOK' /\ CoveredOrLeft' /\ Separated'
  BY <1>1, NmsBegins
<1>7. GarbageUnused'
  BY <1>1 DEF IInv, GarbageUnused, Fresh
<1> QED BY <1>4, <1>5, <1>6, <1>7 DEF IInv

\* The beginning of IsNoteNeat.
LEMMA CallIInv == ASSUME NEW img \in Images, IInv, IsNoteNeat(img) PROVE IInv'
<1>1. /\ image' = img /\ boxes' = img.stats /\ kept' = <<>>
      /\ rest' = {i \in DOMAIN img.stats : ~TooBig(img.stats[i], img)}
      /\ line_group' = <<>> /\ tmp' = Empty /\ pc' = "nms_blocks"
      /\ neat_target' = Fresh /\ verdict' = FALSE
  BY DEF IsNoteNeat, ReportOnEntry
<1>2. /\ img.rows \in Nat /\ img.cols \in Nat /\ img.stats \in Seq(Rects)
      /\ \A i \in DOMAIN img.stats :
            /\ img.stats[i].x + img.stats[i].w <= img.cols
            /\ img.stats[i].y + img.stats[i].h <= img.rows
  BY ImagesAssumption
<1>3. BoxesOK'
  <2>1. \A i \in DOMAIN boxes' : InPage(boxes[i])'
    BY <1>1, <1>2 DEF InPage, Right, Bottom
  <2>2. kept' \in Seq(DOMAIN boxes') /\ rest' \subseteq DOMAIN boxes'
    BY <1>1
  <2> QED BY <1>1, <1>2, <2>1, <2>2 DEF BoxesOK
<1>4. GroupsOK'
  BY <1>1 DEF GroupsOK, Empty
<1>5. RestOK' /\ CoveredOrLeft' /\ Separated'
  BY <1>1, NmsBegins
<1>6. GarbageUnused'
  BY <1>1 DEF GarbageUnused, Fresh
<1> QED BY <1>3, <1>4, <1>5, <1>6 DEF IInv

\* The returns and the calls of Init.
LEMMA QuietIInv ==
    ASSUME IInv, UNCHANGED <<image, boxes, rest, kept, line_group, tmp>>,
           pc' = "idle" \/ UNCHANGED pc,
           image.stats = <<>> =>
               UNCHANGED neat_target /\ (verdict' = verdict \/ verdict' = FALSE)
    PROVE  IInv'
<1>1. GroupsOK'
  BY DEF IInv, GroupsOK
<1>2. GarbageUnused'
  BY DEF IInv, GarbageUnused, Fresh
<1> QED BY <1>1, <1>2, NmsKept DEF IInv

\* Every step of Init and of IsNoteNeat preserves the invariant.
LEMMA NextIInv == IInv /\ [Next]_vars => IInv'
<1> SUFFICES ASSUME IInv, [Next]_vars PROVE IInv'
  OBVIOUS
<1>1. ASSUME NEW c \in Configs, ReadConfig(c) PROVE IInv'
  BY <1>1, QuietIInv DEF ReadConfig, page_vars, nms_vars, scan_vars, out_vars
<1>2. CASE ReadThrows
  BY <1>2, QuietIInv DEF ReadThrows, page_vars, nms_vars, scan_vars, out_vars
<1>3. CASE ReturnNoLine
  BY <1>3, QuietIInv DEF ReturnNoLine, page_vars, nms_vars, scan_vars
<1>4. CASE Report
  <2>1. image.stats # <<>>
    BY <1>4 DEF Report, IInv, GroupsOK
  <2>2. pc' = "idle" /\ UNCHANGED <<image, boxes, rest, kept, line_group, tmp>>
    BY <1>4 DEF Report, page_vars, nms_vars, scan_vars
  <2> QED BY <2>1, <2>2, QuietIInv
<1>5. CASE UNCHANGED vars
  BY <1>5, QuietIInv DEF vars, page_vars, nms_vars, scan_vars, out_vars
<1> QED
  BY <1>1, <1>2, <1>3, <1>4, <1>5, CallIInv, PickIInv, ArrangeIInv, JoinIInv, CloseIInv,
     MergeIInv DEF Next, Step

\* The process starts with the invariant.
LEMMA InitIInv == Init => IInv
<1> SUFFICES ASSUME Init PROVE IInv
  OBVIOUS
<1>1. Range(kept) = {} /\ rest = {} /\ DOMAIN boxes = {}
  BY DEF Init, Range
<1>2. BoxesOK
  BY <1>1 DEF Init, BoxesOK
<1>3. GroupsOK
  BY DEF Init, GroupsOK, Empty
<1>4. RestOK /\ CoveredOrLeft /\ Separated
  BY <1>1 DEF RestOK, CoveredOrLeft, Separated
<1>5. GarbageUnused
  BY DEF Init, GarbageUnused
<1> QED BY <1>2, <1>3, <1>4, <1>5 DEF IInv

\* Every reachable state satisfies it.
LEMMA Invariant == Spec => []IInv
BY InitIInv, NextIInv, PTL DEF Spec

-----------------------------------------------------------------------------

\* On any page, and after both passes, no box that Nms keeps covers half of one
\* that is no greater, and none takes more than a fifth of the page.
THEOREM NmsSeparates == Spec => []Separated
<1>1. IInv => Separated
  BY DEF IInv
<1> QED BY <1>1, Invariant, PTL

\* The lesser and the greater of two numbers.
LEMMA MinMaxOfPair ==
    ASSUME NEW m \in Int, NEW n \in Int
    PROVE  /\ Min({m, n}) = IF m <= n THEN m ELSE n
           /\ Max({m, n}) = IF m <= n THEN n ELSE m
<1> DEFINE least == IF m <= n THEN m ELSE n
           greatest == IF m <= n THEN n ELSE m
<1>1. \A x \in {m, n} : (\A y \in {m, n} : x <= y) <=> x = least
  OBVIOUS
<1>2. \A x \in {m, n} : (\A y \in {m, n} : x >= y) <=> x = greatest
  OBVIOUS
<1>3. least \in {m, n} /\ greatest \in {m, n}
  OBVIOUS
<1> HIDE DEF least, greatest
<1>4. Min({m, n}) = least
  BY <1>1, <1>3 DEF Min
<1>5. Max({m, n}) = greatest
  BY <1>2, <1>3 DEF Max
<1> QED BY <1>4, <1>5 DEF least, greatest

\* The length that two intervals have in common, negative when they lie apart,
\* is 0 or more exactly when they touch, and no greater than either.
LEMMA CommonLength ==
    ASSUME NEW p \in Nat, NEW m \in Nat \ {0}, NEW q \in Nat, NEW n \in Nat \ {0}
    PROVE  LET c == Min({p + m, q + n}) - Max({p, q})
           IN  /\ c \in Int /\ c <= m /\ c <= n
               /\ c >= 0 <=> p <= q + n /\ q <= p + m
               /\ Max({0, c}) = IF c >= 0 THEN c ELSE 0
               /\ Max({0, c + 1}) = IF c >= 0 THEN c + 1 ELSE 0
<1> DEFINE c == Min({p + m, q + n}) - Max({p, q})
<1>1. /\ Min({p + m, q + n}) = IF p + m <= q + n THEN p + m ELSE q + n
      /\ Max({p, q}) = IF p <= q THEN q ELSE p
  <2>1. p + m \in Int /\ q + n \in Int /\ p \in Int /\ q \in Int
    OBVIOUS
  <2> QED BY <2>1, MinMaxOfPair, Zenon
<1>2. c \in Int /\ c <= m /\ c <= n /\ (c >= 0 <=> p <= q + n /\ q <= p + m)
  BY <1>1
<1> HIDE DEF c
<1>3. /\ Max({0, c}) = IF c >= 0 THEN c ELSE 0
      /\ Max({0, c + 1}) = IF c >= 0 THEN c + 1 ELSE 0
  <2>1. 0 \in Int /\ c \in Int /\ c + 1 \in Int
    BY <1>2
  <2>2. /\ Max({0, c}) = IF 0 <= c THEN c ELSE 0
        /\ Max({0, c + 1}) = IF 0 <= c + 1 THEN c + 1 ELSE 0
    BY <2>1, MinMaxOfPair, Zenon
  <2> QED BY <2>1, <2>2
<1> QED BY <1>2, <1>3 DEF c

\* What Iou counts, and what is really common, in terms of the common width u
\* and the common height v.
LEMMA OverlapParts ==
    ASSUME NEW a \in Rects, NEW b \in Rects
    PROVE  \E u, v \in Int :
              /\ u <= a.w /\ v <= a.h
              /\ Touch(a, b) <=> u >= 0 /\ v >= 0
              /\ Touch(a, b) => Overlap(a, b) = (u + 1) * (v + 1) /\ Common(a, b) = u * v
              /\ ~Touch(a, b) => Overlap(a, b) = 0 /\ Common(a, b) = 0
              /\ u = Min({Right(a), Right(b)}) - Max({a.x, b.x})
              /\ v = Min({Bottom(a), Bottom(b)}) - Max({a.y, b.y})
<1>1. /\ a.x \in Nat /\ a.y \in Nat /\ a.w \in Nat \ {0} /\ a.h \in Nat \ {0}
      /\ b.x \in Nat /\ b.y \in Nat /\ b.w \in Nat \ {0} /\ b.h \in Nat \ {0}
  BY DEF Rects
<1> DEFINE u == Min({Right(a), Right(b)}) - Max({a.x, b.x})
           v == Min({Bottom(a), Bottom(b)}) - Max({a.y, b.y})
<1>2. /\ u \in Int /\ u <= a.w
      /\ u >= 0 <=> a.x <= Right(b) /\ b.x <= Right(a)
      /\ Max({0, u}) = IF u >= 0 THEN u ELSE 0
      /\ Max({0, u + 1}) = IF u >= 0 THEN u + 1 ELSE 0
  BY <1>1, CommonLength DEF Right
<1>3. /\ v \in Int /\ v <= a.h
      /\ v >= 0 <=> a.y <= Bottom(b) /\ b.y <= Bottom(a)
      /\ Max({0, v}) = IF v >= 0 THEN v ELSE 0
      /\ Max({0, v + 1}) = IF v >= 0 THEN v + 1 ELSE 0
  BY <1>1, CommonLength DEF Bottom
<1>4. /\ Overlap(a, b) = Max({0, u + 1}) * Max({0, v + 1})
      /\ Common(a, b) = Max({0, u}) * Max({0, v})
  BY DEF Overlap, Common
<1>5. Touch(a, b) <=> u >= 0 /\ v >= 0
  BY <1>2, <1>3 DEF Touch
<1> HIDE DEF u, v
<1>6. Touch(a, b) => Overlap(a, b) = (u + 1) * (v + 1) /\ Common(a, b) = u * v
  BY <1>2, <1>3, <1>4, <1>5
<1>7. ~Touch(a, b) => Overlap(a, b) = 0 /\ Common(a, b) = 0
  BY <1>2, <1>3, <1>4, <1>5
<1> WITNESS u \in Int, v \in Int
<1> QED BY <1>2, <1>3, <1>5, <1>6, <1>7 DEF u, v

\* What the test of Iou means for the boxes themselves: the +1 counts at most
\* w + h + 1 pixels too many, and a box of 3 by 3 or more must be overlapped.
LEMMA SuppressedMeans ==
    ASSUME NEW a \in Rects, NEW b \in Rects, Suppressed(a, b)
    PROVE  /\ Touch(a, b)
           /\ 2 * (Common(a, b) + a.w + a.h + 1) > Area(a)
           /\ a.w >= 3 /\ a.h >= 3 => Common(a, b) > 0
<1> DEFINE w == a.w
           h == a.h
<1>1. w \in Nat \ {0} /\ h \in Nat \ {0} /\ Area(a) = w * h /\ w * h \in Nat
  BY DEF Rects, Area
<1>2. PICK u, v \in Int :
         /\ u <= w /\ v <= h
         /\ Touch(a, b) <=> u >= 0 /\ v >= 0
         /\ Touch(a, b) => Overlap(a, b) = (u + 1) * (v + 1) /\ Common(a, b) = u * v
         /\ ~Touch(a, b) => Overlap(a, b) = 0 /\ Common(a, b) = 0
  BY OverlapParts
<1>3. Touch(a, b)
  BY <1>1, <1>2 DEF Suppressed
<1>4. /\ u \in Nat /\ v \in Nat /\ Common(a, b) = u * v
      /\ 2 * ((u + 1) * (v + 1)) > w * h
  BY <1>1, <1>2, <1>3 DEF Suppressed
<1> HIDE DEF w, h
<1>5. (u + 1) * (v + 1) = u * v + u + v + 1 /\ u * v \in Nat
  BY <1>4
<1>6. 2 * (u * v + w + h + 1) > w * h
  <2> DEFINE c == u * v
             area == w * h
  <2>1. c \in Nat /\ area \in Nat /\ 2 * (c + u + v + 1) > area
    BY <1>1, <1>4, <1>5
  <2> HIDE DEF c, area
  <2>2. 2 * (c + w + h + 1) > area
    BY <1>1, <1>2, <1>4, <2>1
  <2> QED BY <2>2 DEF c, area
<1>7. ASSUME w >= 3, h >= 3 PROVE u * v > 0
  <2>1. SUFFICES ASSUME u = 0 \/ v = 0 PROVE FALSE
    BY <1>4
  <2>2. w * h >= 3 * h /\ w * h >= 3 * w
    BY <1>1, <1>7
  <2>3. CASE u = 0
    <3>1. 2 * (v + 1) > w * h
      BY <1>4, <2>3
    <3> DEFINE area == w * h
    <3>2. area \in Nat /\ area >= 3 * h /\ 2 * (v + 1) > area
      BY <1>1, <2>2, <3>1
    <3> HIDE DEF area
    <3> QED BY <1>1, <1>2, <1>4, <1>7, <3>2
  <2>4. CASE v = 0
    <3>1. 2 * (u + 1) > w * h
      BY <1>4, <2>4
    <3> DEFINE area == w * h
    <3>2. area \in Nat /\ area >= 3 * w /\ 2 * (u + 1) > area
      BY <1>1, <2>2, <3>1
    <3> HIDE DEF area
    <3> QED BY <1>1, <1>2, <1>4, <1>7, <3>2
  <2> QED BY <2>1, <2>3, <2>4
<1> QED BY <1>1, <1>3, <1>4, <1>6, <1>7 DEF w, h

\* On any page whatever Nms drops is huge, or is touched by a box that it keeps
\* and that is no smaller, which covers half of it but for a column and a row.
THEOREM DropsAreCaused == Spec => []DropsHaveCause
<1>1. IInv => DropsHaveCause
  <2> SUFFICES ASSUME IInv, rest = {}, NEW n \in DOMAIN boxes,
                      n \notin Range(kept), ~TooBig(boxes[n], image)
               PROVE  \E k \in Range(kept) :
                         /\ Area(boxes[n]) <= Area(boxes[k])
                         /\ Touch(boxes[n], boxes[k])
                         /\ 2 * (Common(boxes[n], boxes[k]) + boxes[n].w + boxes[n].h + 1)
                               > Area(boxes[n])
                         /\ boxes[n].w >= 3 /\ boxes[n].h >= 3 =>
                               Common(boxes[n], boxes[k]) > 0
    BY DEF DropsHaveCause
  <2>1. PICK k \in Range(kept) : /\ Area(boxes[n]) <= Area(boxes[k])
                                 /\ Suppressed(boxes[n], boxes[k])
    BY DEF IInv, CoveredOrLeft, Below, Hidden
  <2>2. boxes[n] \in Rects /\ boxes[k] \in Rects
    <3>1. boxes \in Seq(Rects) /\ Range(kept) \subseteq DOMAIN boxes
      BY RangeAppend, Zenon DEF IInv, BoxesOK
    <3> QED BY <3>1
  <2> QED BY <2>1, <2>2, SuppressedMeans
<1> QED BY <1>1, Invariant, PTL

\* The column and the row that Iou adds are enough by themselves: a box of one or
\* two rows is suppressed by any box right below it that is as wide, although
\* the two have no pixel in common.
THEOREM TouchingSuppresses ==
    ASSUME NEW a \in Rects, NEW b \in Rects, a.h <= 2,
           b.y = Bottom(a), b.x <= a.x, Right(a) <= Right(b)
    PROVE  Suppressed(a, b) /\ Common(a, b) = 0
<1> DEFINE w == a.w
           h == a.h
<1>1. /\ a.x \in Nat /\ a.y \in Nat /\ w \in Nat \ {0} /\ h \in Nat \ {0}
      /\ b.x \in Nat /\ b.y \in Nat /\ b.w \in Nat \ {0} /\ b.h \in Nat \ {0}
  BY DEF Rects
<1>2. PICK u, v \in Int :
         /\ Touch(a, b) => Overlap(a, b) = (u + 1) * (v + 1) /\ Common(a, b) = u * v
         /\ u = Min({Right(a), Right(b)}) - Max({a.x, b.x})
         /\ v = Min({Bottom(a), Bottom(b)}) - Max({a.y, b.y})
  BY OverlapParts
<1>3. Touch(a, b)
  BY <1>1 DEF Touch, Right, Bottom
<1>4. u = w
  <2>1. Right(a) = a.x + w /\ Right(a) \in Int /\ Right(b) \in Int
    BY <1>1 DEF Right
  <2>2. Min({Right(a), Right(b)}) = Right(a) /\ Max({a.x, b.x}) = a.x
    <3>1. a.x \in Int /\ b.x \in Int
      BY <1>1
    <3>2. /\ Min({Right(a), Right(b)}) = IF Right(a) <= Right(b) THEN Right(a) ELSE Right(b)
          /\ Max({a.x, b.x}) = IF a.x <= b.x THEN b.x ELSE a.x
      BY <2>1, <3>1, MinMaxOfPair, Zenon
    <3> QED BY <1>1, <3>2
  <2> QED BY <1>1, <1>2, <2>1, <2>2
<1>5. v = 0
  <2>1. Bottom(a) = b.y /\ Bottom(b) = b.y + b.h /\ a.y <= b.y
    BY <1>1 DEF Bottom
  <2>2. Min({Bottom(a), Bottom(b)}) = Bottom(a) /\ Max({a.y, b.y}) = b.y
    <3>1. a.y \in Int /\ b.y \in Int /\ Bottom(a) \in Int /\ Bottom(b) \in Int
      BY <1>1, <2>1
    <3>2. /\ Min({Bottom(a), Bottom(b)}) = IF Bottom(a) <= Bottom(b) THEN Bottom(a) ELSE Bottom(b)
          /\ Max({a.y, b.y}) = IF a.y <= b.y THEN b.y ELSE a.y
      BY <3>1, MinMaxOfPair, Zenon
    <3> QED BY <1>1, <2>1, <3>2
  <2> QED BY <1>1, <1>2, <2>1, <2>2
<1>6. Overlap(a, b) = w + 1 /\ Common(a, b) = 0
  <2>1. Overlap(a, b) = (u + 1) * (v + 1) /\ Common(a, b) = u * v
    BY <1>2, <1>3
  <2> HIDE DEF w
  <2>2. Overlap(a, b) = (w + 1) * (0 + 1) /\ Common(a, b) = w * 0
    BY <1>4, <1>5, <2>1, Zenon
  <2> QED BY <1>1, <2>2
<1>7. w * h <= 2 * w
  BY <1>1
<1> QED BY <1>1, <1>6, <1>7 DEF Suppressed, Area

\* Whatever lies behind stats in memory, an empty page is reported as such.
THEOREM EmptyPageIsClean == Spec => []GarbageUnused
<1>1. IInv => GarbageUnused
  BY DEF IInv
<1> QED BY <1>1, Invariant, PTL

-----------------------------------------------------------------------------
(* The sum that mean_height is made of.                                      *)

\* Induction: a set of naturals with 0 and every successor has them all.
LEMMA SetInduction ==
    ASSUME NEW S \in SUBSET Nat, 0 \in S, \A n \in S : n + 1 \in S
    PROVE  S = Nat
<1> SUFFICES ASSUME Nat \ S # {} PROVE FALSE
  OBVIOUS
<1>1. PICK n \in Nat \ S : \A k \in Nat \ S : n <= k
  BY MinOfNat
<1>2. n - 1 \in Nat /\ ~(n <= n - 1) /\ (n - 1) + 1 = n
  OBVIOUS
<1> QED BY <1>1, <1>2

\* A round of the fold that SumFunction is: some element, and the sum of the others.
SomeOf(s) == CHOOSE x \in s : TRUE
AddUp(fun, it, s) == IF s = {} THEN 0 ELSE fun[SomeOf(s)] + it[s \ {SomeOf(s)}]

\* Naturals add up to a natural.  The fold is defined on the subsets of at most n
\* elements for every n, by induction, and so on all of them.
LEMMA SumOfNat ==
    ASSUME NEW fun, NEW S, IsFiniteSet(S), \A x \in S : fun[x] \in Nat
    PROVE  SumFunctionOnSet(fun, S) \in Nat
<1> DEFINE D(n) == {s \in SUBSET S : Cardinality(s) <= n}
           E == {n \in Nat : \E f : f = [s \in D(n) |-> AddUp(fun, f, s)]}
           it == CHOOSE f : f = [s \in SUBSET S |-> AddUp(fun, f, s)]
           G == {n \in Nat : \A s \in D(n) : it[s] \in Nat}
<1>1. SumFunctionOnSet(fun, S) = it[S]
  BY Zenon DEF SumFunctionOnSet, FoldFunctionOnSet, MapThenFoldSet, AddUp, SomeOf
<1>2. \A s \in SUBSET S : IsFiniteSet(s) /\ Cardinality(s) \in Nat
  BY FS_Subset, FS_CardinalityType
<1>3. \A n \in Nat : \A s \in D(n + 1) :
         s # {} => /\ SomeOf(s) \in s
                   /\ s \ {SomeOf(s)} \in D(n)
                   /\ s \ {SomeOf(s)} \in D(n + 1)
  <2> SUFFICES ASSUME NEW n \in Nat, NEW s \in D(n + 1), s # {}
               PROVE  /\ SomeOf(s) \in s
                      /\ s \ {SomeOf(s)} \in D(n)
                      /\ s \ {SomeOf(s)} \in D(n + 1)
    OBVIOUS
  <2>1. SomeOf(s) \in s
    BY DEF SomeOf
  <2>2. Cardinality(s \ {SomeOf(s)}) = Cardinality(s) - 1
    BY <1>2, <2>1, FS_RemoveElement
  <2> QED BY <1>2, <2>1, <2>2
<1>4. \A s \in D(0) : s = {}
  BY <1>2, FS_EmptySet
<1> HIDE DEF D, it
<1>5. 0 \in E
  <2> DEFINE f == [s \in D(0) |-> 0]
  <2>1. f = [s \in D(0) |-> AddUp(fun, f, s)]
    BY <1>4 DEF AddUp
  <2> QED BY <2>1, Zenon
<1>6. \A n \in E : n + 1 \in E
  <2> SUFFICES ASSUME NEW n \in E PROVE n + 1 \in E
    OBVIOUS
  <2>1. PICK f : f = [s \in D(n) |-> AddUp(fun, f, s)]
    OBVIOUS
  <2> DEFINE h == [s \in D(n + 1) |-> AddUp(fun, f, s)]
  <2>2. \A s \in D(n + 1) : AddUp(fun, f, s) = AddUp(fun, h, s)
    <3> SUFFICES ASSUME NEW s \in D(n + 1), s # {}
                 PROVE  f[s \ {SomeOf(s)}] = h[s \ {SomeOf(s)}]
      BY DEF AddUp
    <3>1. s \ {SomeOf(s)} \in D(n) /\ s \ {SomeOf(s)} \in D(n + 1)
      BY <1>3
    <3> QED BY <2>1, <3>1
  <2>3. h = [s \in D(n + 1) |-> AddUp(fun, h, s)]
    BY <2>2
  <2> HIDE DEF h
  <2> QED BY <2>3
<1>7. E = Nat
  BY <1>5, <1>6, SetInduction
<1>8. Cardinality(S) \in Nat /\ D(Cardinality(S)) = SUBSET S
  BY <1>2, FS_Subset, FS_CardinalityType DEF D
<1>9. it = [s \in SUBSET S |-> AddUp(fun, it, s)]
  <2>1. \E f : f = [s \in D(Cardinality(S)) |-> AddUp(fun, f, s)]
    BY <1>7, <1>8
  <2>2. \E f : f = [s \in SUBSET S |-> AddUp(fun, f, s)]
    BY <1>8, <2>1, Zenon
  <2> QED BY <2>2, Zenon DEF it
<1>10. 0 \in G
  BY <1>4, <1>9 DEF AddUp
<1>11. \A n \in G : n + 1 \in G
  <2> SUFFICES ASSUME NEW n \in G, NEW s \in D(n + 1) PROVE it[s] \in Nat
    OBVIOUS
  <2>1. s \in SUBSET S
    BY DEF D
  <2>2. it[s] = AddUp(fun, it, s)
    BY <1>9, <2>1
  <2>3. CASE s = {}
    BY <2>2, <2>3 DEF AddUp
  <2>4. CASE s # {}
    BY <1>3, <2>1, <2>2, <2>4 DEF AddUp
  <2> QED BY <2>3, <2>4
<1>12. G = Nat
  BY <1>10, <1>11, SetInduction
<1> QED BY <1>1, <1>8, <1>12

\* The heights of the picked blocks add up to a natural.
LEMMA HeightSumIsNat == BoxesOK => HeightSum \in Nat
<1> SUFFICES ASSUME BoxesOK PROVE HeightSum \in Nat
  OBVIOUS
<1>1. DOMAIN kept = 1..Len(kept) /\ Len(kept) \in Nat
  BY DEF BoxesOK
<1>2. \A n \in DOMAIN kept : kept[n] \in DOMAIN boxes
  BY DEF BoxesOK
<1>3. \A n \in DOMAIN Heights : Heights[n] \in Nat
  BY <1>2 DEF Heights, BoxesOK, InPage, Rects
<1>4. IsFiniteSet(DOMAIN Heights)
  BY <1>1, FS_Interval DEF Heights
<1> QED BY <1>3, <1>4, SumOfNat DEF HeightSum, SumFunction

-----------------------------------------------------------------------------
(* What ConnectBlock makes a line of.                                        *)

\* Nms picks a box once.
PicksOnce == IsInjective(kept) /\ \A b \in Range(kept) : b \notin rest

\* No block of a group is a gap away from all the others.
Linked(G) == \A a \in G : G # {a} => \E b \in G \ {a} : ~Apart(boxes[a], boxes[b])

\* The centres of any two blocks of a group are within twice the mean height.
Compact(G) ==
    \A a, b \in G : Len(kept) * Abs(Centre2(boxes[a]) - Centre2(boxes[b])) < 4 * HeightSum

\* What holds of the group t that grows around block i when the blocks before n
\* were looked at: its edges are edges of its blocks, or still of i alone.
Grown(i, t, n) ==
    /\ t.group # {} => i \in t.group
    /\ \E p \in t.group \cup {i} : t.left = boxes[p].x
    /\ \E p \in t.group \cup {i} : t.right = Right(boxes[p])
    /\ \A j \in t.group : Level(boxes[i], boxes[j])
    /\ \A j \in t.group : j = i \/ \E m \in 1..(n - 1) : j = kept[m]
    /\ Linked(t.group)

Growing ==
    pc = "connect" /\ index \in DOMAIN kept =>
        Grown(kept[index], Edges(kept[index]), inner)

\* The inductive invariant of ConnectBlock, on top of that of Nms.
LineInv == PicksOnce /\ TypeOK /\ Growing /\ LinesAreWhole

\* A pick is new: it was among the rest.
LEMMA PickOnce == IInv /\ PicksOnce /\ Pick => PicksOnce'
<1> SUFFICES ASSUME IInv, PicksOnce, Pick PROVE PicksOnce'
  OBVIOUS
<1>1. PICK b \in rest : kept' = Append(kept, b) /\ rest' = Survivors(b)
  BY DEF Pick
<1>2. /\ b \in DOMAIN boxes /\ kept \in Seq(DOMAIN boxes) /\ b \notin Range(kept)
      /\ rest' \subseteq rest \ {b}
  BY <1>1 DEF IInv, BoxesOK, PicksOnce, Survivors
<1>3. Range(kept') = Range(kept) \cup {b}
  BY <1>1, <1>2, RangeAppend
<1>4. /\ DOMAIN kept = 1..Len(kept) /\ Len(kept) \in Nat
      /\ DOMAIN kept' = 1..(Len(kept) + 1)
      /\ kept'[Len(kept) + 1] = b
      /\ \A n \in DOMAIN kept : kept'[n] = kept[n] /\ kept[n] # b
  BY <1>1, <1>2 DEF Range
<1>5. IsInjective(kept')
  <2> SUFFICES ASSUME NEW m \in DOMAIN kept', NEW n \in DOMAIN kept', kept'[m] = kept'[n]
               PROVE  m = n
    BY DEF IsInjective
  <2>1. m \in DOMAIN kept \/ m = Len(kept) + 1
    BY <1>4
  <2>2. n \in DOMAIN kept \/ n = Len(kept) + 1
    BY <1>4
  <2> QED BY <1>4, <2>1, <2>2 DEF PicksOnce, IsInjective
<1> QED BY <1>2, <1>3, <1>5 DEF PicksOnce

\* The sort moves every block to a place of its own.
LEMMA ArrangeOnce == IInv /\ PicksOnce /\ ArrangeBlocks => PicksOnce'
<1> SUFFICES ASSUME IInv, PicksOnce, ArrangeBlocks PROVE PicksOnce'
  OBVIOUS
<1> DEFINE D == DOMAIN kept
           R == Range(kept)
<1>1. /\ kept' \in [D -> R] /\ Range(kept') = R /\ rest' = rest
  BY DEF ArrangeBlocks, Arrangements
<1>2. kept \in [D -> R] /\ IsFiniteSet(D)
  <2>1. D = 1..Len(kept) /\ Len(kept) \in Nat
    BY DEF IInv, BoxesOK
  <2>2. IsFiniteSet(D)
    BY <2>1, FS_Interval
  <2>3. kept = [n \in D |-> kept[n]]
    BY DEF IInv, BoxesOK
  <2> QED BY <2>2, <2>3 DEF Range
<1>3. kept \in Injection(D, R) /\ kept \in Surjection(D, R)
  BY <1>2 DEF Injection, Surjection, PicksOnce, Range
<1>4. Cardinality(D) = Cardinality(R)
  BY <1>2, <1>3, FS_Surjection
<1>5. kept' \in Surjection(D, R)
  BY <1>1 DEF Surjection, Range
<1>6. kept' \in Injection(D, R)
  BY <1>2, <1>4, <1>5, FS_SurjSameCardinalityImpliesInj
<1>7. IsInjective(kept')
  BY <1>6 DEF Injection
<1> QED BY <1>1, <1>7 DEF PicksOnce

\* Every step of the program picks a box at most once.
LEMMA NextOnce == IInv /\ PicksOnce /\ [Next]_vars => PicksOnce'
<1> SUFFICES ASSUME IInv, PicksOnce, [Next]_vars PROVE PicksOnce'
  OBVIOUS
<1>1. ASSUME UNCHANGED <<kept, rest>> PROVE PicksOnce'
  BY <1>1 DEF PicksOnce
<1>2. ASSUME kept' = <<>> PROVE PicksOnce'
  <2>1. DOMAIN kept' = {}
    BY <1>2
  <2> QED BY <2>1 DEF PicksOnce, IsInjective, Range
<1>3. ASSUME NEW c \in Configs, ReadConfig(c) PROVE PicksOnce'
  BY <1>1, <1>3 DEF ReadConfig, nms_vars
<1>4. ASSUME NEW img \in Images, IsNoteNeat(img) PROVE PicksOnce'
  BY <1>2, <1>4 DEF IsNoteNeat
<1>5. CASE ReadThrows \/ JoinBlock \/ CloseGroup \/ ReturnNoLine \/ Report \/ UNCHANGED vars
  <2>1. UNCHANGED nms_vars
    <3>1. CASE ReadThrows \/ UNCHANGED vars
      BY <3>1 DEF ReadThrows, vars
    <3>2. CASE JoinBlock
      BY <3>2 DEF JoinBlock
    <3>3. CASE CloseGroup \/ ReturnNoLine
      BY <3>3 DEF CloseGroup, ReturnNoLine
    <3>4. CASE Report
      BY <3>4 DEF Report
    <3> QED BY <1>5, <3>1, <3>2, <3>3, <3>4
  <2> QED BY <1>1, <2>1 DEF nms_vars
<1>6. CASE MergeLines
  BY <1>2, <1>6 DEF MergeLines, NoPicks
<1> QED BY <1>3, <1>4, <1>5, <1>6, PickOnce, ArrangeOnce DEF Next, Step

\* There are no more picks than boxes.
LEMMA PicksFit == BoxesOK /\ PicksOnce => Len(kept) <= Len(boxes)
<1> SUFFICES ASSUME BoxesOK, PicksOnce PROVE Len(kept) <= Len(boxes)
  OBVIOUS
<1> DEFINE D == 1..Len(kept)
           B == 1..Len(boxes)
<1>1. /\ DOMAIN kept = D /\ Len(kept) \in Nat
      /\ DOMAIN boxes = B /\ Len(boxes) \in Nat
      /\ kept \in [D -> B]
  BY DEF BoxesOK
<1>2. kept \in Injection(D, B)
  BY <1>1 DEF PicksOnce, Injection
<1>3. /\ IsFiniteSet(B) /\ Cardinality(B) = Len(boxes) /\ Cardinality(D) = Len(kept)
  <2>1. \A n \in Nat : IsFiniteSet(1..n) /\ Cardinality(1..n) = n
    <3> TAKE n \in Nat
    <3>1. IsFiniteSet(1..n) /\ Cardinality(1..n) = IF 1 > n THEN 0 ELSE n - 1 + 1
      BY FS_Interval
    <3> QED BY <3>1
  <2> QED BY <1>1, <2>1
<1>4. Cardinality(D) <= Cardinality(B)
  BY <1>2, <1>3, FS_Injection
<1> QED BY <1>3, <1>4

\* The int that CalcProportion divides by 255 is an integer, and so is the quotient.
LEMMA TextPartIsInt == ASSUME NEW text \in Nat PROVE TextPart(text) \in Int
<1> DEFINE m == 2 * (INT_MAX + 1)
           n == 255 * text + INT_MAX + 1
<1>1. m \in Nat \ {0} /\ n \in Int
  BY BoundsAssumption
<1>2. n % m \in Int
  BY <1>1
<1>3. Wrap(255 * text) \in Int
  BY <1>1, <1>2, BoundsAssumption DEF Wrap
<1>4. \A k \in Int : k \div 255 \in Int
  OBVIOUS
<1> QED BY <1>3, <1>4 DEF TextPart

\* CalcProportion finds integers, on an empty page too.
LEMMA ProportionType ==
    ASSUME NEW img \in Images
    PROVE  CalcProportion(img) \subseteq [text_part : Int, block : Int]
<1>1. /\ img.text \in Nat /\ img.cols \in Nat /\ img.rows \in Nat
      /\ img.stats \in Seq(Rects)
      /\ \A i \in DOMAIN img.stats :
            Right(img.stats[i]) <= img.cols /\ Bottom(img.stats[i]) <= img.rows
  BY ImagesAssumption DEF Right, Bottom
<1> DEFINE S == Range(img.stats)
<1>2. ASSUME img.stats # <<>> PROVE Area(Around(S)) \in Int
  <2>1. DOMAIN img.stats # {}
    BY <1>1, <1>2
  <2>2. /\ S \subseteq Rects /\ S # {}
        /\ \A r \in S : Right(r) <= img.cols /\ Bottom(r) <= img.rows
    <3>1. \A i \in DOMAIN img.stats : img.stats[i] \in Rects
      BY <1>1
    <3>2. S = {img.stats[i] : i \in DOMAIN img.stats}
      BY DEF Range
    <3> QED BY <1>1, <2>1, <3>1, <3>2, Zenon
  <2> HIDE DEF S
  <2>3. Around(S) \in Rects
    BY <1>1, <2>2, AroundRect
  <2> QED BY <2>3, AreaIsNat
<1>3. TextPart(img.text) \in Int
  BY <1>1, TextPartIsInt
<1>4. GARBAGE \subseteq Int
  BY BoundsAssumption
<1> QED BY <1>2, <1>3, <1>4 DEF CalcProportion

\* The beginning of a call assigns everything anew.
LEMMA CallType ==
    ASSUME NEW img \in Images, IInv', TypeOK, IsNoteNeat(img) PROVE TypeOK'
<1>1. /\ image' = img /\ line_group' = <<>> /\ index' = 1 /\ inner' = 1
      /\ tmp' = Empty /\ pc' = "nms_blocks" /\ verdict' = FALSE /\ g' = g
      /\ work' = work + 1 + Len(img.stats) /\ work' <= MAX_WORK
      /\ proportion' \in CalcProportion(img)
  BY DEF IsNoteNeat
<1>2. /\ img \in [rows : Nat \ {0}, cols : Nat \ {0}, stats : Seq(Rects), text : Nat]
      /\ Len(img.stats) \in Nat
  BY ImagesAssumption
<1>3. proportion' \in [text_part : Int, block : Int]
  BY <1>1, ProportionType
<1>4. work' \in 0..MAX_WORK
  BY <1>1, <1>2, BoundsAssumption DEF TypeOK
<1>5. line_group' \in Seq(SUBSET (1..Len(image'.stats)))
  BY <1>1
<1>6. tmp' \in [group : SUBSET (1..Len(image'.stats)), left : Nat, right : Nat]
  BY <1>1 DEF Empty
<1>7. {index', inner'} \subseteq 1..(Len(image'.stats) + 1)
  BY <1>1, <1>2
<1>8. boxes' \in Seq(Rects) /\ rest' \subseteq DOMAIN boxes' /\ kept' \in Seq(DOMAIN boxes')
  BY DEF IInv, BoxesOK
<1> QED BY <1>1, <1>2, <1>3, <1>4, <1>5, <1>6, <1>7, <1>8 DEF TypeOK

\* A round of either loop of ConnectBlock moves within the blocks of the page.
LEMMA ConnectType ==
    ASSUME IInv, IInv', PicksOnce, TypeOK, JoinBlock \/ CloseGroup PROVE TypeOK'
<1>1. /\ UNCHANGED <<pc, g, image, proportion, boxes, rest, kept, verdict, work>>
      /\ pc = "connect" /\ index \in DOMAIN kept
  BY DEF JoinBlock, CloseGroup, page_vars, nms_vars, out_vars
<1>2. /\ boxes = image.stats /\ Len(kept) <= Len(image.stats)
      /\ DOMAIN kept = 1..Len(kept) /\ Len(kept) \in Nat /\ Len(image.stats) \in Nat
  <2>1. boxes = image.stats /\ BoxesOK /\ boxes \in Seq(Rects) /\ kept \in Seq(DOMAIN boxes)
    BY <1>1 DEF IInv, BoxesOK, GroupsOK
  <2>2. Len(kept) <= Len(boxes)
    BY <2>1, PicksFit
  <2>3. DOMAIN kept = 1..Len(kept) /\ Len(kept) \in Nat /\ Len(boxes) \in Nat
    BY <2>1
  <2> QED BY <2>1, <2>2, <2>3, Zenon
<1>3. CASE JoinBlock
  <2>1. inner \in DOMAIN kept /\ inner' = inner + 1 /\ UNCHANGED <<line_group, index>>
    BY <1>3 DEF JoinBlock
  <2>2. {index', inner'} \subseteq 1..(Len(image.stats) + 1)
    BY <1>1, <1>2, <2>1
  <2> DEFINE i == kept[index]
             k == kept[inner]
             t == Edges(i)
  <2>3. i \in DOMAIN boxes /\ k \in DOMAIN boxes
    BY <1>1, <2>1 DEF IInv, BoxesOK
  <2>4. /\ boxes[i].x \in Nat /\ Right(boxes[i]) \in Nat
        /\ boxes[k].x \in Nat /\ Right(boxes[k]) \in Nat
    <3>1. \A n \in DOMAIN boxes : boxes[n] \in Rects
      BY DEF IInv, BoxesOK, InPage
    <3>2. \A r \in Rects : r.x \in Nat /\ Right(r) \in Nat
      BY DEF Rects, Right
    <3> QED BY <2>3, <3>1, <3>2
  <2>5. tmp' = t \/ tmp' = [group |-> t.group \cup {i, k},
                            left  |-> Min({t.left, boxes[k].x}),
                            right |-> Max({t.right, Right(boxes[k])})]
    BY <1>3 DEF JoinBlock
  <2>6. t \in [group : SUBSET (1..Len(image.stats)), left : Nat, right : Nat]
    BY <2>4 DEF Edges, TypeOK
  <2>7. \A m, n \in Nat : Min({m, n}) \in Nat /\ Max({m, n}) \in Nat
    <3> TAKE m, n \in Nat
    <3>1. \E x \in {m, n} : \A y \in {m, n} : x <= y
      BY m <= n \/ n <= m
    <3>2. \E x \in {m, n} : \A y \in {m, n} : x >= y
      BY m <= n \/ n <= m
    <3>3. Min({m, n}) \in {m, n} /\ Max({m, n}) \in {m, n}
      BY <3>1, <3>2 DEF Min, Max
    <3> QED BY <3>3
  <2>8. t.group \cup {i, k} \in SUBSET (1..Len(image.stats))
    BY <1>2, <2>3, <2>6
  <2> HIDE DEF i, k, t
  <2>9. Min({t.left, boxes[k].x}) \in Nat /\ Max({t.right, Right(boxes[k])}) \in Nat
    BY <2>4, <2>6, <2>7
  <2>10. tmp' \in [group : SUBSET (1..Len(image.stats)), left : Nat, right : Nat]
    BY <2>5, <2>6, <2>8, <2>9
  <2> QED BY <1>1, <2>1, <2>2, <2>10 DEF TypeOK
<1>4. CASE CloseGroup
  <2>1. /\ line_group' = line_group \/ line_group' = Append(line_group, tmp.group)
        /\ tmp' = Empty /\ index' = index + 1 /\ inner' = 1
    BY <1>4 DEF CloseGroup
  <2>2. line_group' \in Seq(SUBSET (1..Len(image.stats)))
    <3>1. tmp.group \in SUBSET (1..Len(image.stats))
      BY DEF TypeOK
    <3>2. line_group \in Seq(SUBSET (1..Len(image.stats)))
      BY DEF TypeOK
    <3> QED BY <2>1, <3>1, <3>2
  <2>3. {index', inner'} \subseteq 1..(Len(image.stats) + 1)
    BY <1>1, <1>2, <2>1
  <2>4. tmp' \in [group : SUBSET (1..Len(image.stats)), left : Nat, right : Nat]
    BY <2>1 DEF Empty
  <2> QED BY <1>1, <2>2, <2>3, <2>4 DEF TypeOK
<1> QED BY <1>3, <1>4

\* Every step of the program is type correct.
LEMMA NextType == IInv /\ IInv' /\ PicksOnce /\ TypeOK /\ [Next]_vars => TypeOK'
<1> SUFFICES ASSUME IInv, IInv', PicksOnce, TypeOK, [Next]_vars PROVE TypeOK'
  OBVIOUS
<1>1. ASSUME NEW c \in Configs, ReadConfig(c) PROVE TypeOK'
  <2>1. /\ UNCHANGED <<pc, page_vars, nms_vars, scan_vars, out_vars>>
        /\ work < MAX_WORK /\ work' = work + 1
        /\ g' = [k \in Keys |-> IF k \in DOMAIN c THEN c[k] ELSE g[k]]
    BY <1>1 DEF ReadConfig
  <2>2. g' \in [Keys -> Int]
    BY <2>1, ConfigsAssumption DEF TypeOK
  <2>3. work' \in 0..MAX_WORK
    BY <2>1, BoundsAssumption DEF TypeOK
  <2> QED BY <2>1, <2>2, <2>3 DEF TypeOK, page_vars, nms_vars, scan_vars, out_vars
<1>2. CASE ReadThrows
  <2>1. work' \in 0..MAX_WORK
    BY <1>2, BoundsAssumption DEF ReadThrows, TypeOK
  <2> QED BY <1>2, <2>1 DEF ReadThrows, TypeOK, page_vars, nms_vars, scan_vars, out_vars
<1>3. boxes' \in Seq(Rects) /\ rest' \subseteq DOMAIN boxes' /\ kept' \in Seq(DOMAIN boxes')
  BY DEF IInv, BoxesOK
<1>4. CASE Pick
  <2>1. UNCHANGED <<pc, g, page_vars, scan_vars, out_vars, work>>
    BY <1>4 DEF Pick
  <2> QED BY <1>3, <2>1 DEF TypeOK, page_vars, scan_vars, out_vars
<1>5. CASE ArrangeBlocks
  <2>1. /\ UNCHANGED <<g, page_vars, line_group, tmp, out_vars, work>>
        /\ pc' = "connect" /\ index' = 1 /\ inner' = 1
    BY <1>5 DEF ArrangeBlocks
  <2>2. {index', inner'} \subseteq 1..(Len(image.stats) + 1)
    <3>1. Len(image.stats) \in Nat
      BY DEF TypeOK
    <3> QED BY <2>1, <3>1
  <2> QED BY <1>3, <2>1, <2>2 DEF TypeOK, page_vars, out_vars
<1>6. CASE MergeLines
  <2>1. UNCHANGED <<g, page_vars, scan_vars, out_vars, work>> /\ pc' = "nms_lines"
    BY <1>6 DEF MergeLines
  <2> QED BY <1>3, <2>1 DEF TypeOK, page_vars, scan_vars, out_vars
<1>7. CASE ReturnNoLine
  BY <1>7 DEF ReturnNoLine, TypeOK, page_vars, nms_vars, scan_vars
<1>8. CASE Report
  <2>1. /\ UNCHANGED <<g, page_vars, nms_vars, scan_vars, work>> /\ pc' = "idle"
        /\ verdict' \in BOOLEAN
    <3>1. UNCHANGED <<g, page_vars, nms_vars, scan_vars, work>> /\ pc' = "idle"
      BY <1>8 DEF Report
    <3>2. PICK steady \in Steady(SquaredStd, g["text_block_width_std"]) :
             verdict' =
               /\ 10000 * proportion.block > g["text_block_proportion"] * Pixels(image)
               /\ 10000 * proportion.text_part >= g["text_proportion"] * proportion.block
               /\ Enough(Len(kept), g["text_block_count"])
               /\ steady
      BY <1>8 DEF Report
    <3>3. verdict' \in BOOLEAN
      BY <3>2
    <3> QED BY <3>1, <3>3
  <2> QED BY <2>1 DEF TypeOK, page_vars, nms_vars, scan_vars
<1>9. CASE UNCHANGED vars
  BY <1>9 DEF vars, TypeOK, page_vars, nms_vars, scan_vars, out_vars
<1> QED
  BY <1>1, <1>2, <1>4, <1>5, <1>6, <1>7, <1>8, <1>9, CallType, ConnectType DEF Next, Step

\* The edge of a group that grew is the one of before or that of the new block.
LEMMA MinMaxOfTwo ==
    ASSUME NEW m \in Nat, NEW n \in Nat
    PROVE  Min({m, n}) \in {m, n} /\ Max({m, n}) \in {m, n}
<1>1. \E x \in {m, n} : \A y \in {m, n} : x <= y
  BY m <= n \/ n <= m
<1>2. \E x \in {m, n} : \A y \in {m, n} : x >= y
  BY m <= n \/ n <= m
<1> QED BY <1>1, <1>2 DEF Min, Max

\* Two blocks level with the same block are within twice the mean height.
LEMMA LevelTriangle ==
    ASSUME NEW L \in Nat, NEW H \in Nat, NEW a \in Int, NEW b \in Int, NEW c \in Int,
           L * Abs(c - a) < 2 * H, L * Abs(c - b) < 2 * H
    PROVE  L * Abs(a - b) < 4 * H
<1>1. /\ Abs(c - a) \in Nat /\ Abs(c - b) \in Nat /\ Abs(a - b) \in Nat
      /\ Abs(a - b) <= Abs(c - a) + Abs(c - b)
  BY DEF Abs
<1>2. \A x, y, z \in Nat : z <= x + y => L * z <= L * x + L * y
  <2> SUFFICES ASSUME NEW x \in Nat, NEW y \in Nat, NEW z \in Nat, z <= x + y
               PROVE  L * z <= L * x + L * y
    OBVIOUS
  <2>1. PICK d \in Nat : x + y = z + d
    BY x + y - z \in Nat
  <2>2. L * (x + y) = L * x + L * y /\ L * (z + d) = L * z + L * d
    OBVIOUS
  <2>3. L * x \in Nat /\ L * y \in Nat /\ L * z \in Nat /\ L * d \in Nat
    OBVIOUS
  <2> QED BY <2>1, <2>2, <2>3
<1>3. L * Abs(a - b) <= L * Abs(c - a) + L * Abs(c - b)
  BY <1>1, <1>2
<1>4. /\ L * Abs(c - a) \in Nat /\ L * Abs(c - b) \in Nat /\ L * Abs(a - b) \in Nat
  BY <1>1
<1> QED BY <1>3, <1>4

\* The inner loop begins with the edges of block i alone.
LEMMA GrownAlone ==
    ASSUME NEW i, NEW n
    PROVE  Grown(i, [group |-> {}, left |-> boxes[i].x, right |-> Right(boxes[i])], n)
BY DEF Grown, Linked

\* The inner loop passes over block n.
LEMMA GrownPast ==
    ASSUME NEW i, NEW t, NEW n \in Nat, Grown(i, t, n)
    PROVE  Grown(i, t, n + 1)
<1>1. 1..(n - 1) \subseteq 1..((n + 1) - 1)
  OBVIOUS
<1> QED BY <1>1 DEF Grown

\* Block n joins: it was not in the group yet, and is close to a block that was.
LEMMA GrownJoin ==
    ASSUME BoxesOK, PicksOnce, NEW i \in DOMAIN boxes, NEW n \in DOMAIN kept, NEW t,
           t.left \in Nat, t.right \in Nat, t.group \subseteq DOMAIN boxes,
           Grown(i, t, n), Level(boxes[i], boxes[kept[n]]),
           \/ Near(t.left, Right(boxes[kept[n]]))
           \/ Near(boxes[kept[n]].x, t.right)
    PROVE  Grown(i, [group |-> t.group \cup {i, kept[n]},
                     left  |-> Min({t.left, boxes[kept[n]].x}),
                     right |-> Max({t.right, Right(boxes[kept[n]])})], n + 1)
<1> DEFINE k == kept[n]
           G == t.group \cup {i}
           J == t.group \cup {i, k}
           l == Min({t.left, boxes[k].x})
           r == Max({t.right, Right(boxes[k])})
<1>1. /\ n \in Nat \ {0} /\ k \in DOMAIN boxes
      /\ DOMAIN kept = 1..Len(kept) /\ Len(kept) \in Nat
  BY DEF BoxesOK
<1>2. \A m \in DOMAIN boxes :
         /\ boxes[m].x \in Nat /\ Right(boxes[m]) \in Nat
         /\ boxes[m].y \in Nat /\ boxes[m].h \in Nat
  <2>1. \A m \in DOMAIN boxes : boxes[m] \in Rects
    BY DEF BoxesOK, InPage
  <2>2. \A b \in Rects : b.x \in Nat /\ Right(b) \in Nat /\ b.y \in Nat /\ b.h \in Nat
    BY DEF Rects, Right
  <2> QED BY <2>1, <2>2
<1>3. PICK p \in G : t.left = boxes[p].x
  BY DEF Grown
<1>4. PICK q \in G : t.right = Right(boxes[q])
  BY DEF Grown
<1>5. l \in {t.left, boxes[k].x} /\ r \in {t.right, Right(boxes[k])}
  BY <1>1, <1>2, MinMaxOfTwo
<1>6. \A j \in J : Level(boxes[i], boxes[j])
  <2>1. HeightSum \in Nat
    BY HeightSumIsNat
  <2>2. Level(boxes[i], boxes[i])
    <3>1. Centre2(boxes[i]) \in Int /\ Centre2(boxes[k]) \in Int
      <4>1. /\ boxes[i].y \in Nat /\ boxes[i].h \in Nat
            /\ boxes[k].y \in Nat /\ boxes[k].h \in Nat
        BY <1>1, <1>2
      <4> QED BY <4>1 DEF Centre2
    <3>2. /\ Abs(Centre2(boxes[i]) - Centre2(boxes[k])) \in Nat
          /\ Abs(Centre2(boxes[i]) - Centre2(boxes[i])) = 0
      BY <3>1 DEF Abs
    <3>3. \A a \in Nat : Len(kept) * a \in Nat /\ Len(kept) * 0 = 0
      BY <1>1
    <3>4. Len(kept) * Abs(Centre2(boxes[i]) - Centre2(boxes[k])) < 2 * HeightSum
      BY DEF Level
    <3>5. 0 < 2 * HeightSum
      BY <2>1, <3>2, <3>3, <3>4
    <3> QED BY <3>2, <3>3, <3>5 DEF Level
  <2> QED BY <2>2 DEF Grown
<1>7. \A j \in J : j = i \/ \E m \in 1..((n + 1) - 1) : j = kept[m]
  <2>1. 1..(n - 1) \subseteq 1..((n + 1) - 1) /\ n \in 1..((n + 1) - 1)
    BY <1>1
  <2> QED BY <2>1 DEF Grown
<1>8. Linked(J)
  <2>1. CASE k = i
    <3>1. J = t.group \/ J = {i}
      BY <2>1 DEF Grown
    <3> QED BY <3>1 DEF Grown, Linked
  <2>2. CASE k # i
    <3>1. k \notin t.group
      <4> SUFFICES ASSUME k \in t.group PROVE FALSE
        OBVIOUS
      <4>1. PICK m \in 1..(n - 1) : k = kept[m]
        BY <2>2 DEF Grown
      <4>2. m \in DOMAIN kept /\ m # n
        BY <1>1, <4>1
      <4> QED BY <4>1, <4>2 DEF PicksOnce, IsInjective
    <3>2. PICK c \in G : ~Apart(boxes[k], boxes[c]) /\ ~Apart(boxes[c], boxes[k])
      <4>1. CASE Near(t.left, Right(boxes[k]))
        BY <1>3, <4>1 DEF Apart
      <4>2. CASE Near(boxes[k].x, t.right)
        BY <1>4, <4>2 DEF Apart
      <4> QED BY <4>1, <4>2
    <3>3. c \in J /\ c # k
      BY <2>2, <3>1, <3>2
    <3>4. ASSUME NEW a \in J, J # {a}
          PROVE  \E b \in J \ {a} : ~Apart(boxes[a], boxes[b])
      <4>1. CASE a = k
        BY <3>2, <3>3, <4>1
      <4>2. CASE a # k /\ a = c
        BY <3>2, <3>3, <4>2
      <4>3. CASE a # k /\ a # c
        <5>1. a \in t.group /\ c \in t.group
          BY <3>2, <4>3 DEF Grown
        <5>2. t.group # {a}
          BY <4>3, <5>1
        <5> QED BY <5>1, <5>2 DEF Grown, Linked
      <4> QED BY <4>1, <4>2, <4>3
    <3> QED BY <3>4 DEF Linked
  <2> QED BY <2>1, <2>2
<1>9. \E m \in J \cup {i} : l = boxes[m].x
  BY <1>3, <1>5
<1>10. \E m \in J \cup {i} : r = Right(boxes[m])
  BY <1>4, <1>5
<1>11. [group |-> J, left |-> l, right |-> r].group = J
  OBVIOUS
<1> HIDE DEF J, l, r
<1>12. i \in J
  BY DEF J
<1>13. Grown(i, [group |-> J, left |-> l, right |-> r], n + 1)
  BY <1>6, <1>7, <1>8, <1>9, <1>10, <1>12 DEF Grown
<1> QED BY <1>13 DEF J, l, r

\* What is said of groups does not change while the blocks do not.
LEMMA GroupsFrame ==
    ASSUME UNCHANGED <<boxes, kept>>
    PROVE  /\ HeightSum' = HeightSum
           /\ \A G : Linked(G)' <=> Linked(G)
           /\ \A G : Compact(G)' <=> Compact(G)
           /\ \A i, t, n : Grown(i, t, n)' <=> Grown(i, t, n)
<1>1. Heights' = Heights
  BY DEF Heights
<1>2. HeightSum' = HeightSum
  BY <1>1 DEF HeightSum
<1>3. \A a, b : Level(boxes[a], boxes[b])' <=> Level(boxes[a], boxes[b])
  BY <1>2 DEF Level
<1>4. \A a, b : Apart(boxes[a], boxes[b])' <=> Apart(boxes[a], boxes[b])
  BY <1>2 DEF Apart, Near
<1>5. \A G : Linked(G)' <=> Linked(G)
  BY <1>4 DEF Linked
<1>6. \A G : Compact(G)' <=> Compact(G)
  BY <1>2 DEF Compact
<1>7. \A i, t, n : Grown(i, t, n)' <=> Grown(i, t, n)
  BY <1>3, <1>5 DEF Grown
<1> QED BY <1>2, <1>5, <1>6, <1>7

\* A round of the inner loop.
LEMMA JoinLine == IInv /\ LineInv /\ JoinBlock => Growing' /\ LinesAreWhole'
<1> SUFFICES ASSUME IInv, LineInv, JoinBlock PROVE Growing' /\ LinesAreWhole'
  OBVIOUS
<1>1. /\ UNCHANGED <<boxes, kept, line_group, index, pc>> /\ inner' = inner + 1
      /\ pc = "connect" /\ index \in DOMAIN kept /\ inner \in DOMAIN kept
  BY DEF JoinBlock, nms_vars
<1>2. LinesAreWhole'
  BY <1>1 DEF LineInv, LinesAreWhole, Apart, Near, HeightSum, Heights
<1>3. PICK i : i = kept[index]
  OBVIOUS
<1>4. PICK t : t = Edges(i)
  OBVIOUS
<1>5. Grown(i, t, inner)
  BY <1>1, <1>3, <1>4 DEF LineInv, Growing
<1>6. /\ i \in DOMAIN boxes /\ boxes[i].x \in Nat /\ Right(boxes[i]) \in Nat
      /\ inner \in Nat \ {0}
  <2>1. i \in DOMAIN boxes /\ inner \in Nat \ {0}
    BY <1>1, <1>3 DEF IInv, BoxesOK
  <2>2. boxes[i] \in Rects
    BY <2>1 DEF IInv, BoxesOK, InPage
  <2>3. \A b \in Rects : b.x \in Nat /\ Right(b) \in Nat
    BY DEF Rects, Right
  <2> QED BY <2>1, <2>2, <2>3
<1>7. t.left \in Nat /\ t.right \in Nat /\ t.group \subseteq DOMAIN boxes
  <2>1. /\ tmp.left \in Nat /\ tmp.right \in Nat /\ tmp.group \subseteq DOMAIN boxes
    BY <1>1 DEF LineInv, TypeOK, IInv, GroupsOK
  <2> QED BY <1>4, <1>6, <2>1 DEF Edges
<1>8. Grown(i, tmp', inner + 1)
  <2> DEFINE b == boxes[kept[inner]]
             joins == Level(boxes[i], b) /\ (Near(t.left, Right(b)) \/ Near(b.x, t.right))
  <2>1. tmp' = IF joins
               THEN [group |-> t.group \cup {i, kept[inner]},
                     left  |-> Min({t.left, b.x}),
                     right |-> Max({t.right, Right(b)})]
               ELSE t
    BY <1>3, <1>4 DEF JoinBlock
  <2>2. CASE joins
    BY <1>1, <1>5, <1>6, <1>7, <2>1, <2>2, GrownJoin DEF IInv, LineInv
  <2>3. CASE ~joins
    BY <1>5, <1>6, <2>1, <2>3, GrownPast
  <2> QED BY <2>2, <2>3
<1>9. Edges(kept[index])' = tmp'
  BY <1>1, <1>6 DEF Edges
<1>10. Growing'
  <2>1. PICK t2, n2 : t2 = tmp' /\ n2 = inner'
    OBVIOUS
  <2>2. Grown(i, t2, n2)'
    BY <1>1, <1>8, <2>1, GroupsFrame
  <2> QED BY <1>1, <1>3, <1>9, <2>1, <2>2 DEF Growing
<1> QED BY <1>2, <1>10

\* A group that is closed is a line.
LEMMA GrownIsLine ==
    ASSUME BoxesOK, NEW i \in DOMAIN boxes, NEW t, t.group \subseteq DOMAIN boxes, NEW n,
           Grown(i, t, n)
    PROVE  Compact(t.group) /\ Linked(t.group)
<1>1. Linked(t.group)
  BY DEF Grown
<1>2. \A m \in DOMAIN boxes : Centre2(boxes[m]) \in Int
  <2>1. \A m \in DOMAIN boxes : boxes[m] \in Rects
    BY DEF BoxesOK, InPage
  <2>2. \A b \in Rects : Centre2(b) \in Int
    BY DEF Rects, Centre2
  <2> QED BY <2>1, <2>2
<1>3. HeightSum \in Nat /\ Len(kept) \in Nat
  BY HeightSumIsNat DEF BoxesOK
<1>4. ASSUME NEW a \in t.group, NEW b \in t.group
      PROVE  Len(kept) * Abs(Centre2(boxes[a]) - Centre2(boxes[b])) < 4 * HeightSum
  <2>1. /\ Len(kept) * Abs(Centre2(boxes[i]) - Centre2(boxes[a])) < 2 * HeightSum
        /\ Len(kept) * Abs(Centre2(boxes[i]) - Centre2(boxes[b])) < 2 * HeightSum
    BY DEF Grown, Level
  <2> QED BY <1>2, <1>3, <2>1, LevelTriangle
<1> QED BY <1>1, <1>4 DEF Compact

\* The end of a round of the outer loop.
LEMMA CloseLine == IInv /\ LineInv /\ CloseGroup => Growing' /\ LinesAreWhole'
<1> SUFFICES ASSUME IInv, LineInv, CloseGroup PROVE Growing' /\ LinesAreWhole'
  OBVIOUS
<1>1. /\ UNCHANGED <<boxes, kept, pc>> /\ inner' = 1 /\ index' = index + 1
      /\ pc = "connect" /\ index \in DOMAIN kept /\ inner \notin DOMAIN kept
      /\ line_group' = IF tmp.group = {} THEN line_group ELSE Append(line_group, tmp.group)
  BY DEF CloseGroup, nms_vars
<1>2. PICK i : i = kept[index]
  OBVIOUS
<1>3. i \in DOMAIN boxes /\ tmp.group \subseteq DOMAIN boxes
  BY <1>1, <1>2 DEF IInv, BoxesOK, GroupsOK
<1>4. inner # 1
  <2>1. DOMAIN kept = 1..Len(kept) /\ Len(kept) \in Nat
    BY DEF IInv, BoxesOK
  <2> QED BY <1>1, <2>1
<1>5. Grown(i, tmp, inner)
  BY <1>1, <1>2, <1>4 DEF LineInv, Growing, Edges
<1>6. Compact(tmp.group) /\ Linked(tmp.group)
  BY <1>3, <1>5, GrownIsLine DEF IInv
<1>7. \A n \in DOMAIN line_group : Compact(line_group[n]) /\ Linked(line_group[n])
  BY <1>1 DEF LineInv, LinesAreWhole, Compact, Linked
<1>8. \A n \in DOMAIN line_group' : Compact(line_group'[n]) /\ Linked(line_group'[n])
  <2>1. CASE tmp.group = {}
    BY <1>1, <1>7, <2>1
  <2>2. CASE tmp.group # {}
    <3>1. line_group' = Append(line_group, tmp.group)
      BY <1>1, <2>2
    <3>2. line_group \in Seq(SUBSET DOMAIN boxes)
      BY <1>1 DEF IInv, GroupsOK
    <3>3. /\ DOMAIN line_group = 1..Len(line_group) /\ Len(line_group) \in Nat
          /\ DOMAIN line_group' = 1..(Len(line_group) + 1)
          /\ line_group'[Len(line_group) + 1] = tmp.group
          /\ \A n \in 1..Len(line_group) : line_group'[n] = line_group[n]
      BY <3>1, <3>2
    <3>4. \A n \in DOMAIN line_group' : n \in DOMAIN line_group \/ n = Len(line_group) + 1
      BY <3>3
    <3> QED BY <1>6, <1>7, <3>3, <3>4
  <2> QED BY <2>1, <2>2
<1>9. LinesAreWhole'
  <2>1. \A n \in DOMAIN line_group' : Compact(line_group[n])' /\ Linked(line_group[n])'
    <3> TAKE n \in DOMAIN line_group'
    <3>1. PICK G : G = line_group'[n]
      OBVIOUS
    <3>2. Compact(G)' /\ Linked(G)'
      BY <1>1, <1>8, <3>1, GroupsFrame
    <3> QED BY <3>1, <3>2
  <2> QED BY <2>1 DEF LinesAreWhole, Compact, Linked
<1>10. Growing'
  <2>1. Edges(kept[index])' =
          [group |-> {}, left |-> boxes[kept[index']].x, right |-> Right(boxes[kept[index']])]
    BY <1>1 DEF Edges, Right
  <2>2. Grown(kept[index'], Edges(kept[index])', 1)
    BY <2>1, GrownAlone
  <2>3. PICK i2, t2, n2 : i2 = kept[index'] /\ t2 = Edges(kept[index])' /\ n2 = inner'
    OBVIOUS
  <2>4. Grown(i2, t2, n2)'
    BY <1>1, <2>2, <2>3, GroupsFrame
  <2> QED BY <1>1, <2>3, <2>4 DEF Growing
<1> QED BY <1>9, <1>10

\* Only the two loops of ConnectBlock, and what leads into them, matter.
LEMMA NextLine == IInv /\ LineInv /\ [Next]_vars => Growing' /\ LinesAreWhole'
<1> SUFFICES ASSUME IInv, LineInv, [Next]_vars PROVE Growing' /\ LinesAreWhole'
  OBVIOUS
<1>1. ASSUME pc' # "connect" PROVE Growing' /\ LinesAreWhole'
  BY <1>1 DEF Growing, LinesAreWhole
<1>2. ASSUME UNCHANGED <<boxes, kept, line_group, index, inner, tmp, pc>>
      PROVE  Growing' /\ LinesAreWhole'
  <2>1. PICK i2, t2, n2 : i2 = kept[index] /\ t2 = Edges(kept[index]) /\ n2 = inner
    OBVIOUS
  <2>2. i2 = kept'[index'] /\ t2 = Edges(kept[index])' /\ n2 = inner'
    BY <1>2, <2>1 DEF Edges, Right
  <2>3. Grown(i2, t2, n2)' <=> Grown(i2, t2, n2)
    BY <1>2, GroupsFrame
  <2>4. Growing'
    BY <1>2, <2>1, <2>2, <2>3 DEF LineInv, Growing
  <2>5. HeightSum' = HeightSum
    BY <1>2, GroupsFrame
  <2>6. LinesAreWhole'
    BY <1>2, <2>5 DEF LineInv, LinesAreWhole, Apart, Near
  <2> QED BY <2>4, <2>6
<1>3. ASSUME NEW c \in Configs, ReadConfig(c) PROVE Growing' /\ LinesAreWhole'
  BY <1>1, <1>3 DEF ReadConfig
<1>4. ASSUME NEW img \in Images, IsNoteNeat(img) PROVE Growing' /\ LinesAreWhole'
  BY <1>1, <1>4 DEF IsNoteNeat
<1>5. CASE ReadThrows
  BY <1>1, <1>5 DEF ReadThrows
<1>6. CASE Pick
  BY <1>1, <1>6 DEF Pick
<1>7. CASE MergeLines \/ ReturnNoLine \/ Report
  <2>1. MergeLines => pc' # "connect"
    BY DEF MergeLines
  <2>2. ReturnNoLine => pc' # "connect"
    BY DEF ReturnNoLine
  <2>3. Report => pc' # "connect"
    BY DEF Report
  <2> QED BY <1>1, <1>7, <2>1, <2>2, <2>3
<1>8. CASE UNCHANGED vars
  BY <1>2, <1>8 DEF vars, nms_vars, scan_vars
<1>9. CASE ArrangeBlocks
  <2>1. /\ UNCHANGED <<boxes, line_group>> /\ index' = 1 /\ inner' = 1 /\ pc = "nms_blocks"
    BY <1>9 DEF ArrangeBlocks
  <2>2. DOMAIN line_group' = {}
    BY <2>1 DEF IInv, GroupsOK
  <2>3. LinesAreWhole'
    BY <2>2 DEF LinesAreWhole
  <2>4. Edges(kept[index])' =
          [group |-> {}, left |-> boxes[kept'[1]].x, right |-> Right(boxes[kept'[1]])]
    BY <2>1 DEF Edges, Right
  <2>5. Growing'
    BY <2>1, <2>4 DEF Growing, Grown, Linked
  <2> QED BY <2>3, <2>5
<1> QED
  BY <1>3, <1>4, <1>5, <1>6, <1>7, <1>8, <1>9, JoinLine, CloseLine DEF Next, Step

\* The process starts with the invariant of ConnectBlock.
LEMMA InitLine == Init => LineInv
<1> SUFFICES ASSUME Init PROVE LineInv
  OBVIOUS
<1>1. DOMAIN kept = {}
  BY DEF Init
<1>2. PicksOnce
  BY <1>1 DEF PicksOnce, IsInjective, Range
<1>3. Growing /\ LinesAreWhole
  BY DEF Init, Growing, LinesAreWhole
<1>4. TypeOK
  <2>1. g \in [Keys -> Int]
    BY DEF Init, Keys
  <2>2. image \in [rows : Nat \ {0}, cols : Nat \ {0}, stats : Seq(Rects), text : Nat]
    BY DEF Init
  <2>3. Len(image.stats) = 0 /\ {index, inner} \subseteq 1..(Len(image.stats) + 1)
    BY DEF Init
  <2>4. /\ boxes \in Seq(Rects) /\ rest \subseteq DOMAIN boxes /\ kept \in Seq(DOMAIN boxes)
        /\ line_group \in Seq(SUBSET (1..Len(image.stats)))
        /\ proportion \in [text_part : Int, block : Int]
    BY DEF Init
  <2>5. tmp \in [group : SUBSET (1..Len(image.stats)), left : Nat, right : Nat]
    BY DEF Init, Empty
  <2>6. /\ pc \in {"idle", "nms_blocks", "connect", "nms_lines"}
        /\ verdict \in BOOLEAN /\ work \in 0..MAX_WORK
    <3>1. pc = "idle" /\ verdict = FALSE /\ work = 0
      BY DEF Init
    <3>2. 0 \in 0..MAX_WORK
      BY BoundsAssumption
    <3> QED BY <3>1, <3>2, Zenon
  <2> QED BY <2>1, <2>2, <2>3, <2>4, <2>5, <2>6 DEF TypeOK
<1> QED BY <1>2, <1>3, <1>4 DEF LineInv

\* Every reachable state satisfies both invariants.
LEMMA LineInvariant == Spec => [](IInv /\ LineInv)
<1>1. Init => IInv /\ LineInv
  BY InitIInv, InitLine
<1>2. IInv /\ LineInv /\ [Next]_vars => (IInv /\ LineInv)'
  BY NextIInv, NextOnce, NextType, NextLine DEF LineInv
<1> QED BY <1>1, <1>2, PTL DEF Spec

\* Whatever is configured and whatever the page, the thresholds, the indices of
\* both loops and the vectors of indices stay within their types; in particular
\* the loops of ConnectBlock never run past the blocks of the page.
THEOREM TypeCorrect == Spec => []TypeOK
<1>1. LineInv => TypeOK
  BY DEF LineInv
<1> QED BY <1>1, LineInvariant, PTL

\* On any page a line that ConnectBlock makes is one: its blocks are within twice
\* the mean height of each other, and none is a gap away from all the others,
\* although the edges that a block is compared with move as the group grows.
THEOREM LinesHoldTogether == Spec => []LinesAreWhole
<1>1. LineInv => LinesAreWhole
  BY DEF LineInv
<1> QED BY <1>1, LineInvariant, PTL

-----------------------------------------------------------------------------
(* The share of the text.                                                    *)

\* The sum of the bytes of the text pixels is an int.
SumFits(img) == 255 * img.text <= INT_MAX

ShareInv ==
    SumFits(image) =>
        /\ image.text \in Nat /\ proportion.text_part = image.text
        /\ neat_target.text_block_p[1] \in {0, image.text}

LEMMA SmallRemainder ==
    ASSUME NEW n \in Nat, NEW d \in Nat \ {0}, n < d
    PROVE  n % d = n
<1>1. PICK q \in Int, r \in 0 .. d - 1 : n = d * q + r /\ r = n % d
  BY SMTT(30)
<1>2. q = 0
  <2>1. CASE q >= 1
    <3>1. d * (q - 1) \in Nat /\ d * q = d * (q - 1) + d
      BY <2>1, SMTT(30)
    <3> QED BY <1>1, <3>1
  <2>2. CASE q <= -1
    <3>1. d * (-1 - q) \in Nat /\ d * q = -(d * (-1 - q)) - d
      BY <2>2, SMTT(30)
    <3> QED BY <1>1, <3>1
  <2> QED BY <2>1, <2>2
<1> QED BY <1>1, <1>2

\* A sum that is an int does not wrap.
LEMMA TextPartExact ==
    ASSUME NEW text \in Nat, 255 * text <= INT_MAX
    PROVE  TextPart(text) = text
<1> DEFINE n == 255 * text
<1>1. n \in Nat /\ n <= INT_MAX /\ INT_MAX \in Nat
  BY BoundsAssumption
<1>2. n \div 255 = text
  BY SMTT(30)
<1> HIDE DEF n
<1>3. (n + INT_MAX + 1) % (2 * (INT_MAX + 1)) = n + INT_MAX + 1
  <2>1. /\ n + INT_MAX + 1 \in Nat /\ 2 * (INT_MAX + 1) \in Nat \ {0}
        /\ n + INT_MAX + 1 < 2 * (INT_MAX + 1)
    BY <1>1
  <2> QED BY <2>1, SmallRemainder
<1>4. Wrap(n) = n
  BY <1>1, <1>3 DEF Wrap
<1>5. Wrap(255 * text) = n
  BY <1>4 DEF n
<1> QED BY <1>1, <1>2, <1>5 DEF TextPart

\* Up to INT_MAX \div 255 text pixels, 8421504 with an int of 32 bits, the header is
\* right about text_block_p: what is reported is the number of the text pixels, or
\* nothing on an early return, and not negative.
THEOREM ShareBelowOverflow ==
    Spec => [](SumFits(image) =>
                  ShareIsAShare /\ neat_target.text_block_p[1] \in {0, image.text})
<1>1. Init => ShareInv
  BY DEF Init, ShareInv, Fresh, Zero
<1>2. ShareInv /\ [Next]_vars => ShareInv'
  <2> SUFFICES ASSUME ShareInv, [Next]_vars, SumFits(image)'
               PROVE  /\ image'.text \in Nat /\ proportion'.text_part = image'.text
                      /\ neat_target'.text_block_p[1] \in {0, image'.text}
    BY DEF ShareInv
  <2>1. ASSUME NEW img \in Images, IsNoteNeat(img)
        PROVE  /\ image'.text \in Nat /\ proportion'.text_part = image'.text
               /\ neat_target'.text_block_p[1] \in {0, image'.text}
    <3>1. image' = img /\ proportion' \in CalcProportion(img) /\ neat_target' = Fresh
      BY <2>1 DEF IsNoteNeat, ReportOnEntry
    <3>2. img.text \in Nat /\ 255 * img.text <= INT_MAX
      BY <3>1, ImagesAssumption DEF SumFits
    <3>3. proportion'.text_part = TextPart(img.text)
      BY <3>1 DEF CalcProportion
    <3>4. TextPart(img.text) = img.text
      BY <3>2, TextPartExact
    <3> QED BY <3>1, <3>2, <3>3, <3>4 DEF Fresh, Zero
  <2>2. CASE Report
    <3>1. /\ image' = image /\ proportion' = proportion
          /\ neat_target'.text_block_p[1] = proportion.text_part
      BY <2>2 DEF Report, page_vars
    <3> QED BY <3>1 DEF ShareInv, SumFits
  <2>3. CASE UNCHANGED <<image, proportion, neat_target>>
    BY <2>3 DEF ShareInv, SumFits
  <2>4. ASSUME ~Report, ~ \E img \in Images : IsNoteNeat(img)
        PROVE  UNCHANGED <<image, proportion, neat_target>>
    <3>1. ASSUME NEW c \in Configs, ReadConfig(c) PROVE UNCHANGED <<image, proportion, neat_target>>
      BY <3>1 DEF ReadConfig, page_vars, out_vars
    <3>2. CASE ReadThrows
      BY <3>2 DEF ReadThrows, page_vars, out_vars
    <3>3. CASE Pick
      BY <3>3 DEF Pick, page_vars, out_vars
    <3>4. CASE ArrangeBlocks
      BY <3>4 DEF ArrangeBlocks, page_vars, out_vars
    <3>5. CASE JoinBlock
      BY <3>5 DEF JoinBlock, page_vars, out_vars
    <3>6. CASE CloseGroup
      BY <3>6 DEF CloseGroup, page_vars, out_vars
    <3>7. CASE MergeLines
      BY <3>7 DEF MergeLines, page_vars, out_vars
    <3>8. CASE ReturnNoLine
      BY <3>8 DEF ReturnNoLine, page_vars
    <3>9. CASE UNCHANGED vars
      BY <3>9 DEF vars, page_vars, out_vars
    <3> QED BY <2>4, <3>1, <3>2, <3>3, <3>4, <3>5, <3>6, <3>7, <3>8, <3>9 DEF Next, Step
  <2> QED BY <2>1, <2>2, <2>3, <2>4
<1>3. ShareInv => (SumFits(image) =>
          ShareIsAShare /\ neat_target.text_block_p[1] \in {0, image.text})
  BY DEF ShareInv, ShareIsAShare
<1> QED BY <1>1, <1>2, <1>3, PTL DEF Spec
=============================================================================
