----------------------- MODULE TrainingTargetsProofs -----------------------
(* The targets of the training, for images of every size, every set of        *)
(* polygons and every size of the batch.                                     *)
EXTENDS TrainingTargets, FiniteSetTheorems, TLAPS

-----------------------------------------------------------------------------
(* Products and quotients.                                                   *)

LEMMA ProductSign ==
    ASSUME NEW a \in Int, NEW b \in Int
    PROVE  /\ a >= 0 /\ b >= 0 => a * b >= 0
           /\ a > 0 /\ b > 0 => a * b > 0
<1> QED BY SMTT(30)

LEMMA ProductMonotone ==
    ASSUME NEW a \in Int, NEW b \in Int, NEW c \in Int, NEW d \in Int,
           0 <= a, a <= c, 0 <= b, b <= d
    PROVE  a * b <= c * d
<1>1. (c - a) * d >= 0 /\ a * (d - b) >= 0
  BY ProductSign
<1>2. (c - a) * d + a * (d - b) = c * d - a * b
  BY SMTT(30)
<1>3. a * b \in Int /\ c * d \in Int /\ (c - a) * d \in Int /\ a * (d - b) \in Int
  OBVIOUS
<1> QED BY <1>1, <1>2, <1>3

\* A quotient of a natural lies between the bounds that its factors give.
LEMMA QuotientBound ==
    ASSUME NEW n \in Nat, NEW d \in Nat \ {0}, NEW k \in Nat, n <= k * d
    PROVE  n \div d \in 0 .. k
<1>1. PICK q \in Int, r \in 0 .. d - 1 : n = d * q + r /\ q = n \div d
  BY SMTT(30)
<1>2. q >= 0
  <2> SUFFICES ASSUME q < 0 PROVE FALSE
    BY <1>1
  <2>1. d * (-q - 1) >= 0
    BY ProductSign
  <2>2. d * (-q - 1) = -(d * q) - d /\ d * q \in Int
    BY SMTT(30)
  <2> QED BY <1>1, <2>1, <2>2
<1>3. q <= k
  <2> SUFFICES ASSUME q > k PROVE FALSE
    BY <1>1
  <2>1. d * (q - k - 1) >= 0
    BY ProductSign
  <2>2. d * (q - k - 1) = d * q - k * d - d /\ d * q \in Int /\ k * d \in Int
    BY SMTT(30)
  <2>3. d * q <= n
    BY <1>1, <2>2
  <2> QED BY <1>1, <2>1, <2>2, <2>3
<1> QED BY <1>1, <1>2, <1>3

LEMMA QuotientMonotone ==
    ASSUME NEW m \in Nat, NEW n \in Nat, NEW d \in Nat \ {0}, m <= n
    PROVE  m \div d <= n \div d
<1>1. PICK q \in Int, r \in 0 .. d - 1 : n = d * q + r /\ q = n \div d
  BY SMTT(30)
<1>2. PICK s \in Int, t \in 0 .. d - 1 : m = d * s + t /\ s = m \div d
  BY SMTT(30)
<1> SUFFICES ASSUME s > q PROVE FALSE
  BY <1>1, <1>2
<1>3. d * (s - q - 1) >= 0
  BY ProductSign
<1>4. d * (s - q - 1) = d * s - d * q - d /\ d * q \in Int /\ d * s \in Int
  BY SMTT(30)
<1> QED BY <1>1, <1>2, <1>3, <1>4

-----------------------------------------------------------------------------
(* The pieces of a polygon.                                                  *)

Boxes == [x1 : Int, x2 : Int, y1 : Int, y2 : Int]

\* The pixel in column x and row y is a pixel of b.
Holds(b, x, y) == b.x1 <= x /\ x <= b.x2 /\ b.y1 <= y /\ y <= b.y2

LEMMA PolygonType ==
    ASSUME NEW im \in Images, NEW p \in im.polys
    PROVE  /\ im.w \in Nat \ {0} /\ im.h \in Nat \ {0} /\ im.w % 16 = 0 /\ im.h % 16 = 0
           /\ p.x0 \in Nat /\ p.x1 \in Nat
           /\ p.lt \in Nat /\ p.rt \in Nat /\ p.rb \in Nat /\ p.lb \in Nat
           /\ p.x0 < p.x1 /\ p.x1 <= im.w
           /\ p.lt < p.lb /\ p.lb < im.h
           /\ p.rt < p.rb /\ p.rb < im.h
<1>1. im \in [w : Nat \ {0}, h : Nat \ {0},
              polys : SUBSET [x0 : Nat, x1 : Nat, lt : Nat, rt : Nat, rb : Nat, lb : Nat]]
  BY ImagesAssumption
<1>2. p \in [x0 : Nat, x1 : Nat, lt : Nat, rt : Nat, rb : Nat, lb : Nat]
  BY <1>1
<1> QED BY <1>1, <1>2, ImagesAssumption

LEMMA LineType ==
    ASSUME NEW x0 \in Nat, NEW x1 \in Nat, x0 < x1, NEW y0 \in Nat, NEW y1 \in Nat, NEW x \in Int
    PROVE  LineAt(x0, y0, x1, y1, x) \in Int
<1>1. \A n \in Int, d \in Nat \ {0} : Truncated(n, d) \in Int
  BY SMTT(30) DEF Truncated
<1>2. y0 * (x1 - x0) + (y1 - y0) * (x - x0) \in Int /\ x1 - x0 \in Nat \ {0}
  OBVIOUS
<1> QED BY <1>1, <1>2 DEF LineAt

\* Between the sides of a polygon its upper line is within the image and not below
\* its lower line.
LEMMA LineWithin ==
    ASSUME NEW x0 \in Nat, NEW x1 \in Nat, NEW x \in x0 .. x1, x0 < x1, NEW h \in Nat,
           NEW y0 \in Nat, NEW y1 \in Nat, NEW z0 \in Nat, NEW z1 \in Nat,
           y0 <= z0, y1 <= z1, z0 <= h, z1 <= h
    PROVE  /\ LineAt(x0, y0, x1, y1, x) \in 0 .. h
           /\ LineAt(x0, y0, x1, y1, x) <= LineAt(x0, z0, x1, z1, x)
<1> DEFINE a == x - x0
           b == x1 - x
           d == x1 - x0
           m == y0 * b + y1 * a
           n == z0 * b + z1 * a
<1>1. a \in Nat /\ b \in Nat /\ d \in Nat \ {0} /\ d = a + b /\ x - x0 = a /\ x1 - x0 = d
  OBVIOUS
<1> HIDE DEF a, b, d
<1>2. /\ y0 * b \in Int /\ y1 * a \in Int /\ z0 * b \in Int /\ z1 * a \in Int
      /\ h * b \in Int /\ h * a \in Int
  BY <1>1
<1>3. y0 * b >= 0 /\ y1 * a >= 0 /\ z0 * b >= 0 /\ z1 * a >= 0
  BY <1>1, ProductSign
<1>4. y0 * b <= z0 * b /\ y1 * a <= z1 * a /\ y0 * b <= h * b /\ y1 * a <= h * a
  BY <1>1, ProductMonotone
<1>5. m \in Nat /\ n \in Nat /\ m <= n
  BY <1>2, <1>3, <1>4
<1>6. h * d = h * b + h * a
  BY <1>1, SMTT(30)
<1>7. m <= h * d
  BY <1>2, <1>4, <1>6
<1>8. y0 * d + (y1 - y0) * a = m /\ z0 * d + (z1 - z0) * a = n
  BY <1>1, SMTT(30)
<1>9. LineAt(x0, y0, x1, y1, x) = Truncated(m, d) /\ LineAt(x0, z0, x1, z1, x) = Truncated(n, d)
  BY <1>1, <1>8 DEF LineAt
<1> HIDE DEF m, n
<1>10. Truncated(m, d) = m \div d /\ Truncated(n, d) = n \div d
  BY <1>5 DEF Truncated
<1>11. m \div d \in 0 .. h
  BY <1>1, <1>5, <1>7, QuotientBound
<1>12. m \div d <= n \div d
  BY <1>1, <1>5, QuotientMonotone
<1> QED BY <1>9, <1>10, <1>11, <1>12

\* A piece holds a pixel of its polygon.
LEMMA PieceHolds ==
    ASSUME NEW im \in Images, NEW p \in im.polys, NEW x \in p.x0 .. p.x1, NEW end \in Int, x <= end
    PROVE  /\ Piece(p, x, end) \in Boxes
           /\ TopAt(p, x) \in 0 .. im.h - 1
           /\ Holds(Piece(p, x, end), x, TopAt(p, x))
<1>1. x \in Int /\ x + 15 \in Int /\ im.h - 1 \in Nat
  BY PolygonType
<1>2. /\ TopAt(p, x) \in Int /\ TopAt(p, x + 15) \in Int
      /\ BottomAt(p, x) \in Int /\ BottomAt(p, x + 15) \in Int
  BY <1>1, PolygonType, LineType DEF TopAt, BottomAt
<1>3. TopAt(p, x) \in 0 .. im.h - 1 /\ TopAt(p, x) <= BottomAt(p, x)
  <2>1. /\ p.lt <= p.lb /\ p.rt <= p.rb /\ p.lb <= im.h - 1 /\ p.rb <= im.h - 1
    BY PolygonType
  <2> QED BY <1>1, <2>1, PolygonType, LineWithin DEF TopAt, BottomAt
<1> QED BY <1>1, <1>2, <1>3 DEF Piece, Boxes, Holds, Least, Greatest

\* Every box that shrink_poly makes holds a pixel of the polygon's columns.
LEMMA BoxHolds ==
    ASSUME NEW im \in Images, NEW p \in im.polys, NEW g \in shrink_poly(p)
    PROVE  /\ g \in Boxes
           /\ \E x \in p.x0 .. p.x1, y \in 0 .. im.h - 1 : Holds(g, x, y)
<1>1. p.x0 \in Nat /\ p.x1 \in Nat /\ p.x0 < p.x1
  BY PolygonType
<1>2. PICK x \in p.x0 .. p.x1, end \in Int : x <= end /\ g = Piece(p, x, end)
  <2> DEFINE start == (p.x0 \div 16 + 1) * 16
             last == (p.x1 \div 16) * 16
  <2>1. start \in Int /\ last \in Int /\ p.x0 <= start - 1 /\ last <= p.x1
    BY <1>1, SMTT(30)
  <2>2. g = Piece(p, p.x0, start - 1) \/ \E x \in start .. last : g = Piece(p, x, x + 15)
    BY DEF shrink_poly
  <2> HIDE DEF start, last
  <2>3. CASE g = Piece(p, p.x0, start - 1)
    <3>1. p.x0 \in p.x0 .. p.x1 /\ start - 1 \in Int
      BY <1>1, <2>1
    <3> QED BY <2>1, <2>3, <3>1
  <2>4. ASSUME NEW x \in start .. last, g = Piece(p, x, x + 15)
        PROVE  x \in p.x0 .. p.x1 /\ x + 15 \in Int /\ x <= x + 15
    BY <1>1, <2>1
  <2> QED BY <2>2, <2>3, <2>4
<1>3. TopAt(p, x) \in 0 .. im.h - 1 /\ g \in Boxes /\ Holds(g, x, TopAt(p, x))
  BY <1>2, PieceHolds
<1> QED BY <1>3

-----------------------------------------------------------------------------
(* Anchors and overlaps.                                                     *)

\* A box with pixels.
Solid(b) == b \in Boxes /\ b.x1 <= b.x2 /\ b.y1 <= b.y2

LEMMA AnchorsSolid ==
    ASSUME image \in Images, NEW a \in all_anchors
    PROVE  Solid(a)
<1>1. image.w \in Nat /\ image.h \in Nat
  BY ImagesAssumption
<1>2. PICK height \in heights, c \in 0 .. image.w \div 16 - 1, r \in 0 .. image.h \div 16 - 1 :
        LET s == scale_anchor(height)
        IN  a = [x1 |-> s.x1 + 16 * c, x2 |-> s.x2 + 16 * c,
                 y1 |-> s.y1 + 16 * r, y2 |-> s.y2 + 16 * r]
  BY DEF all_anchors
<1>3. height \in Nat /\ c \in Int /\ r \in Int
  BY <1>1 DEF heights
<1>4. /\ Truncated(-1, 2) \in Int /\ Truncated(31, 2) \in Int
      /\ Truncated(-1, 2) <= Truncated(31, 2)
      /\ Truncated(15 - height, 2) \in Int /\ Truncated(15 + height, 2) \in Int
      /\ Truncated(15 - height, 2) <= Truncated(15 + height, 2)
  BY <1>3, SMTT(30) DEF Truncated
<1> QED BY <1>2, <1>3, <1>4 DEF scale_anchor, Solid, Boxes

LEMMA AnchorsFinite ==
    ASSUME image \in Images
    PROVE  IsFiniteSet(all_anchors) /\ IsFiniteSet(anchors)
<1> DEFINE C == 0 .. image.w \div 16 - 1
           R == 0 .. image.h \div 16 - 1
           At(s, c, r) == [x1 |-> s.x1 + 16 * c, x2 |-> s.x2 + 16 * c,
                           y1 |-> s.y1 + 16 * r, y2 |-> s.y2 + 16 * r]
           D == heights \X (C \X R)
           f == [t \in D |-> At(scale_anchor(t[1]), t[2][1], t[2][2])]
<1>1. image.w \div 16 - 1 \in Int /\ image.h \div 16 - 1 \in Int
  BY ImagesAssumption
<1>2. IsFiniteSet(C) /\ IsFiniteSet(R)
  BY <1>1, FS_Interval
<1>3. IsFiniteSet(heights)
  <2>1. heights \in SUBSET (0 .. 283)
    BY DEF heights
  <2>2. 0 \in Int /\ 283 \in Int
    OBVIOUS
  <2>3. IsFiniteSet(0 .. 283)
    BY <2>2, FS_Interval, Zenon
  <2> QED BY <2>1, <2>3, FS_Subset
<1>4. IsFiniteSet(D)
  <2>1. IsFiniteSet(C \X R)
    BY <1>2, FS_Product
  <2> QED BY <1>3, <2>1, FS_Product
<1>5. f \in Surjection(D, all_anchors)
  <2> HIDE DEF C, R
  <2>1. \A t \in D : f[t] \in all_anchors
    BY DEF all_anchors, C, R
  <2>2. \A a \in all_anchors : \E t \in D : f[t] = a
    <3> SUFFICES ASSUME NEW a \in all_anchors PROVE \E t \in D : f[t] = a
      OBVIOUS
    <3>1. PICK height \in heights, c \in C, r \in R : a = At(scale_anchor(height), c, r)
      BY DEF all_anchors, C, R
    <3>2. <<height, <<c, r>>>> \in D
      OBVIOUS
    <3> HIDE DEF At
    <3>3. f[<<height, <<c, r>>>>] = a
      BY <3>1, <3>2
    <3> QED BY <3>2, <3>3
  <2>3. f \in [D -> all_anchors]
    BY <2>1
  <2> HIDE DEF f, D
  <2> QED BY <2>2, <2>3 DEF Surjection
<1>6. IsFiniteSet(all_anchors)
  BY <1>4, <1>5, FS_Surjection
<1>7. anchors \in SUBSET all_anchors
  BY DEF anchors
<1> QED BY <1>6, <1>7, FS_Subset

\* The anchors of height 16 are the cells of the grid: every pixel of the image is
\* in one that is inside.
LEMMA CellHolds ==
    ASSUME image \in Images, NEW x \in 0 .. image.w - 1, NEW y \in 0 .. image.h - 1
    PROVE  \E a \in anchors : Holds(a, x, y)
<1>1. /\ image.w \in Nat \ {0} /\ image.h \in Nat \ {0}
      /\ image.w % 16 = 0 /\ image.h % 16 = 0
  BY ImagesAssumption
<1> DEFINE c == x \div 16
           r == y \div 16
           a == [x1 |-> 16 * c, x2 |-> 15 + 16 * c, y1 |-> 16 * r, y2 |-> 15 + 16 * r]
<1>2. /\ c \in 0 .. image.w \div 16 - 1 /\ r \in 0 .. image.h \div 16 - 1
      /\ 16 * c <= x /\ x <= 15 + 16 * c /\ 16 * r <= y /\ y <= 15 + 16 * r
      /\ 15 + 16 * c < image.w /\ 15 + 16 * r < image.h
  BY <1>1, SMTT(30)
<1> HIDE DEF c, r
<1>3. scale_anchor(16) = [x1 |-> 0, x2 |-> 15, y1 |-> 0, y2 |-> 15]
  BY SMTT(30) DEF scale_anchor, Truncated
<1>4. a \in all_anchors
  <2>1. scale_anchor(16) \in {scale_anchor(height) : height \in heights}
    BY DEF heights
  <2>2. a = [x1 |-> scale_anchor(16).x1 + 16 * c, x2 |-> scale_anchor(16).x2 + 16 * c,
             y1 |-> scale_anchor(16).y1 + 16 * r, y2 |-> scale_anchor(16).y2 + 16 * r]
    BY <1>2, <1>3
  <2> HIDE DEF a
  <2> QED BY <1>2, <2>1, <2>2 DEF all_anchors
<1>5. a.x1 >= 0 /\ a.y1 >= 0 /\ a.x2 < image.w /\ a.y2 < image.h
  BY <1>2
<1>6. a \in anchors
  BY <1>4, <1>5 DEF anchors
<1>7. Holds(a, x, y)
  BY <1>2 DEF Holds
<1> QED BY <1>6, <1>7

LEMMA OverlapFacts ==
    ASSUME NEW a, NEW g, Solid(a), Solid(g)
    PROVE  /\ bbox_overlap(a, g).num = Inter(a, g)
           /\ Inter(a, g) \in Nat
           /\ bbox_overlap(a, g).den \in Nat \ {0}
<1> DEFINE w(b) == b.x2 - b.x1 + 1
           h(b) == b.y2 - b.y1 + 1
           iw == Greatest(0, Least(a.x2, g.x2) - Greatest(a.x1, g.x1) + 1)
           ih == Greatest(0, Least(a.y2, g.y2) - Greatest(a.y1, g.y1) + 1)
<1>1. /\ a.x1 \in Int /\ a.x2 \in Int /\ a.y1 \in Int /\ a.y2 \in Int
      /\ g.x1 \in Int /\ g.x2 \in Int /\ g.y1 \in Int /\ g.y2 \in Int
      /\ a.x1 <= a.x2 /\ a.y1 <= a.y2 /\ g.x1 <= g.x2 /\ g.y1 <= g.y2
  BY DEF Solid, Boxes
<1>2. /\ w(a) \in Nat \ {0} /\ h(a) \in Nat \ {0} /\ w(g) \in Nat \ {0} /\ h(g) \in Nat \ {0}
      /\ iw \in Nat /\ ih \in Nat /\ iw <= w(a) /\ ih <= h(a)
  BY <1>1 DEF Greatest, Least
<1>3. Area(a) = w(a) * h(a) /\ Area(g) = w(g) * h(g) /\ Inter(a, g) = iw * ih
  BY DEF Area, Inter
<1> HIDE DEF w, h, iw, ih
<1>4. /\ w(a) * h(a) \in Int /\ w(g) * h(g) \in Int /\ iw * ih \in Int
      /\ iw * ih >= 0 /\ w(g) * h(g) > 0
  BY <1>2, ProductSign
<1>5. iw * ih <= w(a) * h(a)
  BY <1>2, ProductMonotone
<1>6. /\ bbox_overlap(a, g).num = Inter(a, g)
      /\ bbox_overlap(a, g).den = Area(a) + Area(g) - Inter(a, g)
  BY DEF bbox_overlap
<1> QED BY <1>3, <1>4, <1>5, <1>6

\* Two boxes that hold a pixel overlap.
LEMMA SharedPixel ==
    ASSUME NEW a, NEW g, Solid(a), Solid(g), NEW x \in Int, NEW y \in Int,
           Holds(a, x, y), Holds(g, x, y)
    PROVE  Inter(a, g) > 0
<1> DEFINE iw == Greatest(0, Least(a.x2, g.x2) - Greatest(a.x1, g.x1) + 1)
           ih == Greatest(0, Least(a.y2, g.y2) - Greatest(a.y1, g.y1) + 1)
<1>1. /\ a.x1 \in Int /\ a.x2 \in Int /\ a.y1 \in Int /\ a.y2 \in Int
      /\ g.x1 \in Int /\ g.x2 \in Int /\ g.y1 \in Int /\ g.y2 \in Int
  BY DEF Solid, Boxes
<1>2. iw \in Int /\ ih \in Int /\ iw > 0 /\ ih > 0
  BY <1>1 DEF Greatest, Least, Holds
<1>3. Inter(a, g) = iw * ih
  BY DEF Inter
<1> HIDE DEF iw, ih
<1> QED BY <1>2, <1>3, ProductSign

\* An anchor that is best for a box, where some anchor overlaps it, overlaps it;
\* and so does one that is above a positive threshold.
LEMMA BestOverlaps ==
    ASSUME NEW a, NEW b, NEW g, Solid(a), Solid(b), Solid(g), Inter(b, g) > 0,
           AtLeast(bbox_overlap(a, g), bbox_overlap(b, g))
    PROVE  Inter(a, g) > 0
<1> DEFINE n == Inter(a, g)
           d == bbox_overlap(a, g).den
           k == Inter(b, g)
           e == bbox_overlap(b, g).den
<1>1. /\ n \in Nat /\ k \in Nat /\ d \in Nat \ {0} /\ e \in Nat \ {0}
      /\ bbox_overlap(a, g).num = n /\ bbox_overlap(b, g).num = k
  BY OverlapFacts
<1>2. n * e >= k * d
  BY <1>1 DEF AtLeast
<1>3. k > 0
  OBVIOUS
<1> HIDE DEF n, d, k, e
<1>4. k * d > 0 /\ k * d \in Int
  BY <1>1, <1>3, ProductSign
<1>5. n # 0
  BY <1>1, <1>2, <1>4
<1>6. n > 0
  BY <1>1, <1>5
<1> QED BY <1>6 DEF n

LEMMA MostOverlaps ==
    ASSUME NEW a, NEW g, Solid(a), Solid(g), AtLeast(bbox_overlap(a, g), Tenths(7))
    PROVE  Inter(a, g) > 0
<1>1. /\ Inter(a, g) \in Nat /\ bbox_overlap(a, g).den \in Nat \ {0}
      /\ bbox_overlap(a, g).num = Inter(a, g)
  BY OverlapFacts
<1>2. Inter(a, g) * 10 >= 7 * bbox_overlap(a, g).den
  BY <1>1 DEF AtLeast, Tenths
<1> QED BY <1>1, <1>2

-----------------------------------------------------------------------------
(* A greatest overlap.                                                       *)

\* Every set of numbers that is not empty has a least element.
LEMMA LeastNumber ==
    ASSUME NEW S \in SUBSET Nat, S # {}
    PROVE  \E n \in S : \A k \in S : n <= k
<1>1. IsWellFoundedOn(OpToRel(<, Nat), Nat)
  BY NatLessThanWellFounded
<1>2. PICK n \in S : \A k \in S : ~(<<k, n>> \in OpToRel(<, Nat))
  BY <1>1, WFMin
<1>3. \A k \in S : ~(k < n)
  BY <1>2 DEF OpToRel
<1> QED BY <1>3

LEMMA SetInduction ==
    ASSUME NEW S \in SUBSET Nat, 0 \in S, \A n \in S : n + 1 \in S
    PROVE  S = Nat
<1> SUFFICES ASSUME Nat \ S # {} PROVE FALSE
  OBVIOUS
<1>1. PICK n \in Nat \ S : \A k \in Nat \ S : n <= k
  BY LeastNumber
<1>2. n - 1 \in Nat /\ ~(n <= n - 1) /\ (n - 1) + 1 = n
  OBVIOUS
<1> QED BY <1>1, <1>2

Fractions == [num : Nat, den : Nat \ {0}]

LEMMA AtLeastTotal ==
    ASSUME NEW r \in Fractions, NEW s \in Fractions
    PROVE  AtLeast(r, s) \/ AtLeast(s, r)
<1>1. r.num * s.den \in Int /\ s.num * r.den \in Int
  BY DEF Fractions
<1> QED BY <1>1 DEF AtLeast

LEMMA AtLeastTransitive ==
    ASSUME NEW r \in Fractions, NEW s \in Fractions, NEW t \in Fractions,
           AtLeast(r, s), AtLeast(s, t)
    PROVE  AtLeast(r, t)
<1>1. PICK a \in Nat, b \in Nat \ {0}, c \in Nat, d \in Nat \ {0}, e \in Nat, f \in Nat \ {0} :
        /\ a = r.num /\ b = r.den /\ c = s.num /\ d = s.den /\ e = t.num /\ f = t.den
  BY DEF Fractions
<1>2. a * d >= c * b /\ c * f >= e * d
  BY <1>1 DEF AtLeast
<1>3. a * f >= e * b
  <2> SUFFICES ASSUME ~(a * f >= e * b) PROVE FALSE
    OBVIOUS
  <2>1. /\ a * d \in Int /\ c * b \in Int /\ c * f \in Int /\ e * d \in Int
        /\ a * f \in Int /\ e * b \in Int
    OBVIOUS
  <2>2. (a * d - c * b) * f >= 0 /\ (c * f - e * d) * b >= 0 /\ (e * b - a * f) * d > 0
    BY <1>2, <2>1, ProductSign
  <2>3. (a * d - c * b) * f + (c * f - e * d) * b + (e * b - a * f) * d = 0
    BY SMTT(30)
  <2>4. /\ (a * d - c * b) * f \in Int /\ (c * f - e * d) * b \in Int
        /\ (e * b - a * f) * d \in Int
    BY <2>1
  <2> QED BY <2>2, <2>3, <2>4
<1> QED BY <1>1, <1>3 DEF AtLeast

\* Of finitely many fractions one is greatest.
LEMMA GreatestFraction ==
    ASSUME NEW S, IsFiniteSet(S), S # {}, NEW q, \A x \in S : q[x] \in Fractions
    PROVE  \E x \in S : \A y \in S : AtLeast(q[x], q[y])
<1> DEFINE Tops(T) == \E x \in T : \A y \in T : AtLeast(q[x], q[y])
           G == {n \in Nat : \A T \in SUBSET S : Cardinality(T) = n => T = {} \/ Tops(T)}
<1>1. \A T \in SUBSET S : IsFiniteSet(T) /\ Cardinality(T) \in Nat
  BY FS_Subset, FS_CardinalityType
<1>2. 0 \in G
  <2> SUFFICES ASSUME NEW T \in SUBSET S, Cardinality(T) = 0 PROVE T = {}
    OBVIOUS
  <2> QED BY <1>1, FS_EmptySet
<1>3. ASSUME NEW n \in G PROVE n + 1 \in G
  <2> SUFFICES ASSUME NEW T \in SUBSET S, Cardinality(T) = n + 1, T # {} PROVE Tops(T)
    OBVIOUS
  <2> HIDE DEF Tops
  <2>1. PICK z \in T : TRUE
    OBVIOUS
  <2> DEFINE U == T \ {z}
  <2>2. U \in SUBSET S /\ Cardinality(U) = n
    <3>1. Cardinality(U) = Cardinality(T) - 1
      BY <1>1, FS_RemoveElement
    <3> QED BY <3>1
  <2>3. U = {} \/ Tops(U)
    BY <2>2
  <2>4. q[z] \in Fractions /\ AtLeast(q[z], q[z])
    BY AtLeastTotal
  <2>5. CASE U = {}
    <3>1. \A y \in T : y = z
      BY <2>5
    <3> QED BY <2>4, <3>1 DEF Tops
  <2>6. CASE Tops(U)
    <3>1. PICK x \in U : \A y \in U : AtLeast(q[x], q[y])
      BY <2>6 DEF Tops
    <3>2. q[x] \in Fractions /\ x \in T
      OBVIOUS
    <3>3. CASE AtLeast(q[x], q[z])
      <4>1. \A y \in T : AtLeast(q[x], q[y])
        BY <3>1, <3>3
      <4> QED BY <3>2, <4>1 DEF Tops
    <3>4. CASE AtLeast(q[z], q[x])
      <4>1. \A y \in T : AtLeast(q[z], q[y])
        <5> SUFFICES ASSUME NEW y \in T, y # z PROVE AtLeast(q[z], q[y])
          BY <2>4
        <5>1. q[y] \in Fractions /\ AtLeast(q[x], q[y])
          BY <3>1
        <5> QED BY <2>4, <3>2, <3>4, <5>1, AtLeastTransitive
      <4> QED BY <4>1 DEF Tops
    <3> QED BY <2>4, <3>2, <3>3, <3>4, AtLeastTotal
  <2> QED BY <2>3, <2>5, <2>6
<1>4. G = Nat
  BY <1>2, <1>3, SetInduction
<1> HIDE DEF Tops
<1>5. Tops(S)
  BY <1>1, <1>4
<1> QED BY <1>5 DEF Tops

\* For every box there is an anchor that is best for it.
LEMMA BestExists ==
    ASSUME image \in Images, NEW g, Solid(g)
    PROVE  \E a \in anchors : BestFor(a, g)
<1> DEFINE q == [a \in anchors |-> bbox_overlap(a, g)]
<1>1. anchors # {}
  <2>1. 0 \in 0 .. image.w - 1 /\ 0 \in 0 .. image.h - 1
    BY ImagesAssumption
  <2> QED BY <2>1, CellHolds
<1>2. \A a \in anchors : q[a] \in Fractions
  <2> SUFFICES ASSUME NEW a \in anchors PROVE bbox_overlap(a, g) \in Fractions
    OBVIOUS
  <2>1. Solid(a)
    BY AnchorsSolid DEF anchors
  <2>2. /\ bbox_overlap(a, g).num \in Nat /\ bbox_overlap(a, g).den \in Nat \ {0}
    BY <2>1, OverlapFacts
  <2> QED BY <2>2 DEF bbox_overlap, Fractions
<1>3. IsFiniteSet(anchors)
  BY AnchorsFinite
<1> HIDE DEF q
<1>4. PICK a \in anchors : \A b \in anchors : AtLeast(q[a], q[b])
  BY <1>1, <1>2, <1>3, GreatestFraction
<1> QED BY <1>4 DEF BestFor, q

-----------------------------------------------------------------------------
(* The labels.                                                               *)

Labelled == pc \in {"fg", "bg", "done"}

\* No polygon of the image reaches its right edge.
EndsInside == \A p \in image.polys : p.x1 < image.w

BoxesOK == \A g \in gt_boxes : \E p \in image.polys : g \in shrink_poly(p)

PositivesOK == Labelled => \A a \in With(1) : a \in anchors /\ Foreground(a)

HalfIsText == pc \in {"bg", "done"} => Cardinality(With(1)) <= num_fg

IInv ==
    /\ pc \in {"split", "load", "label", "fg", "bg", "done", "skipped"}
    /\ image \in Images
    /\ BoxesOK
    /\ pc = "label" \/ Labelled => gt_boxes # {}
    /\ Labelled => labels \in [all_anchors -> {-1, 0, 1}]
    /\ PositivesOK
    /\ HalfIsText

\* What npr.choice leaves of the anchors in S.
LEMMA SampledFacts ==
    ASSUME NEW S \in SUBSET DOMAIN labels, IsFiniteSet(S), NEW n \in Nat,
           NEW l \in Sampled(S, n), DOMAIN labels = all_anchors,
           labels = [a \in DOMAIN labels |-> labels[a]]
    PROVE  \E kept \in SUBSET S :
              /\ l = [a \in DOMAIN labels |-> IF a \in S \ kept THEN -1 ELSE labels[a]]
              /\ Cardinality(kept) \in 0 .. n
              /\ Cardinality(kept) < n => kept = S
<1>1. Cardinality(S) \in Nat
  BY FS_CardinalityType
<1>2. CASE Cardinality(S) <= n
  <2>1. l = labels
    BY <1>2 DEF Sampled
  <2>2. l = [a \in DOMAIN labels |-> IF a \in S \ S THEN -1 ELSE labels[a]]
    BY <2>1
  <2> QED BY <1>1, <1>2, <2>2
<1>3. CASE ~(Cardinality(S) <= n)
  <2> DEFINE Sets == {{f[k] : k \in 1..n} : f \in [1..n -> S]}
             Rest(T) == [a \in DOMAIN labels |-> IF a \in S \ T THEN -1 ELSE labels[a]]
  <2>1. l \in {Rest(T) : T \in {U \in Sets : Cardinality(U) = n}}
    BY <1>3, Zenon DEF Sampled
  <2>2. Sets \subseteq SUBSET S
    OBVIOUS
  <2> HIDE DEF Sets, Rest
  <2>3. PICK kept \in Sets : l = Rest(kept) /\ Cardinality(kept) = n
    BY <2>1
  <2>4. Cardinality(kept) \in 0 .. n /\ ~(Cardinality(kept) < n)
    BY <2>3
  <2> QED BY <2>2, <2>3, <2>4 DEF Rest
<1> QED BY <1>2, <1>3

LEMMA WithFinite ==
    ASSUME image \in Images, labels \in [all_anchors -> {-1, 0, 1}], NEW n
    PROVE  IsFiniteSet(With(n)) /\ Cardinality(With(n)) \in Nat
<1>1. With(n) \in SUBSET all_anchors
  BY DEF With
<1> QED BY <1>1, AnchorsFinite, FS_Subset, FS_CardinalityType

LEMMA BoxesSolid ==
    ASSUME IInv, NEW g \in gt_boxes
    PROVE  Solid(g)
<1>1. PICK p \in image.polys : g \in shrink_poly(p)
  BY DEF IInv, BoxesOK
<1>2. PICK x \in p.x0 .. p.x1, y \in 0 .. image.h - 1 : g \in Boxes /\ Holds(g, x, y)
  BY <1>1, BoxHolds DEF IInv
<1>3. x \in Int /\ y \in Int
  OBVIOUS
<1> QED BY <1>2, <1>3 DEF Holds, Solid, Boxes

\* What an action that samples does: the labels of S beyond kept are lost.
LEMMA SampleFgFacts ==
    ASSUME IInv, SampleFg
    PROVE  \E kept \in SUBSET With(1) :
              /\ labels' = [a \in all_anchors |-> IF a \in With(1) \ kept THEN -1 ELSE labels[a]]
              /\ Cardinality(kept) \in 0 .. num_fg
              /\ Cardinality(kept) < num_fg => kept = With(1)
<1>1. labels \in [all_anchors -> {-1, 0, 1}] /\ image \in Images
  BY DEF IInv, SampleFg, Labelled
<1>2. num_fg \in Nat
  BY BatchAssumption, SMTT(30) DEF num_fg
<1>3. /\ DOMAIN labels = all_anchors
      /\ labels = [a \in DOMAIN labels |-> labels[a]]
      /\ With(1) \in SUBSET DOMAIN labels
  BY <1>1 DEF With
<1>4. IsFiniteSet(With(1))
  BY <1>1, WithFinite
<1>5. labels' \in Sampled(With(1), num_fg)
  BY DEF SampleFg
<1> QED BY <1>2, <1>3, <1>4, <1>5, SampledFacts

LEMMA NumbersFit ==
    ASSUME IInv
    PROVE  /\ num_fg \in 0 .. RPN_BATCHSIZE /\ 2 * num_fg <= RPN_BATCHSIZE
           /\ RPN_BATCHSIZE >= 2 => num_fg >= 1
           /\ pc \in {"bg", "done"} => num_bg \in Nat
<1>1. /\ num_fg \in 0 .. RPN_BATCHSIZE /\ 2 * num_fg <= RPN_BATCHSIZE
      /\ RPN_BATCHSIZE >= 2 => num_fg >= 1
  BY BatchAssumption, SMTT(30) DEF num_fg
<1>2. ASSUME pc \in {"bg", "done"} PROVE num_bg \in Nat
  <2>1. Cardinality(With(1)) \in Nat /\ Cardinality(With(1)) <= num_fg
    BY <1>2, WithFinite DEF IInv, HalfIsText, Labelled
  <2> QED BY <1>1, <2>1, BatchAssumption DEF num_bg
<1> QED BY <1>1, <1>2

LEMMA SampleBgFacts ==
    ASSUME IInv, SampleBg
    PROVE  \E kept \in SUBSET With(0) :
              /\ labels' = [a \in all_anchors |-> IF a \in With(0) \ kept THEN -1 ELSE labels[a]]
              /\ Cardinality(kept) \in 0 .. num_bg
              /\ Cardinality(kept) < num_bg => kept = With(0)
<1>1. labels \in [all_anchors -> {-1, 0, 1}] /\ image \in Images
  BY DEF IInv, SampleBg, Labelled
<1>2. num_bg \in Nat
  BY NumbersFit DEF SampleBg
<1>3. /\ DOMAIN labels = all_anchors
      /\ labels = [a \in DOMAIN labels |-> labels[a]]
      /\ With(0) \in SUBSET DOMAIN labels
  BY <1>1 DEF With
<1>4. IsFiniteSet(With(0))
  BY <1>1, WithFinite
<1>5. labels' \in Sampled(With(0), num_bg)
  BY DEF SampleBg
<1> QED BY <1>2, <1>3, <1>4, <1>5, SampledFacts

\* What depends on the image and its boxes alone.
LEMMA Frame ==
    ASSUME UNCHANGED <<image, gt_boxes>>
    PROVE  /\ all_anchors' = all_anchors /\ anchors' = anchors
           /\ \A a : Foreground(a)' <=> Foreground(a)
           /\ \A a : LabelOf(a)' = LabelOf(a)
           /\ BoxesOK' <=> BoxesOK
           /\ EndsInside' <=> EndsInside
<1>1. all_anchors' = all_anchors
  BY DEF all_anchors
<1>2. anchors' = anchors
  BY <1>1 DEF anchors
<1>3. \A a, g : BestFor(a, g)' <=> BestFor(a, g)
  BY <1>2 DEF BestFor
<1>4. \A a : Foreground(a)' <=> Foreground(a)
  BY <1>3 DEF Foreground
<1>5. \A a : Background(a)' <=> Background(a)
  BY DEF Background
<1>6. \A a : LabelOf(a)' = LabelOf(a)
  BY <1>4, <1>5, Zenon DEF LabelOf
<1>7. (BoxesOK' <=> BoxesOK) /\ (EndsInside' <=> EndsInside)
  BY DEF BoxesOK, EndsInside
<1> QED BY <1>1, <1>2, <1>4, <1>6, <1>7

LEMMA LabelValues ==
    ASSUME NEW a
    PROVE  LabelOf(a) \in {-1, 0, 1} /\ (LabelOf(a) = 1 => Foreground(a))
<1> QED BY DEF LabelOf

LEMMA InitInv == Init => IInv
<1> QED BY DEF Init, IInv, BoxesOK, PositivesOK, HalfIsText, Labelled

LEMMA SplitInv == IInv /\ SplitLabel => IInv'
<1> SUFFICES ASSUME IInv, SplitLabel PROVE IInv'
  OBVIOUS
<1>1. pc' = "load" /\ image' = image /\ image \in Images
  BY DEF IInv, SplitLabel
<1>2. BoxesOK'
  <2> SUFFICES ASSUME NEW g \in gt_boxes' PROVE \E p \in image.polys : g \in shrink_poly(p)
    BY <1>1 DEF BoxesOK
  <2> QED BY DEF SplitLabel
<1>3. ~Labelled' /\ PositivesOK' /\ HalfIsText'
  BY <1>1 DEF Labelled, PositivesOK, HalfIsText
<1> QED BY <1>1, <1>2, <1>3 DEF IInv

LEMMA LoadInv == IInv /\ Load => IInv'
<1> SUFFICES ASSUME IInv, Load PROVE IInv'
  OBVIOUS
<1>1. /\ pc' = "skipped" \/ (pc' = "label" /\ gt_boxes # {})
      /\ UNCHANGED <<image, gt_boxes, labels>> /\ image \in Images
  BY DEF IInv, Load
<1>2. BoxesOK'
  BY <1>1, Frame DEF IInv
<1>3. ~Labelled' /\ PositivesOK' /\ HalfIsText'
  BY <1>1 DEF Labelled, PositivesOK, HalfIsText
<1> QED BY <1>1, <1>2, <1>3 DEF IInv

LEMMA LabelInv == IInv /\ Label => IInv'
<1> SUFFICES ASSUME IInv, Label PROVE IInv'
  OBVIOUS
<1>1. /\ pc' = "fg" /\ UNCHANGED <<image, gt_boxes>> /\ image \in Images /\ gt_boxes # {}
      /\ labels' = [a \in all_anchors |-> IF a \in anchors THEN LabelOf(a) ELSE -1]
  BY DEF IInv, Label
<1>2. BoxesOK' /\ all_anchors' = all_anchors /\ anchors' = anchors
  BY <1>1, Frame DEF IInv
<1>3. labels' \in [all_anchors' -> {-1, 0, 1}]
  BY <1>1, <1>2, LabelValues
<1>4. PositivesOK'
  <2> SUFFICES ASSUME NEW a \in all_anchors, labels'[a] = 1
               PROVE  a \in anchors /\ Foreground(a)
    BY <1>1, <1>2, Frame DEF PositivesOK, With
  <2>1. labels'[a] = IF a \in anchors THEN LabelOf(a) ELSE -1
    BY <1>1
  <2> QED BY <2>1, LabelValues
<1>5. HalfIsText'
  BY <1>1 DEF HalfIsText
<1> QED BY <1>1, <1>2, <1>3, <1>4, <1>5 DEF IInv

LEMMA SampleFgInv == IInv /\ SampleFg => IInv'
<1> SUFFICES ASSUME IInv, SampleFg PROVE IInv'
  OBVIOUS
<1>1. /\ pc' = "bg" /\ UNCHANGED <<image, gt_boxes>> /\ image \in Images /\ gt_boxes # {}
      /\ labels \in [all_anchors -> {-1, 0, 1}] /\ Labelled
  BY DEF IInv, SampleFg, Labelled
<1>2. BoxesOK' /\ all_anchors' = all_anchors /\ anchors' = anchors
  BY <1>1, Frame DEF IInv
<1>3. PICK kept \in SUBSET With(1) :
        /\ labels' = [a \in all_anchors |-> IF a \in With(1) \ kept THEN -1 ELSE labels[a]]
        /\ Cardinality(kept) \in 0 .. num_fg
  BY SampleFgFacts
<1>4. labels' \in [all_anchors' -> {-1, 0, 1}]
  BY <1>1, <1>2, <1>3
<1>5. With(1)' = kept
  BY <1>1, <1>3 DEF With
<1>6. PositivesOK'
  <2> SUFFICES ASSUME NEW a \in kept PROVE a \in anchors /\ Foreground(a)
    BY <1>1, <1>2, <1>5, Frame DEF PositivesOK
  <2> QED BY <1>1 DEF IInv, PositivesOK
<1>7. HalfIsText'
  BY <1>3, <1>5 DEF HalfIsText, num_fg
<1> QED BY <1>1, <1>2, <1>4, <1>6, <1>7 DEF IInv

LEMMA SampleBgInv == IInv /\ SampleBg => IInv'
<1> SUFFICES ASSUME IInv, SampleBg PROVE IInv'
  OBVIOUS
<1>1. /\ pc' = "done" /\ UNCHANGED <<image, gt_boxes>> /\ image \in Images /\ gt_boxes # {}
      /\ labels \in [all_anchors -> {-1, 0, 1}] /\ Labelled
      /\ Cardinality(With(1)) <= num_fg
  BY DEF IInv, SampleBg, Labelled, HalfIsText
<1>2. BoxesOK' /\ all_anchors' = all_anchors /\ anchors' = anchors
  BY <1>1, Frame DEF IInv
<1>3. PICK kept \in SUBSET With(0) :
        labels' = [a \in all_anchors |-> IF a \in With(0) \ kept THEN -1 ELSE labels[a]]
  BY SampleBgFacts
<1>4. labels' \in [all_anchors' -> {-1, 0, 1}]
  BY <1>1, <1>2, <1>3
<1>5. With(1)' = With(1)
  BY <1>1, <1>3 DEF With
<1>6. PositivesOK'
  <2> SUFFICES ASSUME NEW a \in With(1) PROVE a \in anchors /\ Foreground(a)
    BY <1>1, <1>2, <1>5, Frame DEF PositivesOK
  <2> QED BY <1>1 DEF IInv, PositivesOK
<1>7. HalfIsText'
  BY <1>1, <1>5 DEF HalfIsText, num_fg
<1> QED BY <1>1, <1>2, <1>4, <1>6, <1>7 DEF IInv

LEMMA StutterInv == IInv /\ UNCHANGED vars => IInv'
<1> SUFFICES ASSUME IInv, UNCHANGED vars PROVE IInv'
  OBVIOUS
<1>1. UNCHANGED <<image, gt_boxes>> /\ labels' = labels /\ pc' = pc
  BY DEF vars
<1>2. With(1)' = With(1) /\ (Labelled' <=> Labelled) /\ num_fg' = num_fg
  BY <1>1 DEF With, Labelled, num_fg
<1>3. /\ BoxesOK' /\ all_anchors' = all_anchors /\ anchors' = anchors
      /\ \A a : Foreground(a)' <=> Foreground(a)
  BY <1>1, Frame DEF IInv
<1>4. PositivesOK' /\ HalfIsText'
  BY <1>1, <1>2, <1>3 DEF IInv, PositivesOK, HalfIsText
<1> QED BY <1>1, <1>2, <1>3, <1>4 DEF IInv

\* The boxes come from the polygons, the positives from the boxes, and at most half
\* of the batch is positive, at every step of the preparation.
THEOREM Invariant == Spec => []IInv
<1>1. IInv /\ [Next]_vars => IInv'
  BY SplitInv, LoadInv, LabelInv, SampleFgInv, SampleBgInv, StutterInv DEF Next
<1> QED BY InitInv, <1>1, PTL DEF Spec

\* Unless a polygon reaches the right edge of its image, an anchor that is trained as
\* text overlaps a box of text: the labels of anchor_target_layer, and what the
\* sampling leaves of them.
THEOREM OnlyTextIsText == Spec => [](EndsInside => PositivesTouch)
<1>1. IInv => (EndsInside => PositivesTouch)
  <2> SUFFICES ASSUME IInv, EndsInside, Labelled, NEW a \in With(1)
               PROVE  \E g \in gt_boxes : Inter(a, g) > 0
    BY DEF PositivesTouch, Labelled
  <2>1. a \in anchors /\ Foreground(a) /\ image \in Images
    BY DEF IInv, PositivesOK
  <2>2. PICK g \in gt_boxes : BestFor(a, g) \/ AtLeast(bbox_overlap(a, g), Tenths(7))
    BY <2>1 DEF Foreground
  <2>3. Solid(a) /\ Solid(g)
    BY <2>1, AnchorsSolid, BoxesSolid DEF anchors
  <2>4. CASE AtLeast(bbox_overlap(a, g), Tenths(7))
    BY <2>3, <2>4, MostOverlaps
  <2>5. CASE BestFor(a, g)
    <3>1. PICK p \in image.polys : g \in shrink_poly(p)
      BY DEF IInv, BoxesOK
    <3>2. PICK x \in p.x0 .. p.x1, y \in 0 .. image.h - 1 : Holds(g, x, y)
      BY <2>1, <3>1, BoxHolds
    <3>3. x \in 0 .. image.w - 1
      BY <2>1, PolygonType DEF EndsInside
    <3>4. PICK b \in anchors : Holds(b, x, y)
      BY <2>1, <3>3, CellHolds
    <3>5. Solid(b)
      BY <2>1, AnchorsSolid DEF anchors
    <3>6. x \in Int /\ y \in Int
      BY <3>3
    <3>7. Inter(b, g) > 0
      BY <2>3, <3>2, <3>4, <3>5, <3>6, SharedPixel
    <3>8. AtLeast(bbox_overlap(a, g), bbox_overlap(b, g))
      BY <2>5 DEF BestFor
    <3> QED BY <2>3, <3>5, <3>7, <3>8, BestOverlaps
  <2> QED BY <2>2, <2>4, <2>5
<1> QED BY Invariant, <1>1, PTL

-----------------------------------------------------------------------------
(* The batch.                                                                *)

NegativesKept == \A a \in anchors : LabelOf(a) = 0 => labels[a] = 0

BatchInv ==
    /\ Labelled => With(1) # {}
    /\ pc \in {"fg", "bg"} => NegativesKept
    /\ BatchFilled

\* Positives that are not clobbered: every box has made one.
LEMMA LabelBatch ==
    ASSUME IInv, Label, ~RPN_CLOBBER_POSITIVES
    PROVE  BatchInv'
<1>1. /\ pc' = "fg" /\ UNCHANGED <<image, gt_boxes>> /\ image \in Images /\ gt_boxes # {}
      /\ labels' = [a \in all_anchors |-> IF a \in anchors THEN LabelOf(a) ELSE -1]
  BY DEF IInv, Label
<1>2. anchors' = anchors /\ anchors \subseteq all_anchors /\ \A a : LabelOf(a)' = LabelOf(a)
  BY <1>1, Frame DEF anchors
<1>3. \A a \in anchors : labels'[a] = LabelOf(a)
  BY <1>1, <1>2
<1>4. With(1)' # {}
  <2>1. PICK g \in gt_boxes : TRUE
    BY <1>1
  <2>2. PICK a \in anchors : BestFor(a, g)
    BY <1>1, BoxesSolid, BestExists
  <2>3. LabelOf(a) = 1
    BY <2>2 DEF LabelOf, Foreground
  <2>4. a \in DOMAIN labels' /\ labels'[a] = 1
    BY <1>1, <1>2, <1>3, <2>3
  <2> QED BY <2>4 DEF With
<1>5. NegativesKept'
  BY <1>2, <1>3 DEF NegativesKept
<1>6. BatchFilled'
  BY <1>1 DEF BatchFilled
<1> QED BY <1>4, <1>5, <1>6 DEF BatchInv

LEMMA SampleFgBatch ==
    ASSUME IInv, BatchInv, SampleFg, RPN_BATCHSIZE >= 2
    PROVE  BatchInv'
<1>1. /\ pc' = "bg" /\ UNCHANGED <<image, gt_boxes>> /\ image \in Images
      /\ labels \in [all_anchors -> {-1, 0, 1}]
      /\ With(1) # {} /\ NegativesKept
  BY DEF IInv, BatchInv, SampleFg, Labelled
<1>2. anchors' = anchors /\ anchors \subseteq all_anchors /\ \A a : LabelOf(a)' = LabelOf(a)
  BY <1>1, Frame DEF anchors
<1>3. PICK kept \in SUBSET With(1) :
        /\ labels' = [a \in all_anchors |-> IF a \in With(1) \ kept THEN -1 ELSE labels[a]]
        /\ Cardinality(kept) \in 0 .. num_fg
        /\ Cardinality(kept) < num_fg => kept = With(1)
  BY SampleFgFacts
<1>4. With(1)' = kept
  BY <1>1, <1>3 DEF With
<1>5. kept # {}
  <2>1. num_fg \in Nat /\ num_fg >= 1
    BY NumbersFit
  <2>2. kept = {} => Cardinality(kept) = 0
    BY FS_EmptySet
  <2> QED BY <1>1, <1>3, <2>1, <2>2
<1>6. NegativesKept'
  <2> SUFFICES ASSUME NEW a \in anchors, LabelOf(a) = 0 PROVE labels'[a] = 0
    BY <1>2 DEF NegativesKept
  <2>1. labels[a] = 0 /\ a \in all_anchors /\ a \notin With(1)
    BY <1>1, <1>2 DEF NegativesKept, With
  <2> QED BY <1>3, <2>1
<1>7. BatchFilled'
  BY <1>1 DEF BatchFilled
<1> QED BY <1>4, <1>5, <1>6, <1>7, <1>1 DEF BatchInv

LEMMA SampleBgBatch ==
    ASSUME IInv, BatchInv, SampleBg
    PROVE  BatchInv'
<1>1. /\ pc' = "done" /\ UNCHANGED <<image, gt_boxes>> /\ image \in Images
      /\ labels \in [all_anchors -> {-1, 0, 1}] /\ pc = "bg"
      /\ With(1) # {} /\ NegativesKept /\ Cardinality(With(1)) <= num_fg
  BY DEF IInv, BatchInv, SampleBg, Labelled, HalfIsText
<1>2. anchors' = anchors /\ anchors \subseteq all_anchors /\ \A a : LabelOf(a)' = LabelOf(a)
  BY <1>1, Frame DEF anchors
<1>3. PICK kept \in SUBSET With(0) :
        /\ labels' = [a \in all_anchors |-> IF a \in With(0) \ kept THEN -1 ELSE labels[a]]
        /\ Cardinality(kept) \in 0 .. num_bg
        /\ Cardinality(kept) < num_bg => kept = With(0)
  BY SampleBgFacts
<1>4. With(1)' = With(1) /\ With(0)' = kept
  BY <1>1, <1>3 DEF With
<1>5. /\ Cardinality(With(1)) \in Nat \ {0} /\ num_fg \in Nat
      /\ num_bg = RPN_BATCHSIZE - Cardinality(With(1)) /\ RPN_BATCHSIZE \in Nat
  BY <1>1, WithFinite, NumbersFit, FS_EmptySet, BatchAssumption DEF num_bg
<1>6. /\ Cardinality(With(1)) \in 1 .. num_fg
      /\ Cardinality(With(1)) + Cardinality(kept) <= RPN_BATCHSIZE
  BY <1>1, <1>3, <1>5
<1>7. ASSUME Cardinality(With(1)) + Cardinality(kept) < RPN_BATCHSIZE
      PROVE  NegativesKept'
  <2>1. kept = With(0)
    BY <1>3, <1>5, <1>7
  <2>2. labels' = labels
    BY <1>1, <1>3, <2>1
  <2> QED BY <1>1, <1>2, <2>2 DEF NegativesKept
<1>8. BatchFilled'
  BY <1>4, <1>6, <1>7 DEF BatchFilled, NegativesKept, num_fg
<1> QED BY <1>1, <1>4, <1>8 DEF BatchInv

LEMMA BatchStutter == BatchInv /\ UNCHANGED vars => BatchInv'
<1> SUFFICES ASSUME BatchInv, UNCHANGED vars PROVE BatchInv'
  OBVIOUS
<1>1. UNCHANGED <<image, gt_boxes>> /\ labels' = labels /\ pc' = pc
  BY DEF vars
<1>2. (\A n : With(n)' = With(n)) /\ (Labelled' <=> Labelled)
  BY <1>1 DEF With, Labelled
<1>3. anchors' = anchors /\ \A a : LabelOf(a)' = LabelOf(a)
  BY <1>1, Frame
<1>4. NegativesKept' <=> NegativesKept
  BY <1>1, <1>3 DEF NegativesKept
<1>5. BatchFilled'
  BY <1>1, <1>2, <1>3 DEF BatchInv, BatchFilled, num_fg
<1> QED BY <1>1, <1>2, <1>4, <1>5 DEF BatchInv

\* With positives that are not clobbered, as config.py has it, and a batch of two or
\* more, the batch has text in it, at most half of it, is never more than full, and
\* full whenever there are negatives left.
THEOREM BatchIsFilled ==
    ~RPN_CLOBBER_POSITIVES /\ RPN_BATCHSIZE >= 2 => (Spec => []BatchFilled)
<1> SUFFICES ASSUME ~RPN_CLOBBER_POSITIVES, RPN_BATCHSIZE >= 2
             PROVE  Spec => []BatchFilled
  OBVIOUS
<1>1. Init => BatchInv
  BY DEF Init, BatchInv, Labelled, BatchFilled
<1>2. IInv /\ BatchInv /\ [Next]_vars => BatchInv'
  <2> SUFFICES ASSUME IInv, BatchInv, [Next]_vars PROVE BatchInv'
    OBVIOUS
  <2>1. CASE SplitLabel
    BY <2>1 DEF SplitLabel, BatchInv, Labelled, BatchFilled
  <2>2. CASE Load
    BY <2>2 DEF Load, BatchInv, Labelled, BatchFilled
  <2>3. CASE Label
    BY <2>3, LabelBatch
  <2>4. CASE SampleFg
    BY <2>4, SampleFgBatch
  <2>5. CASE SampleBg
    BY <2>5, SampleBgBatch
  <2>6. CASE UNCHANGED vars
    BY <2>6, BatchStutter
  <2> QED BY <2>1, <2>2, <2>3, <2>4, <2>5, <2>6 DEF Next
<1>3. BatchInv => BatchFilled
  BY DEF BatchInv
<1> QED BY Invariant, <1>1, <1>2, <1>3, PTL DEF Spec

-----------------------------------------------------------------------------
(* The right edge.                                                           *)

\* A polygon that is not dropped and reaches the right edge of the image.
AtEdge(p) == p \in image.polys /\ LargeEnough(p) /\ p.x1 = image.w

EdgeInv ==
    /\ pc # "split" => \A p \in image.polys : LargeEnough(p) => shrink_poly(p) \subseteq gt_boxes
    /\ pc = "fg" => \A a \in anchors : labels[a] = LabelOf(a)

\* Its last piece begins beyond the image and overlaps no anchor, so that each of them
\* is best for it.
LEMMA AllBest ==
    ASSUME image \in Images, NEW p, AtEdge(p), NEW a \in anchors
    PROVE  \E g \in shrink_poly(p) : BestFor(a, g)
<1>1. /\ image.w \in Nat \ {0} /\ image.w % 16 = 0
      /\ p.x0 \in Nat /\ p.x1 = image.w /\ p.x0 < image.w
  BY PolygonType DEF AtEdge
<1> DEFINE start == (p.x0 \div 16 + 1) * 16
           last == (p.x1 \div 16) * 16
           g == Piece(p, image.w, image.w + 15)
<1>2. start \in Int /\ last = image.w /\ image.w \in start .. last
  BY <1>1, SMTT(30)
<1>3. g \in shrink_poly(p)
  <2> HIDE DEF g, start, last
  <2>1. image.w \in {c \in start .. last : c % 16 = 0}
    BY <1>1, <1>2
  <2> QED BY <2>1 DEF shrink_poly, g, start, last
<1>4. Solid(g) /\ g.x1 = image.w
  <2>1. image.w \in p.x0 .. p.x1 /\ image.w + 15 \in Int /\ image.w <= image.w + 15
    BY <1>1
  <2>2. g \in Boxes /\ Holds(g, image.w, TopAt(p, image.w)) /\ TopAt(p, image.w) \in Int
    <3>1. p \in image.polys /\ image.h - 1 \in Int
      BY ImagesAssumption DEF AtEdge
    <3> QED BY <2>1, <3>1, PieceHolds
  <2> QED BY <1>1, <2>2 DEF Holds, Solid, Boxes, Piece
<1> HIDE DEF g
<1>5. \A b \in anchors : Solid(b) /\ Inter(b, g) = 0
  <2> SUFFICES ASSUME NEW b \in anchors PROVE Solid(b) /\ Inter(b, g) = 0
    OBVIOUS
  <2>1. Solid(b) /\ b.x2 < image.w
    BY AnchorsSolid DEF anchors
  <2> DEFINE ih == Greatest(0, Least(b.y2, g.y2) - Greatest(b.y1, g.y1) + 1)
  <2>2. Greatest(0, Least(b.x2, g.x2) - Greatest(b.x1, g.x1) + 1) = 0 /\ ih \in Int
    BY <1>1, <1>4, <2>1 DEF Solid, Boxes, Greatest, Least
  <2>3. Inter(b, g) = Greatest(0, Least(b.x2, g.x2) - Greatest(b.x1, g.x1) + 1) * ih
    BY DEF Inter
  <2> HIDE DEF ih
  <2>4. Inter(b, g) = 0
    BY <2>2, <2>3
  <2> QED BY <2>1, <2>4
<1>6. \A b \in anchors : bbox_overlap(b, g).num = 0 /\ bbox_overlap(b, g).den \in Int
  BY <1>4, <1>5, OverlapFacts
<1>7. BestFor(a, g)
  BY <1>6 DEF BestFor, AtLeast
<1> QED BY <1>3, <1>7

\* The cause of the run targets_edge, for every image: one polygon at the right edge,
\* and anchor_target_layer labels every anchor within the image as text.
THEOREM EdgeMakesAllPositive ==
    ~RPN_CLOBBER_POSITIVES =>
        (Spec => [](pc = "fg" /\ (\E p \in image.polys : AtEdge(p)) =>
                       \A a \in anchors : labels[a] = 1))
<1> SUFFICES ASSUME ~RPN_CLOBBER_POSITIVES
             PROVE  Spec => [](pc = "fg" /\ (\E p \in image.polys : AtEdge(p)) =>
                                  \A a \in anchors : labels[a] = 1)
  OBVIOUS
<1>1. Init => EdgeInv
  BY DEF Init, EdgeInv
<1>2. IInv /\ EdgeInv /\ [Next]_vars => EdgeInv'
  <2> SUFFICES ASSUME IInv, EdgeInv, [Next]_vars PROVE EdgeInv'
    OBVIOUS
  <2>1. CASE SplitLabel
    BY <2>1 DEF SplitLabel, EdgeInv
  <2>2. CASE Label
    <3>1. /\ UNCHANGED <<image, gt_boxes>> /\ pc = "label"
          /\ labels' = [a \in all_anchors |-> IF a \in anchors THEN LabelOf(a) ELSE -1]
      BY <2>2 DEF Label
    <3>2. /\ anchors' = anchors /\ \A a : LabelOf(a)' = LabelOf(a)
          /\ anchors \subseteq all_anchors
      BY <3>1, Frame DEF anchors
    <3>3. \A a \in anchors' : labels'[a] = LabelOf(a)'
      BY <3>1, <3>2
    <3> QED BY <3>1, <3>3 DEF EdgeInv
  <2>3. CASE pc # "split" /\ pc' # "fg" /\ UNCHANGED <<image, gt_boxes>>
    BY <2>3 DEF EdgeInv
  <2>4. CASE Load \/ SampleFg \/ SampleBg
    <3>1. pc # "split" /\ pc' # "fg" /\ UNCHANGED <<image, gt_boxes>>
      BY <2>4 DEF Load, SampleFg, SampleBg
    <3> QED BY <2>3, <3>1
  <2>5. CASE UNCHANGED vars
    <3>1. UNCHANGED <<image, gt_boxes>> /\ pc' = pc /\ labels' = labels
      BY <2>5 DEF vars
    <3>2. anchors' = anchors /\ \A a : LabelOf(a)' = LabelOf(a)
      BY <3>1, Frame
    <3> QED BY <3>1, <3>2 DEF EdgeInv
  <2> QED BY <2>1, <2>2, <2>4, <2>5 DEF Next
<1>3. IInv /\ EdgeInv => (pc = "fg" /\ (\E p \in image.polys : AtEdge(p)) =>
                             \A a \in anchors : labels[a] = 1)
  <2> SUFFICES ASSUME IInv, EdgeInv, pc = "fg", NEW p \in image.polys, AtEdge(p),
                      NEW a \in anchors
               PROVE  labels[a] = 1
    OBVIOUS
  <2>1. PICK g \in shrink_poly(p) : BestFor(a, g)
    BY AllBest DEF IInv
  <2>2. g \in gt_boxes
    BY <2>1 DEF EdgeInv, AtEdge
  <2>3. LabelOf(a) = 1
    BY <2>1, <2>2 DEF LabelOf, Foreground
  <2> QED BY <2>3 DEF EdgeInv
<1> QED BY Invariant, <1>1, <1>2, <1>3, PTL DEF Spec
=============================================================================
