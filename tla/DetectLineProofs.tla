------------------------- MODULE DetectLineProofs -------------------------
(* The line detector, for images of every size and every output of the       *)
(* network.                                                                  *)
EXTENDS DetectLine, FiniteSetTheorems, TLAPS

Resized == {"aligned", "nms_rpn", "nms_text", "connect"}

\* The sides before and after they are put on the grid.
SidesInv ==
    /\ pc \in {"raw", "scaled", "raised"} \cup Resized
    /\ h \in Nat \ {0} /\ w \in Nat \ {0}
    /\ new_h \in Nat /\ new_w \in Nat
    /\ pc = "scaled" => /\ new_h <= 1200 /\ new_w <= 1200
                        /\ new_h = 0 \/ new_w = 0 => Greatest(h, w) >= 1200 * Least(h, w)
    /\ pc = "raised" => Greatest(h, w) >= 1200 * Least(h, w)
    /\ pc \in Resized => new_h \in 1..1216 /\ new_w \in 1..1216

\* The boxes that are inside of the image.
Inside == {b \in [x1 : Nat, y1 : Nat, x2 : Nat, y2 : Nat, anchor : Nat, score : 0..100] :
              b.x1 < new_w /\ b.y1 <= b.y2}

\* All that is proposed is inside, and each order is by score.
BoxesInv ==
    /\ IsFiniteSet(proposals) /\ proposals \subseteq Inside
    /\ IsFiniteSet(rois) /\ rois \subseteq Inside
    /\ pc \in {"raw", "scaled", "aligned"} => proposals = {} /\ rois = {} /\ order = <<>>
    /\ order \in Seq(Inside)
    /\ \A j, k \in 1..Len(order) : j < k => order[j].score >= order[k].score

\* nms between two rounds: the places before i are decided, the kept boxes do
\* not overlap any box that is still in, and each box that is out is covered.
NmsInv ==
    /\ i \in 1..(Len(order) + 1)
    /\ keep \subseteq 1..(i - 1)
    /\ suppressed \subseteq 1..Len(order)
    /\ 1..(i - 1) \subseteq keep \cup suppressed
    /\ pc \in {"nms_rpn", "nms_text"} =>
          /\ \A k \in keep : \A j \in 1..Len(order) :
                k < j /\ j \notin suppressed => ~Overlap(pc, order[k], order[j])
          /\ keep \cap suppressed = {}
          /\ \A j \in suppressed : \E k \in keep : k < j /\ Overlap(pc, order[k], order[j])

IInv == SidesInv /\ BoxesInv /\ NmsInv

-----------------------------------------------------------------------------
(* resize_image.                                                             *)

\* A quotient is below any bound that its dividend keeps.
LEMMA QuotientBound ==
    ASSUME NEW n \in Nat, NEW d \in Nat \ {0}, NEW b \in Nat, n < (b + 1) * d
    PROVE  n \div d \in Nat /\ n \div d <= b
<1> DEFINE q == n \div d
<1>1. q \in Int /\ q * d <= n /\ n < (q + 1) * d
  OBVIOUS
<1> HIDE DEF q
<1>2. q >= 0
  <2>1. SUFFICES ASSUME q + 1 <= 0 PROVE FALSE
    BY <1>1
  <2>2. (q + 1) * d <= 0
    BY <1>1, <2>1
  <2> QED BY <1>1, <2>2
<1>3. q <= b
  <2>1. SUFFICES ASSUME q >= b + 1 PROVE FALSE
    BY <1>1
  <2>2. q * d >= (b + 1) * d
    BY <1>1, <2>1
  <2> QED BY <1>1, <2>2
<1> QED BY <1>1, <1>2, <1>3 DEF q

\* int() of a product that is below b + 1 is at most b, rounded down or not.
LEMMA ScaledBound ==
    ASSUME NEW side \in Nat, NEW num \in Nat, NEW den \in Nat \ {0}, NEW b \in Nat,
           side * num < (b + 1) * den, NEW n \in Scaled(side, num, den)
    PROVE  n \in Nat /\ n <= b
<1>1. side * num \in Nat
  OBVIOUS
<1>2. (side * num) \div den \in Nat /\ (side * num) \div den <= b
  BY <1>1, QuotientBound
<1> QED BY <1>2 DEF Scaled

\* The next multiple of 16 after a side of at most 1200.
LEMMA OnGridBound ==
    ASSUME NEW n \in Nat, n <= 1200
    PROVE  OnGrid(n) \in Nat /\ OnGrid(n) <= 1216 /\ (OnGrid(n) = 0 => n = 0)
BY DEF OnGrid

\* A quotient of 0 has a dividend below its divisor.
LEMMA ScaledZero ==
    ASSUME NEW side \in Nat, NEW num \in Nat, NEW den \in Nat \ {0},
           0 \in Scaled(side, num, den)
    PROVE  side * num <= den
<1> DEFINE n == side * num
           q == n \div den
<1>1. n \in Nat
  OBVIOUS
<1> HIDE DEF n
<1>2. q \in Int /\ q * den <= n /\ n < (q + 1) * den
  BY <1>1
<1>3. 0 = q \/ (q * den = n /\ 0 = q - 1)
  BY DEF Scaled, n
<1> HIDE DEF q
<1>4. CASE q = 0
  BY <1>1, <1>2, <1>4 DEF n
<1>5. CASE q * den = n /\ q = 1
  BY <1>1, <1>2, <1>5 DEF n
<1> QED BY <1>2, <1>3, <1>4, <1>5

\* resize_image keeps the bounds on the sides.
LEMMA SidesStep == SidesInv /\ [Next]_vars => SidesInv'
<1> SUFFICES ASSUME SidesInv, [Next]_vars PROVE SidesInv'
  OBVIOUS
<1>1. CASE Scale
  <2> DEFINE mx == Greatest(h, w)
             mn == Least(h, w)
  <2>1. /\ mx \in Nat \ {0} /\ mn \in Nat \ {0}
        /\ h <= mx /\ w <= mx /\ h >= mn /\ w >= mn
    BY DEF SidesInv, Greatest, Least
  <2>2. /\ new_h' \in Nat /\ new_h' <= 1200 /\ new_w' \in Nat /\ new_w' <= 1200
        /\ new_h' = 0 \/ new_w' = 0 => mx >= 1200 * mn
    <3>1. CASE /\ new_h' \in Scaled(h, 1200, mx)
               /\ new_w' \in Scaled(w, 1200, mx)
      <4>1. h * 1200 < (1200 + 1) * mx /\ w * 1200 < (1200 + 1) * mx
        BY <2>1 DEF SidesInv
      <4>2. new_h' \in Nat /\ new_h' <= 1200 /\ new_w' \in Nat /\ new_w' <= 1200
        BY <2>1, <3>1, <4>1, ScaledBound DEF SidesInv
      <4>3. ASSUME new_h' = 0 PROVE mx >= 1200 * mn
        <5>1. h * 1200 <= mx
          BY <2>1, <3>1, <4>3, ScaledZero DEF SidesInv
        <5> QED BY <2>1, <5>1 DEF SidesInv
      <4>4. ASSUME new_w' = 0 PROVE mx >= 1200 * mn
        <5>1. w * 1200 <= mx
          BY <2>1, <3>1, <4>4, ScaledZero DEF SidesInv
        <5> QED BY <2>1, <5>1 DEF SidesInv
      <4> QED BY <4>2, <4>3, <4>4
    <3>2. CASE /\ ~TooLong
               /\ new_h' \in Scaled(h, 600, mn)
               /\ new_w' \in Scaled(w, 600, mn)
      <4>1. 1200 * mx <= 2401 * mn
        BY <2>1, <3>2 DEF TooLong
      <4>2. h * 600 < (1200 + 1) * mn /\ w * 600 < (1200 + 1) * mn
        BY <2>1, <4>1 DEF SidesInv
      <4>3. new_h' \in Nat /\ new_h' <= 1200 /\ new_w' \in Nat /\ new_w' <= 1200
        BY <2>1, <3>2, <4>2, ScaledBound DEF SidesInv
      <4>4. new_h' # 0
        <5>1. SUFFICES ASSUME new_h' = 0 PROVE FALSE
          OBVIOUS
        <5>2. h * 600 <= mn
          BY <2>1, <3>2, <5>1, ScaledZero DEF SidesInv
        <5> QED BY <2>1, <5>2 DEF SidesInv
      <4>5. new_w' # 0
        <5>1. SUFFICES ASSUME new_w' = 0 PROVE FALSE
          OBVIOUS
        <5>2. w * 600 <= mn
          BY <2>1, <3>2, <5>1, ScaledZero DEF SidesInv
        <5> QED BY <2>1, <5>2 DEF SidesInv
      <4> QED BY <4>3, <4>4, <4>5
    <3> QED BY <1>1, <3>1, <3>2 DEF Scale
  <2>3. h' = h /\ w' = w /\ pc' = "scaled"
    BY <1>1 DEF Scale
  <2> QED BY <2>2, <2>3 DEF SidesInv, Resized, Greatest, Least
<1>2. CASE Align
  <2>1. new_h \in Nat /\ new_h <= 1200 /\ new_w \in Nat /\ new_w <= 1200
    BY <1>2 DEF Align, SidesInv
  <2>2. /\ new_h' \in Nat /\ new_h' <= 1216 /\ new_w' \in Nat /\ new_w' <= 1216
        /\ new_h' = 0 => new_h = 0
        /\ new_w' = 0 => new_w = 0
    <3>1. new_h' = OnGrid(new_h) /\ new_w' = OnGrid(new_w)
      BY <1>2 DEF Align
    <3> QED BY <2>1, <3>1, OnGridBound
  <2>3. /\ h' = h /\ w' = w
        /\ \/ pc' = "aligned" /\ new_h' > 0 /\ new_w' > 0
           \/ pc' = "raised" /\ (~(new_h' > 0) \/ ~(new_w' > 0))
        /\ new_h = 0 \/ new_w = 0 => Greatest(h, w) >= 1200 * Least(h, w)
    BY <1>2 DEF Align, SidesInv
  <2>4. Greatest(h, w)' = Greatest(h, w) /\ Least(h, w)' = Least(h, w)
    BY <2>3 DEF Greatest, Least
  <2>5. CASE pc' = "aligned" /\ new_h' > 0 /\ new_w' > 0
    BY <2>2, <2>3, <2>5 DEF SidesInv, Resized
  <2>6. CASE pc' = "raised" /\ (~(new_h' > 0) \/ ~(new_w' > 0))
    <3>1. new_h = 0 \/ new_w = 0
      BY <2>2, <2>6
    <3> QED BY <2>2, <2>3, <2>4, <2>6, <3>1 DEF SidesInv, Resized, Greatest, Least
  <2> QED BY <2>3, <2>5, <2>6
<1>3. CASE UNCHANGED resizing /\ pc \in Resized /\ pc' \in Resized
  BY <1>3 DEF SidesInv, resizing, Resized, Greatest, Least
<1>4. CASE UNCHANGED vars
  BY <1>4 DEF vars, resizing, SidesInv, Resized, Greatest, Least
<1>5. ASSUME NEW P \in Outputs, ProposalLayer(P)
      PROVE  UNCHANGED resizing /\ pc \in Resized /\ pc' \in Resized
  BY <1>5 DEF ProposalLayer, Resized, resizing
<1>6. CASE Nms
  BY <1>3, <1>6 DEF Nms, Resized, resizing
<1>7. CASE Detect
  BY <1>3, <1>7 DEF Detect, Resized, resizing
<1>8. CASE Connect
  BY <1>3, <1>8 DEF Connect, Resized, resizing
<1> QED BY <1>1, <1>2, <1>3, <1>4, <1>5, <1>6, <1>7, <1>8 DEF Next

-----------------------------------------------------------------------------
(* The boxes.                                                                *)

\* A prediction is inside of the image when it is clipped.
LEMMA ClippedInside ==
    ASSUME SidesInv, pc = "aligned", NEW P \in Outputs, NEW p \in P
    PROVE  clip_boxes(Decoded(p)) \in Inside
<1>1. /\ p.column \in Nat /\ p.anchor \in Nat /\ p.y1 \in Int /\ p.y2 \in Int
      /\ p.score \in 0..100 /\ p.y1 <= p.y2
  BY OutputsAssumption DEF Predictions
<1>2. new_w \in 1..1216 /\ new_h \in 1..1216
  BY DEF SidesInv, Resized
<1>3. clip_boxes(Decoded(p)) =
        [x1 |-> Clamp(16 * p.column, new_w), y1 |-> Clamp(p.y1, new_h),
         x2 |-> Clamp(16 * p.column + 16, new_w), y2 |-> Clamp(p.y2, new_h),
         anchor |-> p.anchor, score |-> p.score]
  BY DEF clip_boxes, Decoded
<1>4. /\ Clamp(16 * p.column, new_w) \in Nat /\ Clamp(16 * p.column, new_w) < new_w
      /\ Clamp(16 * p.column + 16, new_w) \in Nat
      /\ Clamp(p.y1, new_h) \in Nat /\ Clamp(p.y2, new_h) \in Nat
      /\ Clamp(p.y1, new_h) <= Clamp(p.y2, new_h)
  BY <1>1, <1>2 DEF Clamp, Greatest, Least
<1> QED BY <1>1, <1>3, <1>4 DEF Inside

\* An order of finitely many boxes is a sequence of them, by score.
LEMMA SortedOrder ==
    ASSUME NEW S, IsFiniteSet(S), NEW s \in Sorted(S)
    PROVE  /\ s \in Seq(S)
           /\ Len(s) = Cardinality(S)
           /\ \A b \in S : \E k \in 1..Len(s) : s[k] = b
           /\ \A j, k \in 1..Len(s) : j < k => s[j].score >= s[k].score
<1>1. Cardinality(S) \in Nat
  BY FS_CardinalityType
<1> QED BY <1>1 DEF Sorted

\* The images of finitely many predictions are finitely many.
LEMMA FiniteProposals ==
    ASSUME NEW P, IsFiniteSet(P)
    PROVE  IsFiniteSet({clip_boxes(Decoded(p)) : p \in P})
<1> DEFINE T == {clip_boxes(Decoded(p)) : p \in P}
           f == [p \in P |-> clip_boxes(Decoded(p))]
<1>1. f \in Surjection(P, T)
  BY DEF Surjection
<1> QED BY <1>1, FS_Surjection DEF ExistsSurjection

\* Each step keeps the boxes inside of the image and the order by score.
LEMMA BoxesStep == SidesInv /\ BoxesInv /\ NmsInv /\ [Next]_vars => BoxesInv'
<1> SUFFICES ASSUME SidesInv, BoxesInv, NmsInv, [Next]_vars PROVE BoxesInv'
  OBVIOUS
<1>1. ASSUME NEW P \in Outputs, ProposalLayer(P) PROVE BoxesInv'
  <2>1. Inside' = Inside
    BY <1>1 DEF ProposalLayer, resizing, Inside
  <2>2. proposals' \subseteq Inside
    <3>1. \A p \in P : clip_boxes(Decoded(p)) \in Inside
      BY <1>1, ClippedInside DEF ProposalLayer
    <3> QED BY <1>1, <3>1 DEF ProposalLayer, _filter_boxes
  <2>3. IsFiniteSet(proposals')
    <3>1. IsFiniteSet({clip_boxes(Decoded(p)) : p \in P})
      BY OutputsAssumption, FiniteProposals
    <3>2. proposals' \in SUBSET {clip_boxes(Decoded(p)) : p \in P}
      BY <1>1 DEF ProposalLayer, _filter_boxes
    <3> QED BY <3>1, <3>2, FS_Subset
  <2>4. PICK boxes \in Best(proposals', RPN_PRE_NMS_TOP_N) : order' \in Sorted(boxes)
    BY <1>1 DEF ProposalLayer, StartNms
  <2>5. boxes \in SUBSET proposals'
    BY <2>4 DEF Best
  <2>6. IsFiniteSet(boxes)
    BY <2>3, <2>5, FS_Subset
  <2>7. /\ order' \in Seq(boxes)
        /\ \A j, k \in 1..Len(order') : j < k => order'[j].score >= order'[k].score
    BY <2>4, <2>6, SortedOrder
  <2>8. order' \in Seq(Inside)
    BY <2>2, <2>5, <2>7
  <2>9. rois' = rois
    BY <1>1 DEF ProposalLayer
  <2>10. pc' = "nms_rpn"
    BY <1>1 DEF ProposalLayer
  <2>11. IsFiniteSet(rois') /\ rois' \subseteq Inside'
    BY <2>1, <2>9 DEF BoxesInv
  <2> QED BY <2>1, <2>2, <2>3, <2>7, <2>8, <2>10, <2>11 DEF BoxesInv
<1>2. CASE Detect
  <2>1. Inside' = Inside
    BY <1>2 DEF Detect, resizing, Inside
  <2>2. /\ TopKept \subseteq 1..Len(order) /\ Len(order) \in Nat
        /\ rois' \subseteq Inside
    <3>1. Len(order) \in Nat /\ 1..(i - 1) \subseteq 1..Len(order)
      BY DEF BoxesInv, NmsInv
    <3>2. TopKept \subseteq 1..Len(order)
      BY <3>1 DEF TopKept, NmsInv
    <3> QED BY <1>2, <3>1, <3>2 DEF Detect, BoxesInv
  <2>3. IsFiniteSet(rois')
    <3> DEFINE f == [k \in TopKept |-> order[k]]
    <3>1. IsFiniteSet(1..Len(order))
      BY <2>2, FS_Interval
    <3>2. IsFiniteSet(TopKept)
      BY <2>2, <3>1, FS_Subset
    <3>3. f \in Surjection(TopKept, rois')
      BY <1>2 DEF Detect, Surjection
    <3> QED BY <3>2, <3>3, FS_Surjection DEF ExistsSurjection
  <2> DEFINE S == {b \in rois' : b.score > TEXT_PROPOSALS_MIN_SCORE}
  <2>4. IsFiniteSet(S)
    BY <2>3, FS_Subset
  <2>5. order' \in Sorted(S)
    BY <1>2 DEF Detect, StartNms
  <2> HIDE DEF S
  <2>6. /\ order' \in Seq(S)
        /\ \A j, k \in 1..Len(order') : j < k => order'[j].score >= order'[k].score
    BY <2>4, <2>5, SortedOrder
  <2>7. order' \in Seq(Inside)
    BY <2>2, <2>6 DEF S
  <2>8. proposals' = proposals
    BY <1>2 DEF Detect
  <2>9. pc' = "nms_text"
    BY <1>2 DEF Detect
  <2>10. IsFiniteSet(proposals') /\ proposals' \subseteq Inside'
    BY <2>1, <2>8 DEF BoxesInv
  <2> QED BY <2>1, <2>2, <2>3, <2>6, <2>7, <2>9, <2>10 DEF BoxesInv
<1>3. CASE /\ UNCHANGED <<new_w, proposals, rois, order>>
           /\ pc' \in {"raw", "scaled", "aligned"} => pc' = pc
  BY <1>3 DEF BoxesInv, Inside
<1>4. CASE Scale \/ Align
  BY <1>4, FS_EmptySet DEF Scale, Align, BoxesInv, nms
<1>5. CASE Nms \/ Connect \/ UNCHANGED vars
  <2>1. UNCHANGED <<new_w, proposals, rois, order>>
    BY <1>5 DEF Nms, Connect, vars, resizing, nms
  <2>2. pc' \in {"raw", "scaled", "aligned"} => pc' = pc
    BY <1>5 DEF Nms, Connect, vars
  <2> QED BY <2>1, <2>2, <1>3
<1> QED BY <1>1, <1>2, <1>4, <1>5 DEF Next

-----------------------------------------------------------------------------
(* nms.                                                                      *)

\* A start of nms establishes its invariant.
LEMMA NmsStart ==
    ASSUME order' \in Seq(Inside'), i' = 1, keep' = {}, suppressed' = {}
    PROVE  NmsInv'
<1>1. Len(order') \in Nat
  OBVIOUS
<1>2. 1..(i' - 1) = {} /\ i' \in 1..(Len(order') + 1)
  BY <1>1
<1> QED BY <1>1, <1>2 DEF NmsInv

\* A round of the loop that keeps box i.
LEMMA NmsKeeps ==
    ASSUME BoxesInv, NmsInv, Nms, i \notin suppressed
    PROVE  NmsInv'
<1> DEFINE n == Len(order)
           new == {j \in (i + 1)..n : Overlap(pc, order[i], order[j])}
<1>1. /\ n \in Nat /\ i \in 1..n
      /\ i' = i + 1 /\ keep' = keep \cup {i} /\ suppressed' = suppressed \cup new
      /\ UNCHANGED <<pc, order>>
  BY DEF Nms, BoxesInv, NmsInv, Rivals
<1>2. 1..(i' - 1) = 1..(i - 1) \cup {i} /\ pc \in {"nms_rpn", "nms_text"}
  BY <1>1 DEF Nms
<1>3. /\ i' \in 1..(n + 1)
      /\ keep' \subseteq 1..(i' - 1)
      /\ suppressed' \subseteq 1..n
      /\ 1..(i' - 1) \subseteq keep' \cup suppressed'
      /\ keep' \cap suppressed' = {}
  <2>1. i' \in 1..(n + 1)
    BY <1>1
  <2>2. new \subseteq 1..n
    BY <1>1
  <2>3. new \cap (keep \cup {i}) = {}
    BY <1>1 DEF NmsInv
  <2> HIDE DEF new
  <2> QED BY <1>1, <1>2, <2>1, <2>2, <2>3 DEF NmsInv
<1>4. ASSUME NEW k \in keep', NEW j \in 1..n, k < j, j \notin suppressed'
      PROVE  ~Overlap(pc, order[k], order[j])
  <2>1. CASE k = i
    BY <1>1, <1>4, <2>1
  <2>2. CASE k # i
    BY <1>1, <1>4, <2>2 DEF NmsInv, Nms
  <2> QED BY <2>1, <2>2
<1>5. ASSUME NEW j \in suppressed'
      PROVE  \E k \in keep' : k < j /\ Overlap(pc, order[k], order[j])
  <2>1. CASE j \in suppressed
    BY <1>1, <2>1 DEF NmsInv, Nms
  <2>2. CASE j \in new
    BY <1>1, <2>2
  <2> QED BY <1>1, <1>5, <2>1, <2>2
<1>6. \A k \in keep' : \A j \in 1..Len(order') :
        k < j /\ j \notin suppressed' => ~Overlap(pc', order'[k], order'[j])
  BY <1>1, <1>4
<1>7. \A j \in suppressed' : \E k \in keep' : k < j /\ Overlap(pc', order'[k], order'[j])
  BY <1>1, <1>5
<1> QED BY <1>1, <1>3, <1>6, <1>7 DEF NmsInv

\* Each step preserves the invariant of nms.
LEMMA NmsStep == BoxesInv /\ BoxesInv' /\ NmsInv /\ [Next]_vars => NmsInv'
<1> SUFFICES ASSUME BoxesInv, BoxesInv', NmsInv, [Next]_vars PROVE NmsInv'
  OBVIOUS
<1>1. ASSUME NEW P \in Outputs, ProposalLayer(P) PROVE NmsInv'
  <2>1. i' = 1 /\ keep' = {} /\ suppressed' = {}
    BY <1>1 DEF ProposalLayer, StartNms
  <2> QED BY <2>1, NmsStart DEF BoxesInv
<1>2. CASE Detect
  <2>1. i' = 1 /\ keep' = {} /\ suppressed' = {}
    BY <1>2 DEF Detect, StartNms
  <2> QED BY <2>1, NmsStart DEF BoxesInv
<1>3. CASE Nms
  <2>1. CASE i \in suppressed
    <3>1. /\ Len(order) \in Nat /\ i \in 1..Len(order)
          /\ i' = i + 1 /\ UNCHANGED <<pc, order, keep, suppressed>>
      BY <1>3, <2>1 DEF Nms, BoxesInv, NmsInv
    <3> QED BY <2>1, <3>1 DEF NmsInv
  <2> QED BY <1>3, <2>1, NmsKeeps
<1>4. CASE Scale \/ Align \/ Connect
  BY <1>4 DEF Scale, Align, Connect, nms, NmsInv
<1>5. CASE UNCHANGED vars
  <2>1. UNCHANGED <<pc, order, i, keep, suppressed>>
    BY <1>5 DEF vars, nms
  <2> QED BY <2>1 DEF NmsInv
<1> QED BY <1>1, <1>2, <1>3, <1>4, <1>5 DEF Next

\* The invariant holds from the first state on.
LEMMA Inductive == Spec => []IInv
<1>1. Init => IInv
  <2> SUFFICES ASSUME Init PROVE IInv
    OBVIOUS
  <2>1. SidesInv
    BY SidesAssumption DEF Init, SidesInv, Resized
  <2>2. BoxesInv
    BY FS_EmptySet DEF Init, BoxesInv
  <2>3. NmsInv
    BY DEF Init, NmsInv
  <2> QED BY <2>1, <2>2, <2>3 DEF IInv
<1>2. IInv /\ [Next]_vars => IInv'
  BY SidesStep, BoxesStep, NmsStep DEF IInv
<1> QED BY <1>1, <1>2, PTL DEF Spec

-----------------------------------------------------------------------------

\* Both suppressions keep exactly what nms promises, for every set of boxes.
THEOREM SuppressionIsExact == Spec => []NmsExact
<1>1. IInv => NmsExact
  <2> SUFFICES ASSUME IInv, NmsOver, pc \in {"nms_rpn", "nms_text"} PROVE
        /\ \A j, k \in keep : j < k => ~Overlap(pc, order[j], order[k])
        /\ \A j \in DOMAIN order \ keep : \E k \in keep :
              Overlap(pc, order[k], order[j]) /\ order[k].score >= order[j].score
    BY DEF NmsExact
  <2>1. /\ Len(order) \in Nat /\ i = Len(order) + 1 /\ DOMAIN order = 1..Len(order)
        /\ keep \subseteq 1..Len(order) /\ suppressed \subseteq 1..Len(order)
        /\ 1..Len(order) \subseteq keep \cup suppressed
    BY DEF IInv, BoxesInv, NmsInv, NmsOver
  <2>2. \A j, k \in keep : j < k => ~Overlap(pc, order[j], order[k])
    BY <2>1 DEF IInv, NmsInv
  <2>3. ASSUME NEW j \in DOMAIN order \ keep
        PROVE  \E k \in keep : Overlap(pc, order[k], order[j]) /\ order[k].score >= order[j].score
    <3>1. PICK k \in keep : k < j /\ Overlap(pc, order[k], order[j])
      BY <2>1, <2>3 DEF IInv, NmsInv
    <3> QED BY <2>1, <3>1 DEF IInv, BoxesInv
  <2> QED BY <2>2, <2>3
<1> QED BY <1>1, Inductive, PTL

\* For every image and every output of the network, build_graph is called with
\* columns of its table; only slivers are refused.
THEOREM HandOverFits == Spec => []HandOver
<1>1. IInv => HandOver
  <2> SUFFICES ASSUME IInv PROVE HandOver
    OBVIOUS
  <2>1. ASSUME pc = "connect" PROVE new_w <= TABLE_SIZE
    BY <2>1, TableAssumption DEF IInv, SidesInv, Resized
  <2>2. ASSUME pc = "connect", NEW b \in Kept
        PROVE  b.x1 \in 0..(new_w - 1) /\ b.y1 <= b.y2
    <3>1. b \in Inside
      BY DEF Kept, IInv, BoxesInv, NmsInv
    <3> QED BY <2>2, <3>1 DEF Inside, IInv, SidesInv
  <2> QED BY <2>1, <2>2 DEF HandOver, IInv, SidesInv
<1> QED BY <1>1, Inductive, PTL
-----------------------------------------------------------------------------
(* The columns.                                                              *)

\* A box of column c: of the 17 pixels of its anchor at least 8 are left.
OfColumn(c) ==
    {b \in Inside : b.x1 = 16 * c /\ b.x2 <= 16 * c + 16 /\ Width(b) >= RPN_MIN_SIZE}

Gridded == UNION {OfColumn(c) : c \in Nat}

\* No box of S above the score of detect() is without one in T that is in its
\* column and no worse.
Represented(S, T) ==
    \A b \in S : b.score > TEXT_PROPOSALS_MIN_SCORE =>
        \E c \in T : c.x1 = b.x1 /\ c.score >= b.score

NothingCut == Cardinality(proposals) <= RPN_PRE_NMS_TOP_N
RoisNotCut == Cardinality(rois) < RPN_POST_NMS_TOP_N

\* Boxes stay in their columns, nms is given each of them once, and what the
\* first suppression leaves, and then the second, represents the proposals.
ColumnsInv ==
    /\ proposals \subseteq Gridded
    /\ order \in Seq(Gridded)
    /\ \A j, k \in 1..Len(order) : order[j] = order[k] => j = k
    /\ pc = "nms_rpn" /\ NothingCut =>
          \A b \in proposals : \E k \in 1..Len(order) : order[k] = b
    /\ pc \in {"nms_text", "connect"} /\ NothingCut /\ RoisNotCut => Represented(proposals, rois)
    /\ pc = "nms_text" => \A b \in rois : b.score > TEXT_PROPOSALS_MIN_SCORE =>
          \E k \in 1..Len(order) : order[k] = b
    /\ pc = "connect" => Represented(rois, Kept)

\* Every set of numbers that is not empty has a least element.
LEMMA LeastNumber ==
    ASSUME NEW S \in SUBSET Nat, S # {}
    PROVE  \E n \in S : \A k \in S : n <= k
<1>1. IsWellFoundedOn(OpToRel(<, Nat), Nat)
  BY NatLessThanWellFounded
<1>2. PICK n \in S : \A k \in S : ~(<<k, n>> \in OpToRel(<, Nat))
  BY <1>1, WFMin
<1>3. \A k \in S : ~(k < n)
  BY <1>2 DEF OpToRel
<1> QED BY <1>3

\* Boxes of different columns share one column of pixels at most, which is less
\* than both thresholds ask for.
LEMMA SameColumn ==
    ASSUME NEW phase, NEW a \in Gridded, NEW b \in Gridded, Overlap(phase, a, b)
    PROVE  a.x1 = b.x1
<1> SUFFICES ASSUME a.x1 # b.x1 PROVE FALSE
  OBVIOUS
<1>1. PICK c \in Nat, d \in Nat : a \in OfColumn(c) /\ b \in OfColumn(d)
  BY DEF Gridded
<1>2. /\ a.x1 = 16 * c /\ a.x2 \in Nat /\ a.x2 <= 16 * c + 16 /\ a.x2 - a.x1 + 1 >= 8
      /\ b.x1 = 16 * d /\ b.x2 \in Nat /\ b.x2 <= 16 * d + 16 /\ b.x2 - b.x1 + 1 >= 8
      /\ a.y1 \in Nat /\ a.y2 \in Nat /\ a.y1 <= a.y2
      /\ b.y1 \in Nat /\ b.y2 \in Nat /\ b.y1 <= b.y2
  BY <1>1 DEF OfColumn, Inside, Width, RPN_MIN_SIZE
<1> DEFINE iw == Greatest(0, Least(a.x2, b.x2) - Greatest(a.x1, b.x1) + 1)
           ih == Greatest(0, Least(a.y2, b.y2) - Greatest(a.y1, b.y1) + 1)
           wa == a.x2 - a.x1 + 1
           wb == b.x2 - b.x1 + 1
           ha == a.y2 - a.y1 + 1
           hb == b.y2 - b.y1 + 1
<1>3. iw \in 0..1
  BY <1>2 DEF Least, Greatest
<1>4. ih \in Nat /\ ih <= ha /\ ih <= hb
  BY <1>2 DEF Least, Greatest
<1>5. /\ wa \in Nat /\ wa >= 8 /\ wb \in Nat /\ wb >= 8
      /\ ha \in Nat /\ ha >= 1 /\ hb \in Nat /\ hb >= 1
  BY <1>2
<1>6. Inter(a, b) = iw * ih /\ Area(a) = wa * ha /\ Area(b) = wb * hb
  BY DEF Inter, Area, Width, Height
<1> HIDE DEF iw, ih, wa, wb, ha, hb
<1>7. iw * ih \in Nat /\ iw * ih <= ih
  <2>1. CASE iw = 0
    BY <1>4, <2>1
  <2>2. CASE iw = 1
    BY <1>4, <2>2
  <2> QED BY <1>3, <2>1, <2>2
<1>8. /\ wa * ha \in Nat /\ wa * ha >= 8 * ha
      /\ wb * hb \in Nat /\ wb * hb >= 8 * hb
  BY <1>5
<1> DEFINE I == iw * ih
           A == wa * ha
           B == wb * hb
<1>9. I \in Nat /\ A \in Nat /\ B \in Nat /\ A >= 8 /\ A >= 8 * I /\ B >= 8 * I
  BY <1>4, <1>5, <1>7, <1>8
<1>10. ~(10 * I > 7 * (A + B - I)) /\ ~(5 * I >= A + B - I)
  <2> HIDE DEF I, A, B
  <2> QED BY <1>9
<1> QED BY <1>6, <1>10 DEF Overlap

\* Scores are numbers.
LEMMA InsideScore == \A b \in Inside : b.score \in Nat
BY DEF Inside

\* When a suppression is over, each box is represented by one that is kept.
LEMMA KeptRepresent ==
    ASSUME IInv, NmsOver, pc \in {"nms_rpn", "nms_text"}, order \in Seq(Gridded),
           NEW j \in 1..Len(order)
    PROVE  \E k \in keep : order[k].x1 = order[j].x1 /\ order[k].score >= order[j].score
<1>1. /\ Len(order) \in Nat /\ i = Len(order) + 1
      /\ keep \subseteq 1..Len(order)
      /\ 1..Len(order) \subseteq keep \cup suppressed
  BY DEF IInv, BoxesInv, NmsInv, NmsOver
<1>2. \A k \in 1..Len(order) : order[k].score \in Nat
  BY InsideScore DEF IInv, BoxesInv
<1>3. CASE j \in keep
  BY <1>2, <1>3
<1>4. CASE j \in suppressed
  <2>1. PICK k \in keep : k < j /\ Overlap(pc, order[k], order[j])
    BY <1>4 DEF IInv, NmsInv
  <2>2. order[k] \in Gridded /\ order[j] \in Gridded
    BY <1>1
  <2>3. order[k].x1 = order[j].x1
    BY <2>1, <2>2, SameColumn
  <2>4. order[k].score >= order[j].score
    BY <1>1, <2>1 DEF IInv, BoxesInv
  <2> QED BY <2>3, <2>4
<1> QED BY <1>1, <1>3, <1>4

\* An order of boxes has each of them once.
LEMMA SortedInjective ==
    ASSUME NEW S, IsFiniteSet(S), NEW s \in Sorted(S)
    PROVE  \A j, k \in 1..Len(s) : s[j] = s[k] => j = k
<1>1. Cardinality(S) \in Nat
  BY FS_CardinalityType
<1>2. /\ s \in [1..Cardinality(S) -> S] /\ Len(s) = Cardinality(S)
      /\ \A b \in S : \E k \in 1..Len(s) : s[k] = b
  BY <1>1, SortedOrder DEF Sorted
<1>3. s \in Surjection(1..Cardinality(S), S)
  BY <1>2 DEF Surjection
<1>4. IsFiniteSet(1..Cardinality(S)) /\ Cardinality(1..Cardinality(S)) = Cardinality(S)
  BY <1>1, FS_Interval
<1>5. s \in Injection(1..Cardinality(S), S)
  BY <1>3, <1>4, FS_Surjection
<1> QED BY <1>2, <1>5 DEF Injection, IsInjective

\* When fewer boxes than the limit are returned, all that were kept are.
LEMMA NothingBehindTop ==
    ASSUME BoxesInv, NmsInv, NmsOver, \A j, k \in 1..Len(order) : order[j] = order[k] => j = k,
           Cardinality({order[k] : k \in TopKept}) < RPN_POST_NMS_TOP_N
    PROVE  TopKept = keep
<1> DEFINE R == {order[k] : k \in TopKept}
           cut == keep \ TopKept
<1>1. Len(order) \in Nat /\ keep \subseteq 1..Len(order) /\ TopKept \subseteq keep
  BY DEF BoxesInv, NmsInv, NmsOver, TopKept
<1>2. IsFiniteSet(TopKept)
  <2>1. IsFiniteSet(1..Len(order))
    BY <1>1, FS_Interval
  <2> QED BY <1>1, <2>1, FS_Subset
<1>3. Cardinality(R) = Cardinality(TopKept)
  <2> DEFINE f == [k \in TopKept |-> order[k]]
  <2>1. f \in Bijection(TopKept, R)
    BY <1>1 DEF Bijection, Injection, IsInjective, Surjection
  <2> QED BY <1>2, <2>1, FS_Bijection DEF ExistsBijection
<1>4. ASSUME cut # {} PROVE FALSE
  <2>1. cut \in SUBSET Nat
    BY <1>1
  <2>2. PICK k \in cut : \A n \in cut : k <= n
    BY <1>4, <2>1, LeastNumber
  <2>3. {j \in keep : j < k} \in SUBSET TopKept
    <3>1. \A j \in keep : j \in Nat /\ (j \in cut => k <= j)
      BY <1>1, <2>2
    <3>2. k \in Nat
      BY <2>1, <2>2
    <3>3. \A j \in keep : j < k => j \notin cut
      BY <3>1, <3>2
    <3> QED BY <3>3
  <2>4. Cardinality({j \in keep : j < k}) <= Cardinality(TopKept)
    BY <1>2, <2>3, FS_Subset
  <2>5. ~(Cardinality({j \in keep : j < k}) < RPN_POST_NMS_TOP_N)
    BY <2>2 DEF TopKept
  <2>6. IsFiniteSet({j \in keep : j < k})
    BY <1>2, <2>3, FS_Subset
  <2>7. Cardinality({j \in keep : j < k}) \in Nat /\ Cardinality(TopKept) \in Nat
    BY <1>2, <2>6, FS_CardinalityType
  <2> QED BY <1>3, <2>4, <2>5, <2>7, TopAssumption
<1> QED BY <1>1, <1>4

\* proposal_layer makes boxes of columns, and nms starts with all of them unless
\* there are too many.
LEMMA ProposalColumns ==
    ASSUME IInv, ColumnsInv, NEW P \in Outputs, ProposalLayer(P)
    PROVE  ColumnsInv'
<1>1. Inside' = Inside /\ Gridded' = Gridded
  BY DEF ProposalLayer, resizing, Inside, Gridded, OfColumn
<1>2. new_w \in 1..1216 /\ pc = "aligned" /\ pc' = "nms_rpn"
  BY DEF IInv, SidesInv, Resized, ProposalLayer
<1>3. ASSUME NEW p \in P, Width(clip_boxes(Decoded(p))) >= RPN_MIN_SIZE
      PROVE  clip_boxes(Decoded(p)) \in Gridded
  <2> DEFINE b == clip_boxes(Decoded(p))
  <2>1. p.column \in Nat /\ 16 * p.column < new_w
    BY OutputsAssumption DEF Predictions, ProposalLayer
  <2>2. b.x1 = Clamp(16 * p.column, new_w) /\ b.x2 = Clamp(16 * p.column + 16, new_w)
    BY DEF clip_boxes, Decoded
  <2>3. b.x1 = 16 * p.column /\ b.x2 <= 16 * p.column + 16
    BY <1>2, <2>1, <2>2 DEF Clamp, Least, Greatest
  <2>4. b \in Inside
    BY <1>2, ClippedInside DEF IInv
  <2> QED BY <1>3, <2>1, <2>3, <2>4 DEF Gridded, OfColumn
<1>4. proposals' \subseteq Gridded
  BY <1>3 DEF ProposalLayer, _filter_boxes
<1>5. IsFiniteSet(proposals')
  BY BoxesStep DEF IInv, Next, BoxesInv
<1>6. PICK boxes \in Best(proposals', RPN_PRE_NMS_TOP_N) : order' \in Sorted(boxes)
  BY DEF ProposalLayer, StartNms
<1>7. boxes \in SUBSET proposals'
  BY <1>6 DEF Best
<1>8. IsFiniteSet(boxes)
  BY <1>5, <1>7, FS_Subset
<1>9. /\ order' \in Seq(boxes)
      /\ \A b \in boxes : \E k \in 1..Len(order') : order'[k] = b
      /\ \A j, k \in 1..Len(order') : order'[j] = order'[k] => j = k
  BY <1>6, <1>8, SortedOrder, SortedInjective
<1>10. order' \in Seq(Gridded)
  BY <1>4, <1>7, <1>9
<1>11. NothingCut' => boxes = proposals'
  <2>1. Cardinality(proposals') \in Nat
    BY <1>5, FS_CardinalityType
  <2>2. NothingCut' => Cardinality(boxes) = Cardinality(proposals')
    BY <1>6, <2>1, TopAssumption DEF Best, NothingCut, Least
  <2> QED BY <1>5, <1>7, <2>2, FS_Subset
<1> QED BY <1>1, <1>2, <1>4, <1>9, <1>10, <1>11 DEF ColumnsInv

\* proposal_layer returns boxes that represent what it started with.
LEMMA DetectColumns ==
    ASSUME IInv, ColumnsInv, Detect
    PROVE  ColumnsInv'
<1>1. Inside' = Inside /\ Gridded' = Gridded
  BY DEF Detect, resizing, Inside, Gridded, OfColumn
<1>2. /\ pc = "nms_rpn" /\ NmsOver /\ pc' = "nms_text" /\ proposals' = proposals
      /\ rois' = {order[k] : k \in TopKept}
  BY DEF Detect
<1> DEFINE S == {b \in rois' : b.score > TEXT_PROPOSALS_MIN_SCORE}
<1>3. IsFiniteSet(S)
  <2>1. IsFiniteSet(rois')
    BY BoxesStep DEF IInv, Next, BoxesInv
  <2> QED BY <2>1, FS_Subset
<1>4. order' \in Sorted(S)
  BY DEF Detect, StartNms
<1>5. /\ order' \in Seq(S)
      /\ \A b \in S : \E k \in 1..Len(order') : order'[k] = b
      /\ \A j, k \in 1..Len(order') : order'[j] = order'[k] => j = k
  <2> HIDE DEF S
  <2> QED BY <1>3, <1>4, SortedOrder, SortedInjective
<1>6. keep \subseteq 1..Len(order) /\ TopKept \subseteq keep
  BY <1>2 DEF IInv, BoxesInv, NmsInv, NmsOver, TopKept
<1>7. S \subseteq Gridded
  BY <1>2, <1>6 DEF ColumnsInv
<1>8. order' \in Seq(Gridded)
  BY <1>5, <1>7
<1>9. ASSUME NothingCut, RoisNotCut' PROVE Represented(proposals, rois')
  <2>1. TopKept = keep
    BY <1>2, <1>9, NothingBehindTop DEF IInv, ColumnsInv, RoisNotCut
  <2>2. ASSUME NEW b \in proposals
        PROVE  \E c \in rois' : c.x1 = b.x1 /\ c.score >= b.score
    <3>1. PICK j \in 1..Len(order) : order[j] = b
      BY <1>2, <1>9 DEF ColumnsInv
    <3>2. PICK k \in keep : order[k].x1 = order[j].x1 /\ order[k].score >= order[j].score
      BY <1>2, KeptRepresent DEF ColumnsInv
    <3> QED BY <1>2, <2>1, <3>1, <3>2
  <2> QED BY <2>2 DEF Represented
<1>10. NothingCut' = NothingCut
  BY <1>2 DEF NothingCut
<1>11. ASSUME NEW b \in rois', b.score > TEXT_PROPOSALS_MIN_SCORE
       PROVE  \E k \in 1..Len(order') : order'[k] = b
  BY <1>5, <1>11
<1>12. proposals' \subseteq Gridded' /\ order' \in Seq(Gridded')
  BY <1>1, <1>2, <1>8 DEF ColumnsInv
<1>13. pc' \in {"nms_text", "connect"} /\ NothingCut' /\ RoisNotCut' =>
          Represented(proposals', rois')
  BY <1>2, <1>9, <1>10
<1> HIDE DEF S
<1> QED BY <1>2, <1>5, <1>11, <1>12, <1>13 DEF ColumnsInv, Represented

\* Each step preserves the invariant of the columns.
LEMMA ColumnsStep == IInv /\ ColumnsInv /\ [Next]_vars => ColumnsInv'
<1> SUFFICES ASSUME IInv, ColumnsInv, [Next]_vars PROVE ColumnsInv'
  OBVIOUS
<1>1. ASSUME UNCHANGED <<new_w, proposals, rois>>
      PROVE  /\ Gridded' = Gridded /\ NothingCut' = NothingCut
             /\ RoisNotCut' = RoisNotCut
  BY <1>1 DEF Inside, Gridded, OfColumn, NothingCut, RoisNotCut
<1>2. CASE Scale \/ Align
  <2>1. /\ proposals = {} /\ order = <<>> /\ UNCHANGED <<proposals, order>>
        /\ pc' \notin {"nms_rpn", "nms_text", "connect"}
    BY <1>2 DEF Scale, Align, nms, IInv, BoxesInv
  <2> QED BY <2>1 DEF ColumnsInv
<1>3. CASE Nms
  <2>1. /\ UNCHANGED <<pc, new_w, proposals, rois, order>>
        /\ pc \in {"nms_rpn", "nms_text"}
    BY <1>3 DEF Nms, resizing
  <2> QED BY <1>1, <2>1 DEF ColumnsInv, Represented
<1>4. CASE Connect
  <2>1. /\ UNCHANGED <<new_w, proposals, rois, order, keep>>
        /\ pc = "nms_text" /\ pc' = "connect" /\ NmsOver
    BY <1>4 DEF Connect, resizing, nms
  <2>2. Represented(rois, Kept)
    <3> SUFFICES ASSUME NEW b \in rois, b.score > TEXT_PROPOSALS_MIN_SCORE
                 PROVE  \E c \in Kept : c.x1 = b.x1 /\ c.score >= b.score
      BY DEF Represented
    <3>1. PICK j \in 1..Len(order) : order[j] = b
      BY <2>1 DEF ColumnsInv
    <3>2. PICK k \in keep : order[k].x1 = order[j].x1 /\ order[k].score >= order[j].score
      BY <2>1, KeptRepresent DEF ColumnsInv
    <3> QED BY <3>1, <3>2 DEF Kept
  <2>3. Represented(rois, Kept)'
    BY <2>1, <2>2 DEF Represented, Kept
  <2>4. Represented(proposals, rois)' = Represented(proposals, rois)
    BY <2>1 DEF Represented
  <2> QED BY <1>1, <2>1, <2>3, <2>4 DEF ColumnsInv
<1>5. CASE UNCHANGED vars
  <2>1. UNCHANGED <<pc, new_w, proposals, rois, order, keep>>
    BY <1>5 DEF vars, resizing, nms
  <2> QED BY <1>1, <2>1 DEF ColumnsInv, Represented, Kept
<1> QED BY <1>2, <1>3, <1>4, <1>5, ProposalColumns, DetectColumns DEF Next

\* Boxes are in their columns and represented in every reachable state.
THEOREM ColumnsInvariant == Spec => []ColumnsInv
<1>1. Init => ColumnsInv
  BY DEF Init, ColumnsInv
<1>2. Spec => []IInv
  BY Inductive
<1> QED BY <1>1, <1>2, ColumnsStep, PTL DEF Spec

\* For every output of the network: unless the proposals are cut at a limit, a
\* column with text in it reaches the connector with a box of its best score.
THEOREM NoColumnLost == Spec => []ColumnsSurvive
<1>1. IInv /\ ColumnsInv => ColumnsSurvive
  <2> SUFFICES ASSUME IInv, ColumnsInv, pc = "connect", NothingCut, RoisNotCut,
                      NEW b \in proposals, b.score > TEXT_PROPOSALS_MIN_SCORE
               PROVE  \E c \in Kept : c.x1 = b.x1 /\ c.score >= b.score
    BY DEF ColumnsSurvive, NothingCut, RoisNotCut
  <2>1. PICK r \in rois : r.x1 = b.x1 /\ r.score >= b.score
    BY DEF ColumnsInv, Represented
  <2>2. b.score \in Nat /\ r.score \in Nat
    BY InsideScore DEF IInv, BoxesInv
  <2>3. r.score > TEXT_PROPOSALS_MIN_SCORE
    BY <2>1, <2>2 DEF TEXT_PROPOSALS_MIN_SCORE
  <2>4. PICK c \in Kept : c.x1 = r.x1 /\ c.score >= r.score
    BY <2>3 DEF ColumnsInv, Represented
  <2>5. c.score \in Nat
    <3>1. c \in Inside
      BY DEF Kept, IInv, BoxesInv, NmsInv
    <3> QED BY <3>1, InsideScore
  <2> QED BY <2>1, <2>2, <2>4, <2>5
<1> QED BY <1>1, Inductive, ColumnsInvariant, PTL
=============================================================================
