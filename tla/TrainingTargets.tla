-------------------------- MODULE TrainingTargets --------------------------
(***************************************************************************)
(* What the network is trained towards: split_label.py and shrink_poly      *)
(* (prepare/utils.py) cut the labelled polygons into boxes one column of    *)
(* the 16 pixel grid wide, generator() skips an image without any, and      *)
(* anchor_target_layer (rpn_msr/anchor_target_layer.py) labels the anchors  *)
(* by their overlap (bbox/bbox.pyx) with the boxes and samples a batch.     *)
(*                                                                         *)
(* A polygon has vertical sides at x0 and x1 and its corners in the order   *)
(* of orderConvex: lt, rt, rb and lb are their ordinates.  It is given in   *)
(* the coordinates of the resized image.                                    *)
(***************************************************************************)
EXTENDS Integers, FiniteSets

CONSTANTS
    Images,                 \* records of a size, w and h, and a set polys
    RPN_BATCHSIZE,
    RPN_CLOBBER_POSITIVES

ASSUME BatchAssumption ==
    RPN_BATCHSIZE \in Nat \ {0} /\ RPN_CLOBBER_POSITIVES \in BOOLEAN

\* Both sides of an image are on the grid, and no corner is outside of it.
ASSUME ImagesAssumption ==
    /\ Images \subseteq
          [w : Nat \ {0}, h : Nat \ {0},
           polys : SUBSET [x0 : Nat, x1 : Nat, lt : Nat, rt : Nat, rb : Nat, lb : Nat]]
    /\ \A im \in Images :
          /\ im.w % 16 = 0 /\ im.h % 16 = 0
          /\ \A p \in im.polys :
                /\ p.x0 < p.x1 /\ p.x1 <= im.w
                /\ p.lt < p.lb /\ p.lb < im.h
                /\ p.rt < p.rb /\ p.rb < im.h

VARIABLES
    pc,         \* "split", "load", "label", "fg", "bg", "done" or "skipped"
    image,
    gt_boxes,   \* the boxes of the label file
    labels      \* anchor -> 1 positive, 0 negative, -1 don't care

vars == <<pc, image, gt_boxes, labels>>

Least(a, b)    == IF a <= b THEN a ELSE b
Greatest(a, b) == IF a >= b THEN a ELSE b

\* Towards zero, as int() and the assignment to an array of int32 do.
Truncated(n, d) == IF n >= 0 THEN n \div d ELSE -((-n) \div d)

-----------------------------------------------------------------------------
(* split_label.py.                                                           *)

\* The line from (x0, y0) to (x1, y1), at x.
LineAt(x0, y0, x1, y1, x) == Truncated(y0 * (x1 - x0) + (y1 - y0) * (x - x0), x1 - x0)

TopAt(p, x)    == LineAt(p.x0, p.lt, p.x1, p.rt, x)
BottomAt(p, x) == LineAt(p.x0, p.lb, p.x1, p.rb, x)

\* The box of the piece of p that begins at x and ends at end.
Piece(p, x, end) ==
    [x1 |-> x, x2 |-> end,
     y1 |-> Least(TopAt(p, x), TopAt(p, x + 15)),
     y2 |-> Greatest(BottomAt(p, x), BottomAt(p, x + 15))]

\* Mutant: a piece begins after the end as well.
shrink_poly_OneMore(p) ==
    LET start == (p.x0 \div 16 + 1) * 16
        end   == (p.x1 \div 16 + 1) * 16
    IN  {Piece(p, p.x0, start - 1)}
           \cup {Piece(p, x, x + 15) : x \in {c \in start..end : c % 16 = 0}}

shrink_poly(p) ==
    LET start == (p.x0 \div 16 + 1) * 16
        end   == (p.x1 \div 16) * 16
    IN  {Piece(p, p.x0, start - 1)}
           \cup {Piece(p, x, x + 15) : x \in {c \in start..end : c % 16 = 0}}

\* Not less than 10 pixels from corner to corner.
LargeEnough(p) ==
    (p.x1 - p.x0) * (p.x1 - p.x0) + (p.rt - p.lt) * (p.rt - p.lt) >= 100 /\ p.lb - p.lt >= 10

SplitLabel ==
    /\ pc = "split"
    /\ gt_boxes' = UNION {shrink_poly(p) : p \in {q \in image.polys : LargeEnough(q)}}
    /\ pc' = "load"
    /\ UNCHANGED <<image, labels>>

-----------------------------------------------------------------------------
(* generator.                                                                *)

Load ==
    /\ pc = "load"
    /\ pc' = IF gt_boxes = {} THEN "skipped" ELSE "label"
    /\ UNCHANGED <<image, gt_boxes, labels>>

-----------------------------------------------------------------------------
(* generate_anchors and the overlaps.                                        *)

heights == {11, 16, 23, 33, 48, 68, 97, 139, 198, 283}

\* The centre of the base anchor is at 7.5, and its width 16.
scale_anchor(height) ==
    [x1 |-> Truncated(-1, 2), x2 |-> Truncated(31, 2),
     y1 |-> Truncated(15 - height, 2), y2 |-> Truncated(15 + height, 2)]

all_anchors ==
    {[x1 |-> a.x1 + 16 * c, x2 |-> a.x2 + 16 * c, y1 |-> a.y1 + 16 * r, y2 |-> a.y2 + 16 * r] :
        a \in {scale_anchor(height) : height \in heights},
        c \in 0..(image.w \div 16 - 1), r \in 0..(image.h \div 16 - 1)}

anchors == {a \in all_anchors : a.x1 >= 0 /\ a.y1 >= 0 /\ a.x2 < image.w /\ a.y2 < image.h}

Area(b) == (b.x2 - b.x1 + 1) * (b.y2 - b.y1 + 1)

Inter(a, b) ==
    Greatest(0, Least(a.x2, b.x2) - Greatest(a.x1, b.x1) + 1)
        * Greatest(0, Least(a.y2, b.y2) - Greatest(a.y1, b.y1) + 1)

\* An overlap is a fraction.
bbox_overlap(a, g) == [num |-> Inter(a, g), den |-> Area(a) + Area(g) - Inter(a, g)]

AtLeast(r, s) == r.num * s.den >= s.num * r.den
Tenths(n)     == [num |-> n, den |-> 10]

-----------------------------------------------------------------------------
(* anchor_target_layer.                                                      *)

\* max_overlaps < RPN_NEGATIVE_OVERLAP.
Background(a) == \A g \in gt_boxes : ~AtLeast(bbox_overlap(a, g), Tenths(3))

\* In gt_argmax_overlaps: no anchor overlaps g more than a does.
BestFor(a, g) == \A b \in anchors : AtLeast(bbox_overlap(a, g), bbox_overlap(b, g))

Foreground(a) ==
    \E g \in gt_boxes : BestFor(a, g) \/ AtLeast(bbox_overlap(a, g), Tenths(7))

LabelOf(a) ==
    IF Foreground(a) /\ ~(RPN_CLOBBER_POSITIVES /\ Background(a)) THEN 1
    ELSE IF Background(a) THEN 0 ELSE -1

\* _unmap: the anchors that are not inside are not cared for.
Label ==
    /\ pc = "label"
    /\ labels' = [a \in all_anchors |-> IF a \in anchors THEN LabelOf(a) ELSE -1]
    /\ pc' = "fg"
    /\ UNCHANGED <<image, gt_boxes>>

With(n) == {a \in DOMAIN labels : labels[a] = n}

\* npr.choice: all but n of the anchors in S lose their label.
Sampled(S, n) ==
    IF Cardinality(S) <= n THEN {labels}
    ELSE {[a \in DOMAIN labels |-> IF a \in S \ kept THEN -1 ELSE labels[a]] :
             kept \in {T \in {{f[k] : k \in 1..n} : f \in [1..n -> S]} : Cardinality(T) = n}}

num_fg == RPN_BATCHSIZE \div 2

SampleFg ==
    /\ pc = "fg"
    /\ labels' \in Sampled(With(1), num_fg)
    /\ pc' = "bg"
    /\ UNCHANGED <<image, gt_boxes>>

\* Mutant: the negatives make up a batch of their own.
num_bg_Whole == RPN_BATCHSIZE

num_bg == RPN_BATCHSIZE - Cardinality(With(1))

SampleBg ==
    /\ pc = "bg"
    /\ labels' \in Sampled(With(0), num_bg)
    /\ pc' = "done"
    /\ UNCHANGED <<image, gt_boxes>>

Init ==
    /\ pc = "split"
    /\ image \in Images
    /\ gt_boxes = {}
    /\ labels = <<>>

Next == SplitLabel \/ Load \/ Label \/ SampleFg \/ SampleBg

Spec == Init /\ [][Next]_vars

-----------------------------------------------------------------------------
(* Properties.                                                               *)

\* "fg label: for each gt, anchor with highest overlap": an anchor that is
\* trained as text overlaps a box of text.  A box that no anchor overlaps would
\* be overlapped equally, by nothing, by all of them.
PositivesTouch ==
    pc \in {"fg", "bg", "done"} =>
        \A a \in With(1) : \E g \in gt_boxes : Inter(a, g) > 0

\* The batch is full whenever there are anchors to fill it, never more than
\* full, at most half of it is text, and text is in it.
BatchFilled ==
    pc = "done" =>
        LET fg == Cardinality(With(1))
            bg == Cardinality(With(0))
        IN  /\ fg \in 1..num_fg
            /\ fg + bg <= RPN_BATCHSIZE
            /\ fg + bg < RPN_BATCHSIZE => \A a \in anchors : LabelOf(a) = 0 => labels[a] = 0
=============================================================================
