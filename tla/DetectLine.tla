----------------------------- MODULE DetectLine -----------------------------
(***************************************************************************)
(* From the image to the proposals that are connected into text lines:     *)
(* detect_line and resize_image (main/det_line.py), proposal_layer          *)
(* (rpn_msr/proposal_layer.py), nms (bbox/nms.pyx) and detect               *)
(* (text_connector/detectors.py).                                           *)
(*                                                                         *)
(* The network is a constant: the sets of predictions it may make.  A       *)
(* prediction is of one anchor of one column of the 16 pixel grid; it moves *)
(* the anchor vertically only.  Scores are in percent.  Predictions without *)
(* a score above the 50 of detect() may be left out: they come last in      *)
(* every order and suppress nothing above them.                             *)
(***************************************************************************)
EXTENDS Integers, Sequences, FiniteSets

CONSTANTS
    Heights, Widths,    \* the sides of the images
    TABLE_SIZE,         \* the columns of boxes_table
    Outputs,            \* external: the sets of predictions the network makes
    RPN_PRE_NMS_TOP_N,
    RPN_POST_NMS_TOP_N

Predictions == [column : Nat, anchor : Nat, y1 : Int, y2 : Int, score : 0..100]

\* The height of a prediction is that of its anchor times an exponential.
ASSUME OutputsAssumption ==
    \A P \in Outputs :
        IsFiniteSet(P) /\ P \subseteq Predictions /\ \A p \in P : p.y1 <= p.y2

ASSUME SidesAssumption ==
    Heights \subseteq Nat \ {0} /\ Widths \subseteq Nat \ {0}
ASSUME TableAssumption == TABLE_SIZE \in Nat /\ TABLE_SIZE >= 1216
ASSUME TopAssumption ==
    RPN_PRE_NMS_TOP_N \in Nat \ {0} /\ RPN_POST_NMS_TOP_N \in Nat \ {0}

VARIABLES
    pc,            \* "raw", "scaled", "aligned", "raised", "nms_rpn", "nms_text"
                   \* or "connect"
    h, w,          \* the sides of the raw image
    new_h, new_w,  \* the sides of the resized one
    proposals,     \* the clipped proposals that are large enough
    rois,          \* what proposal_layer returns
    order,         \* nms: the boxes from the highest score to the lowest
    i,             \* nms: the place in the order
    keep,          \* nms: the places of the boxes that are kept
    suppressed     \* nms: the places of those that are not

resizing == <<h, w, new_h, new_w>>
nms      == <<order, i, keep, suppressed>>
vars     == <<pc, resizing, proposals, rois, nms>>

Least(a, b)    == IF a <= b THEN a ELSE b
Greatest(a, b) == IF a >= b THEN a ELSE b

-----------------------------------------------------------------------------
(* resize_image: the short side is scaled to 600, or the long one to 1200 if *)
(* it would grow beyond, and both are then put on the grid.                  *)

\* Mutant: the long side is not limited.
TooLong_Never == FALSE

\* np.round(x) > 1200 exactly when x > 1200.5, for it rounds halves to even.
TooLong == 1200 * Greatest(h, w) > 2401 * Least(h, w)

\* int(side * im_scale), where im_scale = num / den is a double: a product that
\* is a whole number may be computed as a little less, and lose one.
Scaled(side, num, den) ==
    LET q == (side * num) \div den
    IN  {q} \cup (IF q * den = side * num /\ q > 0 THEN {q - 1} ELSE {})

Scale ==
    /\ pc = "raw"
    /\ \/ /\ TooLong
          /\ new_h' \in Scaled(h, 1200, Greatest(h, w))
          /\ new_w' \in Scaled(w, 1200, Greatest(h, w))
       \/ /\ ~TooLong
          /\ new_h' \in Scaled(h, 600, Least(h, w))
          /\ new_w' \in Scaled(w, 600, Least(h, w))
    /\ pc' = "scaled"
    /\ UNCHANGED <<h, w, proposals, rois, nms>>

OnGrid(n) == IF n \div 16 = 0 THEN n ELSE (n \div 16 + 1) * 16

\* cv2.resize raises when a side is 0.
Align ==
    /\ pc = "scaled"
    /\ new_h' = OnGrid(new_h)
    /\ new_w' = OnGrid(new_w)
    /\ pc' = IF new_h' > 0 /\ new_w' > 0 THEN "aligned" ELSE "raised"
    /\ UNCHANGED <<h, w, proposals, rois, nms>>

-----------------------------------------------------------------------------
(* nms, for both of its callers.                                             *)

Width(b)  == b.x2 - b.x1 + 1
Height(b) == b.y2 - b.y1 + 1
Area(b)   == Width(b) * Height(b)

Inter(a, b) ==
    Greatest(0, Least(a.x2, b.x2) - Greatest(a.x1, b.x1) + 1)
        * Greatest(0, Least(a.y2, b.y2) - Greatest(a.y1, b.y1) + 1)

\* ovr >= thresh.  ovr is a float32 and thresh a double: 0.7 becomes less than
\* itself as a float32 and is below the threshold, 0.2 more and is not.
Overlap(phase, a, b) ==
    LET inter == Inter(a, b)
        union == Area(a) + Area(b) - inter
    IN  IF phase = "nms_rpn" THEN 10 * inter > 7 * union ELSE 5 * inter >= union

\* Mutant: argsort without the reversal.
Sorted_Ascending(S) ==
    {s \in [1..Cardinality(S) -> S] :
        /\ \A b \in S : \E k \in DOMAIN s : s[k] = b
        /\ \A j, k \in DOMAIN s : j < k => s[j].score <= s[k].score}

\* argsort()[::-1]: ties come in any order.
Sorted(S) ==
    {s \in [1..Cardinality(S) -> S] :
        /\ \A b \in S : \E k \in DOMAIN s : s[k] = b
        /\ \A j, k \in DOMAIN s : j < k => s[j].score >= s[k].score}

StartNms(boxes) ==
    /\ order' \in Sorted(boxes)
    /\ i' = 1
    /\ keep' = {}
    /\ suppressed' = {}

\* Mutant: only the next box is compared.
Rivals_Next == {i + 1} \cap 1..Len(order)

\* The boxes that the inner loop compares with box i.
Rivals == (i + 1)..Len(order)

\* One round of the outer loop.
Nms ==
    /\ pc \in {"nms_rpn", "nms_text"}
    /\ i <= Len(order)
    /\ \/ /\ i \in suppressed
          /\ UNCHANGED <<keep, suppressed>>
       \/ /\ i \notin suppressed
          /\ keep' = keep \cup {i}
          /\ suppressed' = suppressed \cup {j \in Rivals : Overlap(pc, order[i], order[j])}
    /\ i' = i + 1
    /\ UNCHANGED <<pc, resizing, proposals, rois, order>>

NmsOver == i > Len(order)

-----------------------------------------------------------------------------
(* proposal_layer.                                                           *)

\* bbox_transform_inv: dx and dw are not used.
Decoded(p) ==
    [x1 |-> 16 * p.column, y1 |-> p.y1, x2 |-> 16 * p.column + 16, y2 |-> p.y2,
     anchor |-> p.anchor, score |-> p.score]

Clamp(n, side) == Greatest(Least(n, side - 1), 0)

clip_boxes(b) ==
    [x1 |-> Clamp(b.x1, new_w), y1 |-> Clamp(b.y1, new_h),
     x2 |-> Clamp(b.x2, new_w), y2 |-> Clamp(b.y2, new_h),
     anchor |-> b.anchor, score |-> b.score]

RPN_MIN_SIZE == 8

_filter_boxes(boxes) ==
    {b \in boxes : Width(b) >= RPN_MIN_SIZE /\ Height(b) >= RPN_MIN_SIZE}

\* order[:n] of the sorted boxes: n of the best.
Best(boxes, n) ==
    {S \in SUBSET boxes :
        /\ Cardinality(S) = Least(n, Cardinality(boxes))
        /\ \A b \in S, c \in boxes \ S : b.score >= c.score}

\* The network and proposal_layer up to its call of nms.
ProposalLayer(predictions) ==
    /\ pc = "aligned"
    /\ \A p \in predictions : 16 * p.column < new_w
    /\ proposals' = _filter_boxes({clip_boxes(Decoded(p)) : p \in predictions})
    /\ \E boxes \in Best(proposals', RPN_PRE_NMS_TOP_N) : StartNms(boxes)
    /\ pc' = "nms_rpn"
    /\ UNCHANGED <<resizing, rois>>

\* keep[:post_nms_topN].
TopKept == {k \in keep : Cardinality({j \in keep : j < k}) < RPN_POST_NMS_TOP_N}

-----------------------------------------------------------------------------
(* detect.                                                                   *)

TEXT_PROPOSALS_MIN_SCORE == 50

\* proposal_layer returns, and detect runs up to its own call of nms.
Detect ==
    /\ pc = "nms_rpn"
    /\ NmsOver
    /\ rois' = {order[k] : k \in TopKept}
    /\ StartNms({b \in rois' : b.score > TEXT_PROPOSALS_MIN_SCORE})
    /\ pc' = "nms_text"
    /\ UNCHANGED <<resizing, proposals>>

\* get_text_lines is called with the boxes that are kept.
Connect ==
    /\ pc = "nms_text"
    /\ NmsOver
    /\ pc' = "connect"
    /\ UNCHANGED <<resizing, proposals, rois, nms>>

Init ==
    /\ pc = "raw"
    /\ h \in Heights
    /\ w \in Widths
    /\ new_h = 0
    /\ new_w = 0
    /\ proposals = {}
    /\ rois = {}
    /\ order = <<>>
    /\ i = 1
    /\ keep = {}
    /\ suppressed = {}

Next ==
    \/ Scale \/ Align
    \/ \E predictions \in Outputs : ProposalLayer(predictions)
    \/ Nms \/ Detect \/ Connect

Spec == Init /\ [][Next]_vars

-----------------------------------------------------------------------------
(* Properties.                                                               *)

Kept == {order[k] : k \in keep}

\* What both calls of nms promise when the loop over the boxes ends: no two of
\* the kept boxes overlap by the threshold, and each box that is gone overlaps
\* one that is kept and whose score is no lower.
NmsExact ==
    NmsOver /\ pc \in {"nms_rpn", "nms_text"} =>
        /\ \A j, k \in keep : j < k => ~Overlap(pc, order[j], order[k])
        /\ \A j \in DOMAIN order \ keep : \E k \in keep :
              Overlap(pc, order[k], order[j]) /\ order[k].score >= order[j].score

\* The two rounds of suppression take nothing from a column but what a better
\* box of the same column covers: unless the proposals were cut at one of the
\* two limits, a column with text in it reaches the connector, with a box of
\* its best score.
ColumnsSurvive ==
    /\ pc = "connect"
    /\ Cardinality(proposals) <= RPN_PRE_NMS_TOP_N
    /\ Cardinality(rois) < RPN_POST_NMS_TOP_N
    => \A b \in proposals : b.score > TEXT_PROPOSALS_MIN_SCORE =>
          \E c \in Kept : c.x1 = b.x1 /\ c.score >= b.score

\* What build_graph is called with is what it can work on (CallsAssumption of
\* TextProposalGraph): the columns of the boxes are columns of the image, and
\* those are columns of the table, whatever the size of the raw image; only a
\* sliver, 1200 times as long as it is wide, is refused before.
HandOver ==
    /\ pc = "connect" =>
          /\ new_w <= TABLE_SIZE
          /\ \A b \in Kept : b.x1 \in 0..(new_w - 1) /\ b.y1 <= b.y2
    /\ pc = "raised" => Greatest(h, w) >= 1200 * Least(h, w)
=============================================================================
