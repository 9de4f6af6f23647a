----------------------------- MODULE NeatLayout -----------------------------
(***************************************************************************)
(* Is a note neat?  det_layout.cpp: the thresholds that Init reads from a   *)
(* configuration, and IsNoteNeat, which suppresses overlapping text blocks, *)
(* connects the others into lines, suppresses overlapping lines, and judges *)
(* by what is left.  Both overloads of Nms are the same loop over different *)
(* boxes, and are one action here.                                          *)
(*                                                                         *)
(* An image is what OpenCV makes of it (external): its rows and cols; stats, *)
(* the bounding boxes of the connected components without the background,   *)
(* which is row 0; text, the number of black pixels.  A proportion is a     *)
(* pair of numerator and denominator, std_height the square of its value,   *)
(* and the two proportions among the thresholds are in units of 1/10000.    *)
(***************************************************************************)
EXTENDS Integers, SequencesExt

CONSTANTS
    Images,
    Configs,     \* what a file gives: a value for some of the keys
    INT_MAX,     \* the greatest int
    GARBAGE,     \* what a read outside of stats may lead to
    MAX_WORK     \* bound on the calls and their blocks together

Rects == [x : Nat, y : Nat, w : Nat \ {0}, h : Nat \ {0}]
Keys  == {"text_block_proportion", "text_proportion", "text_block_count",
          "text_block_width_std"}

ASSUME BoundsAssumption ==
    INT_MAX \in Nat /\ MAX_WORK \in Nat /\ GARBAGE # {} /\ GARBAGE \subseteq Int
ASSUME ImagesAssumption ==
    /\ Images \subseteq
          [rows : Nat \ {0}, cols : Nat \ {0}, stats : Seq(Rects), text : Nat]
    /\ \A img \in Images : \A i \in DOMAIN img.stats :
          /\ img.stats[i].x + img.stats[i].w <= img.cols
          /\ img.stats[i].y + img.stats[i].h <= img.rows
ASSUME ConfigsAssumption ==
    \A c \in Configs : DOMAIN c \subseteq Keys /\ \A k \in DOMAIN c : c[k] \in Int

VARIABLES
    pc,          \* "idle", "nms_blocks", "connect" or "nms_lines"
    g,           \* the thresholds, by key
    image,
    proportion,  \* the text pixels and the area around all blocks
    boxes,       \* what Nms works on: the blocks, then the lines
    rest,        \* indices of boxes that Nms has still to look at
    kept,        \* indices of boxes that Nms has picked
    line_group,  \* the sets of blocks found by ConnectBlock
    index, inner,    \* the variables of its two loops
    tmp,         \* the group that grows in the inner loop, with its edges
    neat_target, \* the report to the caller
    verdict,     \* the value returned
    work         \* history: the calls made and their blocks

page_vars == <<image, proportion>>
nms_vars  == <<boxes, rest, kept>>
scan_vars == <<line_group, index, inner, tmp>>
out_vars  == <<neat_target, verdict>>
vars == <<pc, g, page_vars, nms_vars, scan_vars, out_vars, work>>

Zero == <<0, 1>>
Fresh == [mean_width |-> Zero, std_height |-> Zero, text_area_p |-> Zero,
          text_block_p |-> Zero, box_count |-> 0]

Right(r)  == r.x + r.w
Bottom(r) == r.y + r.h
Area(r)   == r.w * r.h
Pixels(img) == img.rows * img.cols

-----------------------------------------------------------------------------
(* Init.                                                                     *)

\* A key that is missing, or whose value does not parse, leaves the threshold
\* of the previous call.
ReadConfig(c) ==
    /\ pc = "idle"
    /\ work < MAX_WORK
    /\ g' = [k \in Keys |-> IF k \in DOMAIN c THEN c[k] ELSE g[k]]
    /\ work' = work + 1
    /\ UNCHANGED <<pc, page_vars, nms_vars, scan_vars, out_vars>>

\* read_ini throws before anything is assigned.
ReadThrows ==
    /\ pc = "idle"
    /\ work < MAX_WORK
    /\ work' = work + 1
    /\ UNCHANGED <<pc, g, page_vars, nms_vars, scan_vars, out_vars>>

-----------------------------------------------------------------------------
(* CalcProportion.                                                           *)

\* The rectangle around the members of a non-empty set of rectangles.
Around(S) ==
    LET left == Min({r.x : r \in S})
        top  == Min({r.y : r \in S})
    IN  [x |-> left, y |-> top,
         w |-> Max({Right(r) : r \in S}) - left,
         h |-> Max({Bottom(r) : r \in S}) - top]

\* An int after an addition that may overflow.
Wrap(n) == ((n + INT_MAX + 1) % (2 * (INT_MAX + 1))) - (INT_MAX + 1)

\* The bytes of the text pixels summed up in an int, divided by 255 (the
\* division of C++ truncates).
TextPart(text) ==
    LET sum == Wrap(255 * text)
    IN  IF sum >= 0 THEN sum \div 255 ELSE -((-sum) \div 255)

\* Without a component, row 1 of stats lies outside of it.
CalcProportion(img) ==
    {[text_part |-> TextPart(img.text), block |-> b] :
        b \in IF img.stats = <<>> THEN GARBAGE ELSE {Area(Around(Range(img.stats)))}}

-----------------------------------------------------------------------------
(* Nms.                                                                      *)

\* Mutant: max for min, so the part in common ends where the farther box ends.
Overlap_Max(a, b) ==
    LET w == Max({Right(a), Right(b)}) - Max({a.x, b.x}) + 1
        h == Max({Bottom(a), Bottom(b)}) - Max({a.y, b.y}) + 1
    IN  Max({0, w}) * Max({0, h})

\* The common part as Iou counts it, with a column and a row more than there are:
\* boxes that only touch have one.
Overlap(a, b) ==
    LET w == Min({Right(a), Right(b)}) - Max({a.x, b.x}) + 1
        h == Min({Bottom(a), Bottom(b)}) - Max({a.y, b.y}) + 1
    IN  Max({0, w}) * Max({0, h})

\* Iou(a, b) > 0.5, which divides by the area of a alone.
Suppressed(a, b) == 2 * Overlap(a, b) > Area(a)

\* More than 0.2 of the image.
TooBig(r, img) == 5 * Area(r) > Pixels(img)

Biggest(b) == \A i \in rest : Area(boxes[i]) <= Area(boxes[b])

\* Mutant: after a pick the next one is not compared with it.
Survivors_SkipsNext(b) ==
    {i \in rest \ {b} : \/ ~Suppressed(boxes[i], boxes[b])
                        \/ \A j \in rest \ {b} : Area(boxes[j]) <= Area(boxes[i])}

Survivors(b) == {i \in rest \ {b} : ~Suppressed(boxes[i], boxes[b])}

\* One round of the loop: a biggest box is picked (sort leaves the order of equal
\* areas open) and takes the ones it overlaps with it.
Pick ==
    /\ pc \in {"nms_blocks", "nms_lines"}
    /\ \E b \in rest :
          /\ Biggest(b)
          /\ kept' = Append(kept, b)
          /\ rest' = Survivors(b)
    /\ UNCHANGED <<pc, g, page_vars, boxes, scan_vars, out_vars, work>>

-----------------------------------------------------------------------------
(* ConnectBlock.                                                             *)

Centre2(r) == 2 * r.y + r.h   \* twice the centre's y

Before(a, b) ==
    \/ Centre2(a) < Centre2(b)
    \/ Centre2(a) = Centre2(b) /\ a.y <= b.y

\* What sort may make of the picked blocks.
Arrangements ==
    {p \in [DOMAIN kept -> Range(kept)] :
        /\ Range(p) = Range(kept)
        /\ \A m, n \in DOMAIN p : m < n => Before(boxes[p[m]], boxes[p[n]])}

\* The heights of the picked boxes.
Heights == [n \in DOMAIN kept |-> boxes[kept[n]].h]

HeightSum == SumFunction(Heights)

Abs(n) == IF n < 0 THEN -n ELSE n

\* Mutant: the vertical distance is not compared.
Level_Always(a, b) == TRUE

\* The centres are closer than mean_height.
Level(a, b) == Len(kept) * Abs(Centre2(a) - Centre2(b)) < 2 * HeightSum

\* Closer than target_height, half of mean_height.
Near(m, n) == 2 * Len(kept) * Abs(m - n) < HeightSum

Empty == [group |-> {}, left |-> 0, right |-> 0]

ArrangeBlocks ==
    /\ pc = "nms_blocks"
    /\ rest = {}
    /\ kept' \in Arrangements
    /\ index' = 1
    /\ inner' = 1
    /\ pc' = "connect"
    /\ UNCHANGED <<g, page_vars, boxes, rest, line_group, tmp, out_vars, work>>

\* The edges of the group of block i, which begin as those of the block.
Edges(i) ==
    IF inner = 1 THEN [group |-> {}, left |-> boxes[i].x, right |-> Right(boxes[i])]
                 ELSE tmp

\* One round of the inner loop: a block that joins moves the edges for the blocks
\* that come after it.
JoinBlock ==
    /\ pc = "connect"
    /\ index \in DOMAIN kept
    /\ inner \in DOMAIN kept
    /\ LET i == kept[index]
           b == boxes[kept[inner]]
           t == Edges(i)
       IN  tmp' = IF /\ Level(boxes[i], b)
                     /\ Near(t.left, Right(b)) \/ Near(b.x, t.right)
                  THEN [group |-> t.group \cup {i, kept[inner]},
                        left  |-> Min({t.left, b.x}),
                        right |-> Max({t.right, Right(b)})]
                  ELSE t
    /\ inner' = inner + 1
    /\ UNCHANGED <<pc, g, page_vars, nms_vars, line_group, index, out_vars, work>>

\* The end of a round of the outer loop.
CloseGroup ==
    /\ pc = "connect"
    /\ index \in DOMAIN kept
    /\ inner \notin DOMAIN kept
    /\ line_group' = IF tmp.group = {} THEN line_group
                     ELSE Append(line_group, tmp.group)
    /\ tmp' = Empty
    /\ index' = index + 1
    /\ inner' = 1
    /\ UNCHANGED <<pc, g, page_vars, nms_vars, out_vars, work>>

\* The lines, each the rectangle around its blocks.
Lines == [n \in DOMAIN line_group |-> Around({boxes[i] : i \in line_group[n]})]

\* Mutant: the picked blocks are not cleared.
NoPicks_Kept == kept

NoPicks == <<>>

MergeLines ==
    /\ pc = "connect"
    /\ index \notin DOMAIN kept
    /\ line_group # <<>>
    /\ boxes' = Lines
    /\ rest' = {n \in DOMAIN Lines : ~TooBig(Lines[n], image)}
    /\ kept' = NoPicks
    /\ pc' = "nms_lines"
    /\ UNCHANGED <<g, page_vars, scan_vars, out_vars, work>>

-----------------------------------------------------------------------------
(* IsNoteNeat.                                                               *)

\* Mutant: the proportion is reported as soon as it is known.
ReportOnEntry_Early(img) ==
    [Fresh EXCEPT !.text_area_p = <<proportion'.block, Pixels(img)>>]

ReportOnEntry(img) == Fresh

\* The caller passes a report of zeros.  Until the return there is no verdict:
\* FALSE stands for it.
IsNoteNeat(img) ==
    /\ pc = "idle"
    /\ work + 1 + Len(img.stats) <= MAX_WORK
    /\ work' = work + 1 + Len(img.stats)
    /\ image' = img
    /\ proportion' \in CalcProportion(img)
    /\ neat_target' = ReportOnEntry(img)
    /\ verdict' = FALSE
    /\ boxes' = img.stats
    /\ rest' = {i \in DOMAIN img.stats : ~TooBig(img.stats[i], img)}
    /\ kept' = <<>>
    /\ line_group' = <<>>
    /\ index' = 1
    /\ inner' = 1
    /\ tmp' = Empty
    /\ pc' = "nms_blocks"
    /\ UNCHANGED g

\* The two returns that leave the report alone.
ReturnNoLine ==
    /\ \/ pc = "connect" /\ index \notin DOMAIN kept /\ line_group = <<>>
       \/ pc = "nms_lines" /\ rest = {} /\ kept = <<>>
    /\ verdict' = FALSE
    /\ pc' = "idle"
    /\ UNCHANGED <<g, page_vars, nms_vars, scan_vars, neat_target, work>>

WidthSum == SumFunction([n \in DOMAIN kept |-> boxes[kept[n]].w])

\* The square of std_deviation.
SquaredStd ==
    LET squares == [n \in DOMAIN kept |-> Heights[n] * Heights[n]]
    IN  <<Len(kept) * SumFunction(squares) - HeightSum * HeightSum,
          Len(kept) * Len(kept)>>

\* std_deviation <= g_width_std, computed in doubles: at equality of values that
\* are not zero rounding may decide either way.
Steady(std, limit) ==
    LET bound == limit * limit * std[2]
    IN  CASE limit < 0 \/ std[1] > bound -> {FALSE}
          [] limit >= 0 /\ std[1] = bound /\ bound # 0 -> {TRUE, FALSE}
          [] OTHER -> {TRUE}

\* size() >= g_box_count compares as unsigned: a negative threshold is out of reach.
Enough(count, limit) == limit >= 0 /\ count >= limit

Report ==
    /\ pc = "nms_lines"
    /\ rest = {}
    /\ kept # <<>>
    /\ neat_target' = [mean_width   |-> <<WidthSum, Len(kept)>>,
                       std_height   |-> SquaredStd,
                       text_area_p  |-> <<proportion.block, Pixels(image)>>,
                       text_block_p |-> <<proportion.text_part, proportion.block>>,
                       box_count    |-> Len(kept)]
    /\ \E steady \in Steady(SquaredStd, g["text_block_width_std"]) :
          verdict' =
              /\ 10000 * proportion.block > g["text_block_proportion"] * Pixels(image)
              /\ 10000 * proportion.text_part >= g["text_proportion"] * proportion.block
              /\ Enough(Len(kept), g["text_block_count"])
              /\ steady
    /\ pc' = "idle"
    /\ UNCHANGED <<g, page_vars, nms_vars, scan_vars, work>>

-----------------------------------------------------------------------------

Init ==
    /\ pc = "idle"
    /\ g = [k \in Keys |-> CASE k = "text_block_proportion" -> 3333
                             [] k = "text_proportion"       -> 200
                             [] k = "text_block_count"      -> 30
                             [] k = "text_block_width_std"  -> 40]
    /\ image = [rows |-> 1, cols |-> 1, stats |-> <<>>, text |-> 0]
    /\ proportion = [text_part |-> 0, block |-> 0]
    /\ boxes = <<>>
    /\ rest = {}
    /\ kept = <<>>
    /\ line_group = <<>>
    /\ index = 1
    /\ inner = 1
    /\ tmp = Empty
    /\ neat_target = Fresh
    /\ verdict = FALSE
    /\ work = 0

\* What a call does once it has begun.
Step ==
    \/ Pick \/ ArrangeBlocks \/ JoinBlock \/ CloseGroup \/ MergeLines
    \/ ReturnNoLine \/ Report

Next ==
    \/ \E c \in Configs : ReadConfig(c)
    \/ ReadThrows
    \/ \E img \in Images : IsNoteNeat(img)
    \/ Step

Spec == Init /\ [][Next]_vars

-----------------------------------------------------------------------------
(* Properties.                                                               *)

TypeOK ==
    /\ pc \in {"idle", "nms_blocks", "connect", "nms_lines"}
    /\ g \in [Keys -> Int]
    /\ image \in [rows : Nat \ {0}, cols : Nat \ {0}, stats : Seq(Rects), text : Nat]
    /\ proportion \in [text_part : Int, block : Int]
    /\ boxes \in Seq(Rects)
    /\ rest \subseteq DOMAIN boxes
    /\ kept \in Seq(DOMAIN boxes)
    /\ line_group \in Seq(SUBSET (1..Len(image.stats)))
    /\ {index, inner} \subseteq 1..(Len(image.stats) + 1)
    /\ tmp \in [group : SUBSET (1..Len(image.stats)), left : Nat, right : Nat]
    /\ verdict \in BOOLEAN
    /\ work \in 0..MAX_WORK

\* Nms returns boxes of which none covers half of one that is no greater, in the
\* measure of Iou, and none that is huge.
Separated ==
    \A a, b \in Range(kept) :
        /\ ~TooBig(boxes[a], image)
        /\ a # b /\ Area(boxes[a]) <= Area(boxes[b]) => ~Suppressed(boxes[a], boxes[b])

\* The pixels that two boxes really have in common.
Common(a, b) ==
    Max({0, Min({Right(a), Right(b)}) - Max({a.x, b.x})})
        * Max({0, Min({Bottom(a), Bottom(b)}) - Max({a.y, b.y})})

Touch(a, b) ==
    /\ a.x <= Right(b) /\ b.x <= Right(a)
    /\ a.y <= Bottom(b) /\ b.y <= Bottom(a)

\* Nms drops a box only for a cause that can be seen in its result: the box is
\* huge, or a box that was kept, and is no smaller, touches it and covers half of
\* it but for the column and the row that Iou adds.  Touching is enough only
\* for a box that is less than three pixels wide or high.
DropsHaveCause ==
    rest = {} =>
        \A n \in DOMAIN boxes :
            \/ n \in Range(kept)
            \/ TooBig(boxes[n], image)
            \/ \E k \in Range(kept) :
                  LET a == boxes[n]
                      b == boxes[k]
                  IN  /\ Area(a) <= Area(b)
                      /\ Touch(a, b)
                      /\ 2 * (Common(a, b) + a.w + a.h + 1) > Area(a)
                      /\ a.w >= 3 /\ a.h >= 3 => Common(a, b) > 0

\* The gap between two blocks along the line.
Apart(a, b) == ~Near(a.x, Right(b)) /\ ~Near(b.x, Right(a))
               /\ (Right(a) <= b.x \/ Right(b) <= a.x)

\* A line is one: the centres of any two of its blocks are within twice the mean
\* height, and no block is a gap away from all the others.
LinesAreWhole ==
    pc = "connect" =>
        \A n \in DOMAIN line_group : \A i \in line_group[n] :
            /\ \A j \in line_group[n] :
                  Len(kept) * Abs(Centre2(boxes[i]) - Centre2(boxes[j])) < 4 * HeightSum
            /\ line_group[n] # {i} =>
                  \E j \in line_group[n] \ {i} : ~Apart(boxes[i], boxes[j])

\* CalcProportion reads outside of stats when the page is empty; what it finds
\* there reaches neither the report nor the verdict.
GarbageUnused == image.stats = <<>> => neat_target = Fresh /\ ~verdict

\* The header: text_block_p is a share, so not negative.
ShareIsAShare == neat_target.text_block_p[1] >= 0
=============================================================================
