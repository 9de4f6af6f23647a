----------------------------- MODULE TagAnalyst -----------------------------
(***************************************************************************)
(* analyst (main/det_line.py): what is made of the text lines of a page.    *)
(* The distance of the lines, the space below them, the columns that hold   *)
(* equally many lines (the tags), the writing direction, and the division   *)
(* of the lines into titles of the first level, of the second and others.   *)
(*                                                                         *)
(* A page is what detect_line and det_layout give (external here): the     *)
(* width w, the lines, and base, the y of the lowest stroke.  A line is its  *)
(* four corners, x and y in turn, from the upper left one clockwise, as in   *)
(* the array (the ninth value, a truncated score, is left out); the code's  *)
(* halves are avoided by doubling.  The two scores of det_layout are passed *)
(* on and left out.  Sequences begin at 1, so do the indices into coord.     *)
(***************************************************************************)
EXTENDS Integers, FiniteSets, SequencesExt

CONSTANTS
    Pages,
    SHORT_TAG,   \* a tag is longer than this
    TAG_MARGIN,  \* a line may begin this far to the left of its tag
    MAX_CALLS    \* bound on the number of calls

Quads == [0..7 -> Int]

ASSUME TagBounds == SHORT_TAG \in Nat /\ TAG_MARGIN \in Nat /\ MAX_CALLS \in Nat
ASSUME PagesAssumption == Pages \subseteq [w : Nat \ {0}, base : Int, lines : Seq(Quads)]

VARIABLES
    pc,            \* "idle", "measure", "level", "scan" or "merge"
    page,
    level,         \* the count of lines that tags are looked for
    coord,         \* the columns with that count, from left to right
    m,             \* the variable of the loop over coord
    tmp_left_idx, tmp_right_idx,
    tag,           \* the tags; their levels are kept for the properties
    first,         \* the lines of the first level, as sorted by first_tag_merge
    i,             \* the variable of its loop
    result_boxes,  \* its groups
    result,        \* what analyst returns
    calls          \* history: the calls made

scan_vars  == <<level, coord, m, tmp_left_idx, tmp_right_idx, tag>>
merge_vars == <<first, i, result_boxes>>
vars == <<pc, page, scan_vars, merge_vars, result, calls>>

Nothing == [interval_mean |-> <<0, 1>>, white_space_length |-> 0, ltor |-> FALSE, others |-> 0]

-----------------------------------------------------------------------------
(* Lines.                                                                    *)

Left2(q)    == q[0] + q[6]    \* twice left_p_x
Right2(q)   == q[2] + q[4]    \* twice right_p_x
Upper2(q)   == q[1] + q[3]
Bottom2(q)  == q[5] + q[7]
Middle2(q)  == q[5] + q[1]    \* twice center_y

\* What argsort may answer: it leaves the order of equal keys open.
argsort(key) ==
    {p \in [DOMAIN key -> DOMAIN key] :
        /\ Range(p) = DOMAIN key
        /\ \A a, b \in DOMAIN key : a < b => key[p[a]] <= key[p[b]]}

\* The members of s at the indices in S, in the order of s.
Where(s, S) ==
    LET upto[n \in 0 .. Len(s)] ==
            IF n = 0 THEN <<>>
            ELSE IF n \in S THEN Append(upto[n - 1], s[n])
            ELSE upto[n - 1]
    IN  upto[Len(s)]

-----------------------------------------------------------------------------
(* get_interval_stats and the space below the text.                          *)

Abs(n) == IF n < 0 THEN -n ELSE n

\* The mean distance of a line from the next one below, as a fraction, for lines
\* that are taken in the order p.
interval_mean(lines, p) ==
    LET gaps == [n \in 1 .. Len(lines) - 1 |->
                    Abs(Bottom2(lines[p[n]]) - Upper2(lines[p[n + 1]]))]
    IN  IF gaps = <<>> THEN <<0, 1>> ELSE <<SumFunction(gaps), 2 * Len(gaps)>>

\* The lower corner of the line whose lower edge has the lowest centre.
tmp_y_base(lines) ==
    LET lowest == Min({n \in DOMAIN lines :
                          \A k \in DOMAIN lines : Bottom2(lines[k]) <= Bottom2(lines[n])})
    IN  Max({lines[lowest][5], lines[lowest][7]})

\* The call: without a line everything but the scores is zero.
AnalystNoLine(p) ==
    /\ pc = "idle"
    /\ calls < MAX_CALLS
    /\ p.lines = <<>>
    /\ page' = p
    /\ result' = Nothing
    /\ calls' = calls + 1
    /\ UNCHANGED <<pc, scan_vars, merge_vars>>

Analyst(p) ==
    /\ pc = "idle"
    /\ calls < MAX_CALLS
    /\ p.lines # <<>>
    /\ page' = p
    /\ pc' = "measure"
    /\ calls' = calls + 1
    /\ UNCHANGED <<scan_vars, merge_vars, result>>

\* Then tag_analyst begins.
Measure ==
    /\ pc = "measure"
    /\ \E p \in argsort([n \in DOMAIN page.lines |-> Middle2(page.lines[n])]) :
          result' = [Nothing EXCEPT
              !.interval_mean = interval_mean(page.lines, p),
              !.white_space_length = page.base - tmp_y_base(page.lines)]
    /\ level' = 0
    /\ coord' = <<>>
    /\ m' = 1
    /\ tmp_left_idx' = 1
    /\ tmp_right_idx' = 1
    /\ tag' = <<>>
    /\ first' = <<>>
    /\ i' = 1
    /\ result_boxes' = <<>>
    /\ pc' = "level"
    /\ UNCHANGED <<page, calls>>

-----------------------------------------------------------------------------
(* The tags.                                                                 *)

\* tag_result: how many lines column c lies in.
tag_result(c) ==
    Cardinality({n \in DOMAIN page.lines :
        Left2(page.lines[n]) < 2 * c /\ 2 * c < Right2(page.lines[n])})

\* np.where: the columns with l lines, from left to right.
Columns(l) ==
    Where([n \in 1 .. page.w |-> n - 1], {n \in 1 .. page.w : tag_result(n - 1) = l})

MoreLevels == \E c \in 0 .. page.w - 1 : tag_result(c) > level

OpenLevel ==
    /\ pc = "level"
    /\ MoreLevels
    /\ level' = level + 1
    /\ coord' = Columns(level')
    /\ m' = 1
    /\ tmp_left_idx' = 1
    /\ tmp_right_idx' = 1
    /\ pc' = "scan"
    /\ UNCHANGED <<page, tag, merge_vars, result, calls>>

tmp_len == tmp_right_idx - tmp_left_idx

\* The tags with the interval between the two indices, if it is long enough.
Tagged ==
    IF tmp_len > SHORT_TAG
    THEN Append(tag, [level |-> level, left |-> coord[tmp_left_idx],
                      right |-> coord[tmp_right_idx], len |-> tmp_len])
    ELSE tag

\* Mutant: the left end moves behind the gap, the right one does not.
LeftAtGap_Behind == m + 1

\* Mutant: the left end stays where it is.
LeftAtGap_Kept == tmp_left_idx

LeftAtGap == tmp_right_idx

\* One round of the loop.  At a gap the next interval begins where the last one
\* ended, in front of the gap.
ScanColumn ==
    /\ pc = "scan"
    /\ m < Len(coord)
    /\ \/ /\ coord[m + 1] - coord[m] = 1
          /\ tmp_right_idx' = m + 1
          /\ UNCHANGED <<tag, tmp_left_idx>>
       \/ /\ coord[m + 1] - coord[m] # 1
          /\ tag' = Tagged
          /\ tmp_left_idx' = LeftAtGap
          /\ UNCHANGED tmp_right_idx
    /\ m' = m + 1
    /\ UNCHANGED <<pc, page, level, coord, merge_vars, result, calls>>

\* Mutant: the interval that is left behind the loop is forgotten.
LastTagged_Forgotten == tag

LastTagged == Tagged

CloseLevel ==
    /\ pc = "scan"
    /\ m >= Len(coord)
    /\ tag' = LastTagged
    /\ pc' = "level"
    /\ UNCHANGED <<page, level, coord, m, tmp_left_idx, tmp_right_idx, merge_vars, result, calls>>

-----------------------------------------------------------------------------
(* The writing direction and the titles.                                     *)

\* The lines whose centre lies in a third of the page, its borders excluded.
lr_result(third) ==
    LET t_left  == (page.w * (third - 1)) \div 3
        t_right == (page.w * third) \div 3
    IN  Cardinality({n \in DOMAIN page.lines :
            LET centre4 == Left2(page.lines[n]) + Right2(page.lines[n])
            IN  4 * t_left < centre4 /\ centre4 < 4 * t_right})

ltor ==
    /\ ~(lr_result(2) < lr_result(1) /\ lr_result(2) < lr_result(3))
    /\ lr_result(2) + lr_result(3) > lr_result(1)

sorted_tag ==
    SortSeq(tag, LAMBDA s, t :
        \/ s.left + s.right < t.left + t.right
        \/ s.left + s.right = t.left + t.right /\ s.left < t.left)

BelongsTo(q, t) == 2 * (t.left - TAG_MARGIN) <= Left2(q) /\ Left2(q) <= 2 * t.right

FirstTitles ==
    Where(page.lines, {n \in DOMAIN page.lines : BelongsTo(page.lines[n], sorted_tag[1])})
OthersCount ==
    Cardinality({n \in DOMAIN page.lines :
        \A t \in {sorted_tag[1], sorted_tag[2]} : ~BelongsTo(page.lines[n], t)})

\* Fewer than two tags: one title, and nothing else is counted.
ReturnOneTitle ==
    /\ pc = "level"
    /\ ~MoreLevels
    /\ Len(tag) < 2
    /\ result' = [result EXCEPT !.ltor = ltor]
    /\ pc' = "idle"
    /\ UNCHANGED <<page, scan_vars, merge_vars, calls>>

\* first_tag_merge begins with the uppermost title, if there is one.
Classify ==
    /\ pc = "level"
    /\ ~MoreLevels
    /\ Len(tag) >= 2
    /\ result' = [result EXCEPT !.ltor = ltor, !.others = OthersCount]
    /\ \E p \in argsort([n \in DOMAIN FirstTitles |-> FirstTitles[n][1]]) :
          first' = [n \in DOMAIN p |-> FirstTitles[p[n]]]
    /\ i' = 1
    /\ result_boxes' = IF first' = <<>> THEN <<>> ELSE <<<<first'[1]>>>>
    /\ pc' = "merge"
    /\ UNCHANGED <<page, scan_vars, calls>>

\* The distance of two centres is less than 1.5 * height_mean.
CloseTo(a, b) ==
    LET heights == [n \in DOMAIN first |-> first[n][5] - first[n][1]]
    IN  Len(first) * (Middle2(b) - Middle2(a)) < 3 * SumFunction(heights)

\* Mutant: the upper title is left out.
NewGroup_Lower == <<first[i + 1]>>

NewGroup == <<first[i], first[i + 1]>>

\* One round of the loop: of two titles close to each other the second joins the
\* group that the first one ends, or both begin a group.
MergeTitle ==
    /\ pc = "merge"
    /\ i < Len(first)
    /\ result_boxes' =
          IF ~CloseTo(first[i], first[i + 1]) THEN result_boxes
          ELSE IF Last(Last(result_boxes)) = first[i]
          THEN Append(Front(result_boxes), Append(Last(result_boxes), first[i + 1]))
          ELSE Append(result_boxes, NewGroup)
    /\ i' = i + 1
    /\ UNCHANGED <<pc, page, scan_vars, first, result, calls>>

\* The rectangles around the groups are dropped by analyst.
ReturnTitles ==
    /\ pc = "merge"
    /\ i >= Len(first)
    /\ pc' = "idle"
    /\ UNCHANGED <<page, scan_vars, merge_vars, result, calls>>

-----------------------------------------------------------------------------

Init ==
    /\ pc = "idle"
    /\ page = [w |-> 1, base |-> 0, lines |-> <<>>]
    /\ level = 0
    /\ coord = <<>>
    /\ m = 1
    /\ tmp_left_idx = 1
    /\ tmp_right_idx = 1
    /\ tag = <<>>
    /\ first = <<>>
    /\ i = 1
    /\ result_boxes = <<>>
    /\ result = Nothing
    /\ calls = 0

Next ==
    \/ \E p \in Pages : AnalystNoLine(p) \/ Analyst(p)
    \/ Measure \/ OpenLevel \/ ScanColumn \/ CloseLevel
    \/ ReturnOneTitle \/ Classify \/ MergeTitle \/ ReturnTitles

Spec == Init /\ [][Next]_vars

-----------------------------------------------------------------------------

\* The types of the variables: the indices lie within coord, a tag is longer than
\* SHORT_TAG and its columns are as far apart as its indices or further.
TypeOK ==
    /\ pc \in {"idle", "measure", "level", "scan", "merge"}
    /\ coord \in Seq(Nat)
    /\ m \in Nat \ {0}
    /\ {tmp_left_idx, tmp_right_idx} \subseteq 1 .. m
    /\ pc = "scan" /\ coord # <<>> => tmp_left_idx <= tmp_right_idx /\ m <= Len(coord)
    /\ \A n \in DOMAIN tag :
          tag[n].len > SHORT_TAG /\ tag[n].right - tag[n].left >= tag[n].len

\* Columns a to b hold l lines each.
Region(a, b, l) == a <= b /\ \A c \in a .. b : tag_result(c) = l

\* Every region of neighbouring columns that is longer than SHORT_TAG and holds
\* the same number of lines throughout lies within a tag of that number: the scan
\* of tag_analyst, whose last interval is looked at behind the loop, loses none.
LongRegionsTagged ==
    pc \in {"level", "merge"} =>
        \A a, b \in 0 .. page.w - 1 : \A l \in 1 .. level :
            b - a > SHORT_TAG /\ Region(a, b, l) =>
                \E n \in DOMAIN tag :
                    tag[n].level = l /\ tag[n].left <= a /\ b <= tag[n].right

\* Two tags of one level have at most an end in common, and no two tags of any
\* levels begin in the same column: their order in sorted_tag is never left open.
TagsApart ==
    \A n, k \in DOMAIN tag : n < k =>
        /\ tag[n].left # tag[k].left
        /\ tag[n].level = tag[k].level => tag[n].right <= tag[k].left

\* Neighbouring titles that are close to each other end up in one group, whatever
\* the loop of first_tag_merge did with the ones before.
CloseTogether ==
    pc = "merge" =>
        \A n \in 1 .. i - 1 : CloseTo(first[n], first[n + 1]) =>
            \E k \in DOMAIN result_boxes : {first[n], first[n + 1]} \subseteq Range(result_boxes[k])

\* The comment in tag_analyst: a tag is a connected region.
TagsConnected ==
    \A n \in DOMAIN tag : Region(tag[n].left, tag[n].right, tag[n].level)
=============================================================================
