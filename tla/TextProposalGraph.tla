------------------------- MODULE TextProposalGraph -------------------------
(***************************************************************************)
(* How text proposals are chained into lines: TextProposalGraphBuilder     *)
(* (text_connector/text_proposal_graph_builder.py) and                      *)
(* Graph.sub_graphs_connected (text_connector/other.py).  One builder lives *)
(* as long as the detector and is called for image after image; its table   *)
(* of columns is kept from call to call and reset only up to the width of   *)
(* the image.                                                               *)
(*                                                                         *)
(* A proposal is a record: x is the integer part of its left edge, top and  *)
(* bottom its vertical extent, score its score.  Indices start at 1.        *)
(***************************************************************************)
EXTENDS Integers, Sequences

CONSTANTS
    TABLE_SIZE,          \* the columns of boxes_table
    MAX_HORIZONTAL_GAP,
    PERCENT,             \* MIN_V_OVERLAPS and MIN_SIZE_SIM, in percent
    Calls,               \* what detect() may pass: records of boxes and width
    MAX_WORK             \* bound on the images and their proposals together

Boxes == [x : Nat, top : Nat, bottom : Nat, score : Nat]

ASSUME ConstantsAssumption ==
    /\ TABLE_SIZE \in Nat
    /\ MAX_HORIZONTAL_GAP \in Nat \ {0}
    /\ PERCENT \in Nat
    /\ MAX_WORK \in Nat

\* proposal_layer clips the boxes to the image, and resize_image keeps the
\* image narrower than the table.
ASSUME CallsAssumption ==
    /\ Calls \subseteq [boxes : Seq(Boxes), width : 0..TABLE_SIZE]
    /\ \A c \in Calls : \A i \in 1..Len(c.boxes) :
          /\ c.boxes[i].x < c.width
          /\ c.boxes[i].top <= c.boxes[i].bottom

VARIABLES
    pc,              \* "idle", "link", "group" or "walk"
    boxes_table,     \* column -> indices of the proposals that start there
    text_proposals,
    width,           \* im_size[1]
    graph,           \* the pairs that are True in the matrix
    index,           \* the loops' variable
    sub_graphs,      \* the chains found so far
    work             \* history: the images seen and their proposals

vars == <<pc, boxes_table, text_proposals, width, graph, index, sub_graphs, work>>

Columns == 0..(TABLE_SIZE - 1)
Indices == 1..Len(text_proposals)
X(i)     == text_proposals[i].x
Score(i) == text_proposals[i].score

-----------------------------------------------------------------------------
(* The geometry.                                                             *)

Least(a, b)    == IF a <= b THEN a ELSE b
Greatest(a, b) == IF a >= b THEN a ELSE b

Height(b) == b.bottom - b.top + 1

overlaps_v(b1, b2) ==
    LET y0 == Greatest(b1.top, b2.top)
        y1 == Least(b1.bottom, b2.bottom)
    IN  100 * Greatest(0, y1 - y0 + 1) >= PERCENT * Least(Height(b1), Height(b2))

size_similarity(b1, b2) ==
    100 * Least(Height(b1), Height(b2)) >= PERCENT * Greatest(Height(b1), Height(b2))

meet_v_iou(i, j) ==
    /\ overlaps_v(text_proposals[i], text_proposals[j])
    /\ size_similarity(text_proposals[i], text_proposals[j])

-----------------------------------------------------------------------------
(* build_graph.                                                              *)

Hits(column, i) == {j \in boxes_table[column] : meet_v_iou(j, i)}

\* Mutant: the range begins with the box's own column.
RightOf_OwnColumn(i) == X(i)..Least(X(i) + MAX_HORIZONTAL_GAP, width - 1)

\* The columns that get_successions may look at, from left to right.
RightOf(i) == (X(i) + 1)..Least(X(i) + MAX_HORIZONTAL_GAP, width - 1)

\* Mutant: the loop goes on after the first column with hits.
get_successions_All(i) == UNION {Hits(column, i) : column \in RightOf(i)}

\* The hits in the first of them that has any.
get_successions(i) ==
    UNION {Hits(column, i) : column \in
              {c \in RightOf(i) : \A d \in RightOf(i) : d < c => Hits(d, i) = {}}}

\* Mutant: the range ends one column too early.
LeftOf_Short(i) == Greatest(X(i) - MAX_HORIZONTAL_GAP + 1, 0)..(X(i) - 1)

\* The columns that get_precursors may look at, from right to left.
LeftOf(i) == Greatest(X(i) - MAX_HORIZONTAL_GAP, 0)..(X(i) - 1)

get_precursors(i) ==
    UNION {Hits(column, i) : column \in
              {c \in LeftOf(i) : \A d \in LeftOf(i) : d > c => Hits(d, i) = {}}}

\* argmax: the first index with the highest score, if there is any index.
ArgMax(S) ==
    {j \in S : \A k \in S : Score(k) < Score(j) \/ (Score(k) = Score(j) /\ j <= k)}

is_succession_node(i, j) == \A k \in get_precursors(j) : Score(i) >= Score(k)

\* Mutant: the last column of the image is not reset.
ResetColumns_LastKept(w) ==
    [c \in Columns |-> IF c < w - 1 THEN {} ELSE boxes_table[c]]

\* The columns beyond the width of the new image keep what they had.
ResetColumns(w) == [c \in Columns |-> IF c < w THEN {} ELSE boxes_table[c]]

\* Every proposal is appended to the column it starts in.
NewTable(boxes, w) ==
    [c \in Columns |-> ResetColumns(w)[c] \cup {i \in 1..Len(boxes) : boxes[i].x = c}]

\* Mutant: the matrix is kept as well.
NewMatrix_Kept == graph

NewMatrix == {}

BuildGraph(call) ==
    /\ pc = "idle"
    /\ work + 1 + Len(call.boxes) <= MAX_WORK
    /\ work' = work + 1 + Len(call.boxes)
    /\ text_proposals' = call.boxes
    /\ width' = call.width
    /\ boxes_table' = NewTable(call.boxes, call.width)
    /\ graph' = NewMatrix
    /\ sub_graphs' = <<>>
    /\ index' = 1
    /\ pc' = "link"

\* One round of the loop over the proposals.
Link ==
    /\ pc = "link"
    /\ index \in Indices
    /\ graph' = graph \cup {<<index, j>> : j \in
                   {k \in ArgMax(get_successions(index)) : is_succession_node(index, k)}}
    /\ index' = index + 1
    /\ UNCHANGED <<pc, boxes_table, text_proposals, width, sub_graphs, work>>

LinkDone ==
    /\ pc = "link"
    /\ index \notin Indices
    /\ index' = 1
    /\ pc' = "group"
    /\ UNCHANGED <<boxes_table, text_proposals, width, graph, sub_graphs, work>>

-----------------------------------------------------------------------------
(* sub_graphs_connected.                                                     *)

After(i)  == {j \in Indices : <<i, j>> \in graph}
Before(i) == {j \in Indices : <<j, i>> \in graph}

IsHead(i) == Before(i) = {} /\ After(i) # {}

\* A proposal that nothing leads to and that leads on begins a chain.
Group ==
    /\ pc = "group"
    /\ index \in Indices
    /\ \/ /\ IsHead(index)
          /\ sub_graphs' = Append(sub_graphs, <<index>>)
          /\ pc' = "walk"
          /\ UNCHANGED index
       \/ /\ ~IsHead(index)
          /\ index' = index + 1
          /\ UNCHANGED <<pc, sub_graphs>>
    /\ UNCHANGED <<boxes_table, text_proposals, width, graph, work>>

Chain == sub_graphs[Len(sub_graphs)]
V     == Chain[Len(Chain)]

\* Mutant: the column of the matrix is followed.
Row_Column == Before(V)

Row == After(V)   \* of the last proposal of the chain

\* The while loop: follow the first True of the row until there is none.
Walk ==
    /\ pc = "walk"
    /\ \/ \E j \in Row :
             /\ \A k \in Row : j <= k
             /\ sub_graphs' = [sub_graphs EXCEPT ![Len(sub_graphs)] = Append(@, j)]
             /\ UNCHANGED <<pc, index>>
       \/ /\ Row = {}
          /\ index' = index + 1
          /\ pc' = "group"
          /\ UNCHANGED sub_graphs
    /\ UNCHANGED <<boxes_table, text_proposals, width, graph, work>>

GroupDone ==
    /\ pc = "group"
    /\ index \notin Indices
    /\ pc' = "idle"
    /\ UNCHANGED <<boxes_table, text_proposals, width, graph, index, sub_graphs, work>>

Init ==
    /\ pc = "idle"
    /\ boxes_table = [c \in Columns |-> {}]
    /\ text_proposals = <<>>
    /\ width = 0
    /\ graph = {}
    /\ index = 1
    /\ sub_graphs = <<>>
    /\ work = 0

Next ==
    \/ \E call \in Calls : BuildGraph(call)
    \/ Link \/ LinkDone \/ Group \/ Walk \/ GroupDone

Spec == Init /\ [][Next]_vars

-----------------------------------------------------------------------------
(* Properties.                                                               *)

TypeOK ==
    /\ pc \in {"idle", "link", "group", "walk"}
    /\ boxes_table \in [Columns -> SUBSET Nat]
    /\ text_proposals \in Seq(Boxes)
    /\ width \in 0..TABLE_SIZE
    /\ graph \in SUBSET (Indices \X Indices)
    /\ index \in 1..(Len(text_proposals) + 1)
    /\ sub_graphs \in Seq(Seq(Indices))
    /\ work \in 0..MAX_WORK

\* What the table stands for: the proposals within reach to the right (left) of
\* i that meet it, and of these the ones in the nearest column.
Reach(i, j)    == X(i) < X(j) /\ X(j) <= X(i) + MAX_HORIZONTAL_GAP
RightHits(i)   == {j \in Indices : Reach(i, j) /\ meet_v_iou(j, i)}
NearestRight(i) == {j \in RightHits(i) : \A k \in RightHits(i) : X(j) <= X(k)}
LeftHits(i)    == {j \in Indices : Reach(j, i) /\ meet_v_iou(j, i)}
NearestLeft(i) == {j \in LeftHits(i) : \A k \in LeftHits(i) : X(k) <= X(j)}

Linked(i, j) ==
    /\ j \in ArgMax(NearestRight(i))
    /\ \A k \in NearestLeft(j) : Score(i) >= Score(k)

\* When the graph is complete it is the one of the definition without a table:
\* no stale column was read, none was missed.
GraphIsNearest ==
    pc \in {"group", "walk"} =>
        graph = {e \in Indices \X Indices : Linked(e[1], e[2])}

\* is_succession_node takes the maximum over the precursors: there is one
\* whenever it is called, for the two ranges of columns are mirror images.
PrecursorsExist ==
    pc = "link" /\ index \in Indices =>
        \A j \in get_successions(index) : get_precursors(j) # {}

\* Every link leads to the right, by no more than the gap, and a proposal has
\* one successor at most: the walk of sub_graphs_connected ends.
EdgesGoRight ==
    \A e \in graph :
        /\ Reach(e[1], e[2])
        /\ \A f \in graph : e[1] = f[1] => e[2] = f[2]

\* Two proposals lead to the same one, and their chains share what follows, only
\* where nothing prefers one of them: in the nearest column their scores are
\* equal; in different columns they do not meet each other.
ChainsMeet ==
    \A e, f \in graph : e # f /\ e[2] = f[2] =>
        /\ {e[1], f[1]} \subseteq NearestLeft(e[2]) => Score(e[1]) = Score(f[1])
        /\ X(e[1]) # X(f[1]) => ~meet_v_iou(e[1], f[1])

\* The chains are all there is: every proposal that is linked to another one is
\* in a chain, chains follow links, and no proposal comes twice in one.
ChainsCover ==
    pc = "idle" =>
        LET InChain(i) == \E n \in 1..Len(sub_graphs) :
                             \E m \in 1..Len(sub_graphs[n]) : sub_graphs[n][m] = i
        IN  /\ \A i \in Indices : InChain(i) <=> After(i) \cup Before(i) # {}
            /\ \A n \in 1..Len(sub_graphs) : \A m \in 1..(Len(sub_graphs[n]) - 1) :
                  /\ <<sub_graphs[n][m], sub_graphs[n][m + 1]>> \in graph
                  /\ \A k \in 1..m : sub_graphs[n][k] # sub_graphs[n][m + 1]
=============================================================================
