---------------------- MODULE TextProposalGraphProofs ----------------------
(***************************************************************************)
(* The text proposal graph for images of any width, any number of          *)
(* proposals and any number of calls of one builder.                        *)
(***************************************************************************)
EXTENDS TextProposalGraph, WellFoundedInduction, TLAPS

\* The part of the type invariant the argument needs, with the clipping of the
\* proposals to the image.
ShapeInv ==
    /\ pc \in {"idle", "link", "group", "walk"}
    /\ boxes_table \in [Columns -> SUBSET Nat]
    /\ text_proposals \in Seq(Boxes)
    /\ width \in 0..TABLE_SIZE
    /\ index \in Nat \ {0}
    /\ \A i \in Indices : X(i) < width

\* The columns of the image hold the proposals of this image and nothing that
\* an earlier, wider one left behind.
TableFresh ==
    \A c \in Columns : c < width => boxes_table[c] = {i \in Indices : X(i) = c}

AllLinks == {e \in Indices \X Indices : Linked(e[1], e[2])}

\* The loop has linked the proposals before index, and then all of them.
GraphInv ==
    graph = IF pc = "link" THEN {e \in AllLinks : e[1] < index} ELSE AllLinks

IInv == ShapeInv /\ TableFresh /\ GraphInv

-----------------------------------------------------------------------------

\* Proposals have natural coordinates and scores.
LEMMA Coordinates ==
    ASSUME ShapeInv, NEW i \in Indices
    PROVE  X(i) \in Nat /\ Score(i) \in Nat /\ i \in Nat
<1>1. text_proposals[i] \in Boxes
  BY DEF ShapeInv, Indices
<1>2. i \in Nat
  BY DEF ShapeInv, Indices
<1> QED BY <1>1, <1>2 DEF X, Score, Boxes

\* A column of the image holds the proposals that start there.
LEMMA FreshHits ==
    ASSUME ShapeInv, TableFresh, NEW i \in Indices, NEW c \in Columns, c < width
    PROVE  Hits(c, i) = {j \in Indices : X(j) = c /\ meet_v_iou(j, i)}
BY DEF TableFresh, Hits

\* Scanning the columns to the right finds the nearest proposals that meet i.
LEMMA SuccessionsCorrect ==
    ASSUME ShapeInv, TableFresh, NEW i \in Indices
    PROVE  get_successions(i) = NearestRight(i)
<1> USE ConstantsAssumption
<1>1. X(i) \in Nat /\ width \in Nat /\ width <= TABLE_SIZE
  BY Coordinates DEF ShapeInv
<1>2. \A c : c \in RightOf(i) <=>
          c \in Nat /\ X(i) < c /\ c <= X(i) + MAX_HORIZONTAL_GAP /\ c < width
  BY <1>1 DEF RightOf, Least
<1>3. \A c \in RightOf(i) : Hits(c, i) = {j \in Indices : X(j) = c /\ meet_v_iou(j, i)}
  BY <1>1, <1>2, FreshHits DEF Columns
<1>4. \A j \in Indices : X(j) \in Nat /\ X(j) < width
  BY Coordinates DEF ShapeInv
<1>5. \A j \in RightHits(i) : X(j) \in RightOf(i) /\ j \in Hits(X(j), i)
  BY <1>2, <1>3, <1>4 DEF RightHits, Reach
<1>6. \A c \in RightOf(i) : \A j \in Hits(c, i) : j \in RightHits(i) /\ X(j) = c
  BY <1>2, <1>3 DEF RightHits, Reach
<1>7. ASSUME NEW j \in get_successions(i) PROVE j \in NearestRight(i)
  <2>1. PICK c \in RightOf(i) : /\ \A d \in RightOf(i) : d < c => Hits(d, i) = {}
                                /\ j \in Hits(c, i)
    BY <1>7 DEF get_successions
  <2>2. j \in RightHits(i) /\ X(j) = c
    BY <2>1, <1>6
  <2>3. ASSUME NEW k \in RightHits(i) PROVE X(j) <= X(k)
    <3>1. X(k) \in RightOf(i) /\ Hits(X(k), i) # {}
      BY <1>5
    <3>2. ~(X(k) < c)
      BY <2>1, <3>1
    <3>3. X(k) \in Nat /\ c \in Nat
      BY <1>2, <3>1
    <3> QED BY <2>2, <3>2, <3>3
  <2> QED BY <2>2, <2>3 DEF NearestRight
<1>8. ASSUME NEW j \in NearestRight(i) PROVE j \in get_successions(i)
  <2>1. j \in RightHits(i) /\ \A k \in RightHits(i) : X(j) <= X(k)
    BY DEF NearestRight
  <2>2. X(j) \in RightOf(i) /\ j \in Hits(X(j), i)
    BY <2>1, <1>5
  <2>3. ASSUME NEW d \in RightOf(i), d < X(j) PROVE Hits(d, i) = {}
    <3>1. SUFFICES ASSUME NEW k \in Hits(d, i) PROVE FALSE
      OBVIOUS
    <3>2. k \in RightHits(i) /\ X(k) = d
      BY <1>6
    <3>3. X(j) <= d
      BY <2>1, <3>2
    <3>4. X(j) \in Nat /\ d \in Nat
      BY <1>2, <2>2
    <3> QED BY <2>3, <3>3, <3>4
  <2> QED BY <2>2, <2>3 DEF get_successions
<1> QED BY <1>7, <1>8

\* Scanning the columns to the left finds the nearest ones on that side.
LEMMA PrecursorsCorrect ==
    ASSUME ShapeInv, TableFresh, NEW i \in Indices
    PROVE  get_precursors(i) = NearestLeft(i)
<1> USE ConstantsAssumption
<1>1. X(i) \in Nat /\ X(i) < width /\ width \in Nat /\ width <= TABLE_SIZE
  BY Coordinates DEF ShapeInv
<1>2. \A c : c \in LeftOf(i) <=>
          c \in Nat /\ c < X(i) /\ X(i) <= c + MAX_HORIZONTAL_GAP
  BY <1>1 DEF LeftOf, Greatest
<1>3. \A c \in LeftOf(i) : Hits(c, i) = {j \in Indices : X(j) = c /\ meet_v_iou(j, i)}
  BY <1>1, <1>2, FreshHits DEF Columns
<1>4. \A j \in Indices : X(j) \in Nat
  BY Coordinates
<1>5. \A j \in LeftHits(i) : X(j) \in LeftOf(i) /\ j \in Hits(X(j), i)
  BY <1>2, <1>3, <1>4 DEF LeftHits, Reach
<1>6. \A c \in LeftOf(i) : \A j \in Hits(c, i) : j \in LeftHits(i) /\ X(j) = c
  BY <1>2, <1>3 DEF LeftHits, Reach
<1>7. ASSUME NEW j \in get_precursors(i) PROVE j \in NearestLeft(i)
  <2>1. PICK c \in LeftOf(i) : /\ \A d \in LeftOf(i) : d > c => Hits(d, i) = {}
                               /\ j \in Hits(c, i)
    BY <1>7 DEF get_precursors
  <2>2. j \in LeftHits(i) /\ X(j) = c
    BY <2>1, <1>6
  <2>3. ASSUME NEW k \in LeftHits(i) PROVE X(k) <= X(j)
    <3>1. X(k) \in LeftOf(i) /\ Hits(X(k), i) # {}
      BY <1>5
    <3>2. ~(X(k) > c)
      BY <2>1, <3>1
    <3>3. X(k) \in Nat /\ c \in Nat
      BY <1>2, <3>1
    <3> QED BY <2>2, <3>2, <3>3
  <2> QED BY <2>2, <2>3 DEF NearestLeft
<1>8. ASSUME NEW j \in NearestLeft(i) PROVE j \in get_precursors(i)
  <2>1. j \in LeftHits(i) /\ \A k \in LeftHits(i) : X(k) <= X(j)
    BY DEF NearestLeft
  <2>2. X(j) \in LeftOf(i) /\ j \in Hits(X(j), i)
    BY <2>1, <1>5
  <2>3. ASSUME NEW d \in LeftOf(i), d > X(j) PROVE Hits(d, i) = {}
    <3>1. SUFFICES ASSUME NEW k \in Hits(d, i) PROVE FALSE
      OBVIOUS
    <3>2. k \in LeftHits(i) /\ X(k) = d
      BY <1>6
    <3>3. d <= X(j)
      BY <2>1, <3>2
    <3>4. X(j) \in Nat /\ d \in Nat
      BY <1>2, <2>2
    <3> QED BY <2>3, <3>3, <3>4
  <2> QED BY <2>2, <2>3 DEF get_precursors
<1> QED BY <1>7, <1>8

\* What round i of the loop in build_graph adds are the links of i.
LEMMA RoundCorrect ==
    ASSUME ShapeInv, TableFresh, NEW i \in Indices
    PROVE  {k \in ArgMax(get_successions(i)) : is_succession_node(i, k)}
              = {k \in Indices : Linked(i, k)}
<1>1. get_successions(i) = NearestRight(i) /\ NearestRight(i) \subseteq Indices
  BY SuccessionsCorrect DEF NearestRight, RightHits
<1>2. \A k \in Indices : get_precursors(k) = NearestLeft(k)
  BY PrecursorsCorrect
<1>3. ArgMax(NearestRight(i)) \subseteq Indices
  BY <1>1 DEF ArgMax
<1>4. \A k \in Indices : is_succession_node(i, k) <=>
                            \A m \in NearestLeft(k) : Score(i) >= Score(m)
  BY <1>2 DEF is_succession_node
<1> QED BY <1>1, <1>3, <1>4 DEF Linked

\* Links depend on the proposals alone.
LEMMA LinksStable ==
    ASSUME UNCHANGED text_proposals
    PROVE  AllLinks' = AllLinks /\ Indices' = Indices
BY DEF AllLinks, Linked, ArgMax, NearestRight, NearestLeft, RightHits, LeftHits,
       Reach, meet_v_iou, X, Score, Indices

-----------------------------------------------------------------------------

\* A new builder has an empty table and no proposals.
LEMMA InitIInv == Init => IInv
<1> SUFFICES ASSUME Init PROVE IInv
  OBVIOUS
<1>1. Indices = {}
  BY DEF Init, Indices
<1>2. ShapeInv
  BY <1>1, ConstantsAssumption DEF Init, ShapeInv
<1>3. TableFresh
  BY <1>1 DEF Init, TableFresh
<1>4. GraphInv
  BY <1>1 DEF Init, GraphInv, AllLinks
<1> QED BY <1>2, <1>3, <1>4 DEF IInv

\* build_graph, sub_graphs_connected and all their steps preserve IInv.
LEMMA NextIInv == IInv /\ [Next]_vars => IInv'
<1> SUFFICES ASSUME IInv, [Next]_vars PROVE IInv'
  OBVIOUS
<1>1. ASSUME NEW call \in Calls, BuildGraph(call) PROVE IInv'
  <2>1. /\ call.boxes \in Seq(Boxes)
        /\ call.width \in 0..TABLE_SIZE
        /\ \A i \in 1..Len(call.boxes) : call.boxes[i].x < call.width
    BY CallsAssumption
  <2>2. Indices' = 1..Len(call.boxes) /\ \A i : X(i)' = call.boxes[i].x
    BY <1>1 DEF BuildGraph, NewMatrix, Indices, X
  <2>3. \A c \in Columns : boxes_table'[c] =
           (IF c < call.width THEN {} ELSE boxes_table[c])
              \cup {i \in 1..Len(call.boxes) : call.boxes[i].x = c}
    BY <1>1 DEF BuildGraph, NewMatrix, NewTable, ResetColumns
  <2>4. boxes_table' \in [Columns -> SUBSET Nat]
    <3>1. 1..Len(call.boxes) \subseteq Nat
      BY <2>1
    <3> QED BY <1>1, <3>1 DEF BuildGraph, NewMatrix, NewTable, ResetColumns, IInv, ShapeInv
  <2>5. ShapeInv'
    BY <1>1, <2>1, <2>2, <2>4 DEF BuildGraph, NewMatrix, ShapeInv
  <2>6. TableFresh'
    BY <1>1, <2>2, <2>3 DEF BuildGraph, NewMatrix, TableFresh
  <2>7. GraphInv'
    <3>1. \A e \in AllLinks' : e[1] \in Nat \ {0}
      BY <2>1, <2>2 DEF AllLinks
    <3>2. {e \in AllLinks' : e[1] < 1} = {}
      BY <3>1
    <3> QED BY <1>1, <3>2 DEF BuildGraph, NewMatrix, GraphInv
  <2> QED BY <2>5, <2>6, <2>7 DEF IInv
<1>2. CASE Link
  <2>1. index \in Indices /\ index \in Nat /\ UNCHANGED text_proposals
    BY <1>2 DEF Link, IInv, ShapeInv
  <2>2. ShapeInv' /\ TableFresh'
    BY <1>2, <2>1 DEF Link, IInv, ShapeInv, TableFresh, Indices, X
  <2>3. graph' = graph \cup {<<index, j>> : j \in {k \in Indices : Linked(index, k)}}
    BY <1>2, <2>1, RoundCorrect DEF Link, IInv
  <2>4. graph = {e \in AllLinks : e[1] < index}
    BY <1>2 DEF Link, IInv, GraphInv
  <2>5. \A e \in AllLinks : e[1] \in Nat
    BY DEF AllLinks, IInv, ShapeInv, Indices
  <2>6. {<<index, j>> : j \in {k \in Indices : Linked(index, k)}}
           = {e \in AllLinks : e[1] = index}
    <3>1. ASSUME NEW k \in Indices, Linked(index, k)
          PROVE  <<index, k>> \in AllLinks /\ <<index, k>>[1] = index
      BY <2>1, <3>1 DEF AllLinks
    <3>2. ASSUME NEW e \in AllLinks, e[1] = index
          PROVE  e[2] \in Indices /\ Linked(index, e[2]) /\ e = <<index, e[2]>>
      BY <3>2 DEF AllLinks
    <3> QED BY <3>1, <3>2
  <2>7. graph' = {e \in AllLinks : e[1] < index + 1}
    BY <2>1, <2>3, <2>4, <2>5, <2>6
  <2>8. GraphInv'
    BY <1>2, <2>1, <2>7, LinksStable DEF Link, GraphInv
  <2> QED BY <2>2, <2>8 DEF IInv
<1>3. CASE LinkDone
  <2>1. UNCHANGED text_proposals
    BY <1>3 DEF LinkDone
  <2>2. ShapeInv' /\ TableFresh'
    BY <1>3 DEF LinkDone, IInv, ShapeInv, TableFresh, Indices, X
  <2>3. \A e \in AllLinks : e[1] < index
    BY <1>3 DEF LinkDone, IInv, ShapeInv, AllLinks, Indices
  <2>4. graph = AllLinks
    BY <1>3, <2>3 DEF LinkDone, IInv, GraphInv
  <2>5. GraphInv'
    BY <1>3, <2>1, <2>4, LinksStable DEF LinkDone, GraphInv
  <2> QED BY <2>2, <2>5 DEF IInv
<1>4. CASE Group \/ Walk \/ GroupDone \/ UNCHANGED vars
  <2>1. /\ UNCHANGED <<boxes_table, text_proposals, width, graph>>
        /\ index' \in Nat \ {0}
        /\ pc' \in {"idle", "link", "group", "walk"}
        /\ pc' # pc => pc # "link" /\ pc' # "link"
        /\ pc = "link" => index' = index
    BY <1>4 DEF Group, Walk, Row, GroupDone, vars, IInv, ShapeInv
  <2>2. ShapeInv' /\ TableFresh'
    BY <2>1 DEF IInv, ShapeInv, TableFresh, Indices, X
  <2>3. GraphInv'
    BY <2>1, LinksStable DEF IInv, GraphInv
  <2> QED BY <2>2, <2>3 DEF IInv
<1> QED BY <1>1, <1>2, <1>3, <1>4 DEF Next

\* The strengthened invariant holds in every reachable state.
THEOREM Invariant == Spec => []IInv
BY InitIInv, NextIInv, PTL DEF Spec

\* Links lead to the right, and a proposal has one at most.
LEMMA EdgesRight == IInv => EdgesGoRight
<1>1. SUFFICES ASSUME IInv, NEW e \in graph
               PROVE  /\ Reach(e[1], e[2])
                      /\ \A f \in graph : e[1] = f[1] => e[2] = f[2]
  BY DEF EdgesGoRight
<1>2. \A f \in graph : /\ f[1] \in Indices /\ f[2] \in Indices
                       /\ f[2] \in ArgMax(NearestRight(f[1]))
  <2>1. graph \subseteq AllLinks
    BY <1>1 DEF IInv, GraphInv
  <2> QED BY <2>1 DEF AllLinks, Linked
<1>3. Reach(e[1], e[2])
  BY <1>2 DEF ArgMax, NearestRight, RightHits
<1>4. ASSUME NEW f \in graph, e[1] = f[1] PROVE e[2] = f[2]
  <2>1. /\ e[2] \in ArgMax(NearestRight(e[1])) /\ e[2] \in Indices
        /\ f[2] \in ArgMax(NearestRight(e[1])) /\ f[2] \in Indices
    BY <1>2, <1>4
  <2>2. /\ e[2] \in Nat /\ Score(e[2]) \in Nat
        /\ f[2] \in Nat /\ Score(f[2]) \in Nat
    BY <1>1, <2>1, Coordinates DEF IInv
  <2>3. e[2] <= f[2] /\ f[2] <= e[2]
    BY <2>1, <2>2 DEF ArgMax
  <2> QED BY <2>2, <2>3
<1> QED BY <1>3, <1>4

-----------------------------------------------------------------------------

\* The graph is the one of the definition that knows no table.
THEOREM GraphIsCorrect == Spec => []GraphIsNearest
<1>1. IInv => GraphIsNearest
  BY DEF IInv, GraphInv, GraphIsNearest, AllLinks
<1> QED BY <1>1, Invariant, PTL

-----------------------------------------------------------------------------
(* The two ranges of columns.                                                *)

\* Every set of numbers that is not empty has a least element.
LEMMA LeastNumber ==
    ASSUME NEW S \in SUBSET Nat, S # {}
    PROVE  \E n \in S : \A k \in S : n <= k
<1>1. IsWellFoundedOn(OpToRel(<, Nat), Nat)
  BY NatLessThanWellFounded
<1>2. PICK n \in S : \A k \in S : ~(<<k, n>> \in OpToRel(<, Nat))
  BY <1>1, WFMin
<1>3. \A k \in S : ~(k < n)
  BY <1>2 DEF OpToRel
<1> QED BY <1>3

\* The conditions of meet_v_iou do not depend on the order of the two boxes.
LEMMA MeetSymmetric ==
    ASSUME ShapeInv, NEW i \in Indices, NEW j \in Indices, meet_v_iou(i, j)
    PROVE  meet_v_iou(j, i)
<1>1. text_proposals[i] \in Boxes /\ text_proposals[j] \in Boxes
  BY DEF ShapeInv, Indices
<1>2. \A a, b \in Int : Greatest(a, b) = Greatest(b, a) /\ Least(a, b) = Least(b, a)
  BY DEF Greatest, Least
<1>3. \A b \in Boxes : b.top \in Nat /\ b.bottom \in Nat /\ Height(b) \in Int
  BY DEF Boxes, Height
<1>4. overlaps_v(text_proposals[j], text_proposals[i])
  BY <1>1, <1>2, <1>3 DEF meet_v_iou, overlaps_v
<1>5. size_similarity(text_proposals[j], text_proposals[i])
  BY <1>1, <1>2, <1>3 DEF meet_v_iou, size_similarity
<1> QED BY <1>4, <1>5 DEF meet_v_iou

\* Of the proposals to the left that meet j, some are nearest: the one with the
\* least distance.
LEMMA NearestLeftExists ==
    ASSUME ShapeInv, NEW j \in Indices, NEW i \in LeftHits(j)
    PROVE  NearestLeft(j) # {}
<1> DEFINE D == {X(j) - X(k) : k \in LeftHits(j)}
<1>1. \A k \in LeftHits(j) : k \in Indices /\ X(k) \in Nat /\ X(k) < X(j)
  BY Coordinates DEF LeftHits, Reach
<1>2. X(j) \in Nat
  BY Coordinates
<1>3. D \in SUBSET Nat /\ D # {}
  BY <1>1, <1>2
<1>4. PICK d \in D : \A e \in D : d <= e
  BY <1>3, LeastNumber
<1>5. PICK k \in LeftHits(j) : d = X(j) - X(k)
  BY <1>4
<1>6. \A n \in LeftHits(j) : X(n) <= X(k)
  BY <1>1, <1>2, <1>4, <1>5
<1> QED BY <1>5, <1>6 DEF NearestLeft

\* A succession has the proposal that it was found from within its own reach to
\* the left: max() in is_succession_node is never taken of an empty sequence.
THEOREM MaximumExists == Spec => []PrecursorsExist
<1>1. IInv => PrecursorsExist
  <2> SUFFICES ASSUME IInv, index \in Indices, NEW j \in get_successions(index)
               PROVE  get_precursors(j) # {}
    BY DEF PrecursorsExist
  <2>1. ShapeInv /\ TableFresh
    BY DEF IInv
  <2>2. j \in RightHits(index)
    BY <2>1, SuccessionsCorrect DEF NearestRight
  <2>3. j \in Indices /\ Reach(index, j) /\ meet_v_iou(j, index)
    BY <2>2 DEF RightHits
  <2>4. index \in LeftHits(j)
    BY <2>1, <2>3, MeetSymmetric DEF LeftHits
  <2>5. NearestLeft(j) # {}
    BY <2>1, <2>3, <2>4, NearestLeftExists
  <2> QED BY <2>1, <2>3, <2>5, PrecursorsCorrect
<1> QED BY <1>1, Invariant, PTL

\* Links lead to the right and each proposal has one at most, so that the while
\* loop of sub_graphs_connected meets no proposal twice.
THEOREM LinksGoRight == Spec => []EdgesGoRight
BY EdgesRight, Invariant, PTL

\* Two chains run into one proposal only from the nearest column with equal
\* scores, or from two columns whose proposals do not meet: a proposal between
\* the two that met the first would have been its succession.
THEOREM ChainsMeetOnTies == Spec => []ChainsMeet
<1>1. IInv => ChainsMeet
  <2> SUFFICES ASSUME IInv, NEW e \in graph, NEW f \in graph, e[2] = f[2]
               PROVE  /\ {e[1], f[1]} \subseteq NearestLeft(e[2]) =>
                            Score(e[1]) = Score(f[1])
                      /\ X(e[1]) # X(f[1]) => ~meet_v_iou(e[1], f[1])
    BY DEF ChainsMeet
  <2>1. ShapeInv /\ graph \subseteq AllLinks
    BY DEF IInv, GraphInv
  <2>2. ASSUME NEW l \in graph
        PROVE  /\ l[1] \in Indices /\ l[2] \in Indices
               /\ l[2] \in NearestRight(l[1])
               /\ \A k \in NearestLeft(l[2]) : Score(l[1]) >= Score(k)
    BY <2>1 DEF AllLinks, Linked, ArgMax
  <2>3. \A i \in Indices : X(i) \in Nat /\ Score(i) \in Nat
    BY <2>1, Coordinates
  <2>4. ASSUME {e[1], f[1]} \subseteq NearestLeft(e[2])
        PROVE  Score(e[1]) = Score(f[1])
    <3>1. Score(e[1]) >= Score(f[1]) /\ Score(f[1]) >= Score(e[1])
      BY <2>2, <2>4
    <3> QED BY <2>2, <2>3, <3>1
  <2>5. ASSUME NEW l \in graph, NEW m \in graph, l[2] = m[2], X(l[1]) < X(m[1])
        PROVE  ~meet_v_iou(m[1], l[1])
    <3>1. SUFFICES ASSUME meet_v_iou(m[1], l[1]) PROVE FALSE
      OBVIOUS
    <3>2. Reach(l[1], l[2]) /\ Reach(m[1], l[2])
      BY <2>2, <2>5 DEF NearestRight, RightHits
    <3>3. Reach(l[1], m[1])
      BY <2>2, <2>3, <2>5, <3>2, ConstantsAssumption DEF Reach
    <3>4. m[1] \in RightHits(l[1])
      BY <2>2, <3>1, <3>3 DEF RightHits
    <3>5. X(l[2]) <= X(m[1])
      BY <2>2, <3>4 DEF NearestRight
    <3> QED BY <2>2, <2>3, <3>2, <3>5 DEF Reach
  <2>6. ASSUME X(e[1]) # X(f[1]), meet_v_iou(e[1], f[1]) PROVE FALSE
    <3>1. meet_v_iou(f[1], e[1])
      BY <2>1, <2>2, <2>6, MeetSymmetric
    <3>2. X(e[1]) < X(f[1]) \/ X(f[1]) < X(e[1])
      BY <2>2, <2>3, <2>6
    <3> QED BY <2>5, <2>6, <3>1, <3>2
  <2> QED BY <2>4, <2>6
<1> QED BY <1>1, Invariant, PTL

-----------------------------------------------------------------------------
(* The chains.                                                               *)

\* A chain begins with a head, follows links, and leads to the right.
IsChain(s) ==
    /\ s \in Seq(Indices) /\ s # <<>>
    /\ IsHead(s[1])
    /\ \A k \in 1..(Len(s) - 1) : <<s[k], s[k + 1]>> \in graph
    /\ \A k, n \in 1..Len(s) : k < n => X(s[k]) < X(s[n])

IsEnded(s) == After(s[Len(s)]) = {}

\* The heads that Group has passed.
Passed(i) == i < index \/ (pc = "walk" /\ i = index)

\* All chains but the one under way have ended, and every head that has been
\* passed has one.
ChainsInv ==
    /\ sub_graphs \in Seq(Seq(Indices))
    /\ \A n \in 1..Len(sub_graphs) : IsChain(sub_graphs[n])
    /\ \A n \in 1..Len(sub_graphs) :
          IsEnded(sub_graphs[n]) \/ (pc = "walk" /\ n = Len(sub_graphs))
    /\ pc = "link" => sub_graphs = <<>>
    /\ pc # "link" => \A i \in Indices : IsHead(i) /\ Passed(i) =>
          \E n \in 1..Len(sub_graphs) : sub_graphs[n][1] = i
    /\ pc = "walk" => sub_graphs # <<>> /\ index \in Indices
    /\ pc = "idle" => index \notin Indices
    /\ index \in 1..(Len(text_proposals) + 1)
    /\ work \in 0..MAX_WORK

\* What a chain is depends on the proposals and the graph alone.
LEMMA ChainsStable ==
    ASSUME UNCHANGED <<text_proposals, graph>>
    PROVE  /\ Indices' = Indices
           /\ \A i : IsHead(i)' = IsHead(i)
           /\ \A s : IsChain(s)' = IsChain(s)
           /\ \A s : IsEnded(s)' = IsEnded(s)
BY DEF IsChain, IsHead, IsEnded, After, Before, Indices, X

\* A head alone is a chain.
LEMMA HeadIsChain ==
    ASSUME ShapeInv, NEW i \in Indices, IsHead(i)
    PROVE  IsChain(<<i>>)
BY DEF IsChain

\* The walk along a link makes a longer chain.
LEMMA LongerChain ==
    ASSUME IInv, NEW s, IsChain(s), NEW j \in After(s[Len(s)])
    PROVE  IsChain(Append(s, j))
<1> DEFINE t == Append(s, j)
<1>1. /\ s \in Seq(Indices) /\ Len(s) \in Nat /\ Len(s) >= 1 /\ IsHead(s[1])
      /\ \A k \in 1..(Len(s) - 1) : <<s[k], s[k + 1]>> \in graph
      /\ \A k, n \in 1..Len(s) : k < n => X(s[k]) < X(s[n])
  BY DEF IsChain
<1>2. j \in Indices /\ <<s[Len(s)], j>> \in graph
  BY DEF After
<1>3. X(s[Len(s)]) < X(j)
  BY <1>2, EdgesRight DEF EdgesGoRight, Reach
<1>4. /\ t \in Seq(Indices) /\ Len(t) = Len(s) + 1 /\ t[Len(s) + 1] = j
      /\ \A k \in 1..Len(s) : t[k] = s[k]
  BY <1>1, <1>2
<1> HIDE DEF t
<1>5. \A k \in 1..Len(s) : s[k] \in Indices /\ X(s[k]) \in Nat
  BY <1>1, Coordinates DEF IInv
<1>6. X(j) \in Nat
  BY <1>2, Coordinates DEF IInv
<1>7. ASSUME NEW k \in 1..(Len(t) - 1) PROVE <<t[k], t[k + 1]>> \in graph
  <2>1. CASE k = Len(s)
    BY <1>1, <1>2, <1>4, <2>1
  <2>2. CASE k \in 1..(Len(s) - 1)
    BY <1>1, <1>4, <2>2
  <2> QED BY <1>1, <1>4, <2>1, <2>2
<1>8. ASSUME NEW k \in 1..Len(t), NEW n \in 1..Len(t), k < n PROVE X(t[k]) < X(t[n])
  <2>1. k \in 1..Len(s) /\ t[k] = s[k]
    BY <1>1, <1>4, <1>8
  <2>2. CASE n \in 1..Len(s)
    BY <1>1, <1>4, <1>8, <2>1, <2>2
  <2>3. CASE n = Len(s) + 1
    <3>1. k = Len(s) \/ X(s[k]) < X(s[Len(s)])
      BY <1>1, <2>1
    <3>2. Len(s) \in 1..Len(s)
      BY <1>1
    <3> QED BY <1>3, <1>4, <1>5, <1>6, <2>1, <2>3, <3>1, <3>2
  <2> QED BY <1>1, <1>4, <2>2, <2>3
<1>9. t # <<>> /\ IsHead(t[1])
  BY <1>1, <1>4
<1>10. IsChain(t)
  BY <1>4, <1>7, <1>8, <1>9 DEF IsChain
<1> QED BY <1>10 DEF t

\* A new builder has no chains.
LEMMA InitChains == Init => ChainsInv
BY ConstantsAssumption DEF Init, ChainsInv, Indices

\* The walk makes the last chain longer.
LEMMA WalkOn ==
    ASSUME IInv, ChainsInv, Walk, Row # {}
    PROVE  ChainsInv'
<1>1. PICK j \in After(V) :
         sub_graphs' = [sub_graphs EXCEPT ![Len(sub_graphs)] = Append(@, j)]
  BY DEF Walk, Row
<1>2. pc = "walk" /\ UNCHANGED <<pc, index, text_proposals, graph, work>>
  BY DEF Walk, Row
<1>3. PICK N \in Nat \ {0} : N = Len(sub_graphs)
  BY <1>2 DEF ChainsInv
<1>4. Chain = sub_graphs[N] /\ N \in 1..N /\ sub_graphs \in Seq(Seq(Indices))
  BY <1>3 DEF Chain, ChainsInv
<1>5. IsChain(Chain)
  BY <1>3, <1>4 DEF ChainsInv
<1>6. IsChain(Append(Chain, j))
  BY <1>5, LongerChain DEF V
<1>7. Chain \in Seq(Indices) /\ Chain # <<>> /\ Append(Chain, j) \in Seq(Indices)
  BY <1>5, <1>6 DEF IsChain
<1>8. /\ sub_graphs' \in Seq(Seq(Indices)) /\ Len(sub_graphs') = N
      /\ sub_graphs'[N] = Append(Chain, j)
      /\ \A n \in 1..(N - 1) : sub_graphs'[n] = sub_graphs[n]
  BY <1>1, <1>3, <1>4, <1>7
<1>9. sub_graphs'[N][1] = sub_graphs[N][1]
  <2>1. Len(Chain) \in Nat /\ Len(Chain) >= 1
    BY <1>7
  <2>2. j \in Indices
    BY <1>1 DEF After
  <2>3. Append(Chain, j)[1] = Chain[1]
    BY <1>7, <2>1, <2>2
  <2> QED BY <1>4, <1>8, <2>3
<1>10. \A n \in 1..N : n \in 1..(N - 1) \/ n = N
  OBVIOUS
<1>11. \A n \in 1..(N - 1) : IsChain(sub_graphs'[n]) /\ IsEnded(sub_graphs'[n])
  <2>1. \A n \in 1..(N - 1) : n \in 1..N /\ n # N
    OBVIOUS
  <2> QED BY <1>3, <1>8, <2>1 DEF ChainsInv
<1>12. \A n \in 1..N : IsChain(sub_graphs'[n])
  BY <1>6, <1>8, <1>10, <1>11
<1>13. \A n \in 1..N : sub_graphs'[n][1] = sub_graphs[n][1]
  BY <1>8, <1>9, <1>10
<1>14. \A i \in Indices : IsHead(i) /\ Passed(i) => \E n \in 1..N : sub_graphs'[n][1] = i
  BY <1>2, <1>3, <1>13 DEF ChainsInv
<1>15. \A i : Passed(i)' = Passed(i)
  BY <1>2 DEF Passed
<1>16. sub_graphs' # <<>>
  BY <1>8
<1> QED BY <1>2, <1>8, <1>10, <1>11, <1>12, <1>14, <1>15, <1>16, ChainsStable DEF ChainsInv

\* A proposal with a link and none before it begins a chain.
LEMMA NewChain ==
    ASSUME IInv, ChainsInv, pc = "group", index \in Indices, IsHead(index),
           sub_graphs' = Append(sub_graphs, <<index>>), pc' = "walk",
           UNCHANGED <<index, text_proposals, graph, work>>
    PROVE  ChainsInv'
<1> DEFINE N == Len(sub_graphs)
<1>1. N \in Nat /\ sub_graphs \in Seq(Seq(Indices))
  BY DEF ChainsInv
<1>2. <<index>> \in Seq(Indices) /\ IsChain(<<index>>)
  BY HeadIsChain DEF IInv
<1>3. /\ sub_graphs' \in Seq(Seq(Indices)) /\ Len(sub_graphs') = N + 1
      /\ sub_graphs'[N + 1] = <<index>>
      /\ \A n \in 1..N : sub_graphs'[n] = sub_graphs[n]
  BY <1>1, <1>2
<1>4. \A n \in 1..(N + 1) : n \in 1..N \/ n = N + 1
  BY <1>1
<1>5. \A n \in 1..N : n \in 1..(N + 1)
  BY <1>1
<1>6. N + 1 \in 1..(N + 1) /\ sub_graphs' # <<>>
  BY <1>1, <1>3
<1> HIDE DEF N
<1>7. \A n \in 1..(N + 1) : IsChain(sub_graphs'[n])
  BY <1>2, <1>3, <1>4 DEF ChainsInv, N
<1>8. \A n \in 1..N : IsEnded(sub_graphs'[n])
  BY <1>3 DEF ChainsInv, N
<1>9. \A i \in Indices : IsHead(i) /\ (i < index \/ i = index) =>
         \E n \in 1..(N + 1) : sub_graphs'[n][1] = i
  <2>1. \A i \in Indices : IsHead(i) /\ i < index => \E n \in 1..N : sub_graphs'[n][1] = i
    BY <1>3 DEF ChainsInv, Passed, N
  <2>2. sub_graphs'[N + 1][1] = index
    BY <1>3
  <2> QED BY <1>5, <1>6, <2>1, <2>2
<1> QED BY <1>3, <1>4, <1>6, <1>7, <1>8, <1>9, ChainsStable DEF ChainsInv, Passed

\* Steps that leave the chains alone and move the index past a proposal that
\* begins no chain or whose chain has ended.
LEMMA NextProposal ==
    ASSUME IInv, ChainsInv, pc \in {"group", "walk"}, index \in Indices,
           pc = "group" => ~IsHead(index),
           pc = "walk" => Row = {},
           index' = index + 1, pc' = "group",
           UNCHANGED <<sub_graphs, text_proposals, graph, work>>
    PROVE  ChainsInv'
<1>1. index \in Nat /\ Len(text_proposals) \in Nat /\ index <= Len(text_proposals)
  BY DEF IInv, ShapeInv, Indices
<1>2. \A i \in Indices : i \in Nat
  BY DEF Indices
<1>3. \A n \in 1..Len(sub_graphs) : IsEnded(sub_graphs[n])
  BY DEF ChainsInv, IsEnded, Row, V, Chain
<1>4. \A i \in Indices : IsHead(i) /\ Passed(i)' => Passed(i)
  BY <1>1, <1>2 DEF Passed
<1>5. index' \in 1..(Len(text_proposals) + 1)
  BY <1>1
<1> QED BY <1>3, <1>4, <1>5, ChainsStable DEF ChainsInv

\* Each step preserves the invariant of the chains.
LEMMA NextChains == IInv /\ ChainsInv /\ [Next]_vars => ChainsInv'
<1> SUFFICES ASSUME IInv, ChainsInv, [Next]_vars PROVE ChainsInv'
  OBVIOUS
<1>1. ASSUME NEW call \in Calls, BuildGraph(call) PROVE ChainsInv'
  <2>1. call.boxes \in Seq(Boxes) /\ Len(call.boxes) \in Nat
    BY CallsAssumption
  <2>2. /\ sub_graphs' = <<>> /\ index' = 1 /\ pc' = "link"
        /\ text_proposals' = call.boxes
        /\ work' = work + 1 + Len(call.boxes) /\ work' <= MAX_WORK
    BY <1>1 DEF BuildGraph
  <2>3. work' \in 0..MAX_WORK
    <3>1. work \in Nat
      BY DEF ChainsInv
    <3>2. PICK n \in Nat : n = Len(call.boxes)
      BY <2>1, Zenon
    <3>3. work' = work + 1 + n /\ work' <= MAX_WORK
      BY <2>2, <3>2, Zenon
    <3> QED BY <3>1, <3>3, ConstantsAssumption
  <2>4. index' \in 1..(Len(text_proposals') + 1)
    BY <2>1, <2>2
  <2>5. sub_graphs' \in Seq(Seq(Indices')) /\ 1..Len(sub_graphs') = {}
    BY <2>2
  <2> QED BY <2>2, <2>3, <2>4, <2>5 DEF ChainsInv
<1>2. CASE Link
  <2>1. /\ sub_graphs = <<>> /\ UNCHANGED <<pc, sub_graphs, text_proposals, work>>
        /\ pc = "link" /\ index \in Indices /\ index' = index + 1
    BY <1>2 DEF Link, ChainsInv
  <2>2. index' \in 1..(Len(text_proposals) + 1)
    BY <2>1 DEF IInv, ShapeInv, Indices
  <2> QED BY <2>1, <2>2 DEF ChainsInv
<1>3. CASE LinkDone
  <2>1. /\ sub_graphs = <<>> /\ UNCHANGED <<sub_graphs, text_proposals, graph, work>>
        /\ pc' = "group" /\ index' = 1
    BY <1>3 DEF LinkDone, ChainsInv
  <2>2. index' \in 1..(Len(text_proposals) + 1)
    BY <2>1 DEF IInv, ShapeInv
  <2>3. \A i \in Indices' : ~Passed(i)'
    BY <2>1 DEF Passed, Indices
  <2> QED BY <2>1, <2>2, <2>3 DEF ChainsInv
<1>4. CASE Group
  <2>1. CASE IsHead(index)
    BY <1>4, <2>1, NewChain DEF Group
  <2>2. CASE ~IsHead(index)
    BY <1>4, <2>2, NextProposal DEF Group
  <2> QED BY <2>1, <2>2
<1>5. CASE Walk
  <2>1. CASE Row = {}
    BY <1>5, <2>1, NextProposal DEF Walk, ChainsInv
  <2>2. CASE Row # {}
    BY <1>5, <2>2, WalkOn
  <2> QED BY <2>1, <2>2
<1>6. CASE GroupDone
  <2>1. /\ pc = "group" /\ index \notin Indices /\ pc' = "idle"
        /\ UNCHANGED <<text_proposals, graph, index, sub_graphs, work>>
    BY <1>6 DEF GroupDone
  <2>2. \A i : Passed(i)' = Passed(i)
    BY <2>1 DEF Passed
  <2> QED BY <2>1, <2>2, ChainsStable DEF ChainsInv
<1>7. CASE UNCHANGED vars
  <2>1. UNCHANGED <<pc, text_proposals, graph, index, sub_graphs, work>>
    BY <1>7 DEF vars
  <2>2. \A i : Passed(i)' = Passed(i)
    BY <2>1 DEF Passed
  <2> QED BY <2>1, <2>2, ChainsStable DEF ChainsInv
<1> QED BY <1>1, <1>2, <1>3, <1>4, <1>5, <1>6, <1>7 DEF Next

\* The invariant of the chains holds in every reachable state.
THEOREM ChainsInvariant == Spec => []ChainsInv
<1>1. Spec => [](IInv /\ ChainsInv)
  BY InitIInv, NextIInv, InitChains, NextChains, PTL DEF Spec
<1> QED BY <1>1, PTL

-----------------------------------------------------------------------------

\* Whatever the builder is called with, its variables keep their types: chains
\* are made of indices of the present image, the graph is one on them.
THEOREM TypeCorrect == Spec => []TypeOK
<1>1. IInv /\ ChainsInv => TypeOK
  <2> SUFFICES ASSUME IInv, ChainsInv PROVE TypeOK
    OBVIOUS
  <2>1. graph \in SUBSET (Indices \X Indices)
    BY DEF IInv, GraphInv, AllLinks
  <2> QED BY <2>1 DEF IInv, ShapeInv, ChainsInv, TypeOK
<1> QED BY <1>1, Invariant, ChainsInvariant, PTL

\* A proposal that is linked to another one is in a chain: otherwise there is a
\* leftmost one that is not; it is no head, so it has a predecessor, which is in a
\* chain, and the chain goes on to its only successor.
LEMMA LinkedInChain ==
    ASSUME IInv, ChainsInv, pc = "idle",
           NEW i \in Indices, After(i) \cup Before(i) # {}
    PROVE  \E n \in 1..Len(sub_graphs) : \E k \in 1..Len(sub_graphs[n]) : sub_graphs[n][k] = i
<1> DEFINE In(j) == \E n \in 1..Len(sub_graphs) :
                       \E k \in 1..Len(sub_graphs[n]) : sub_graphs[n][k] = j
           Lost == {j \in Indices : After(j) \cup Before(j) # {} /\ ~In(j)}
           D == {X(j) : j \in Lost}
<1> SUFFICES ASSUME Lost # {} PROVE FALSE
  OBVIOUS
<1>1. D \in SUBSET Nat /\ D # {}
  BY Coordinates DEF IInv
<1>2. PICK d \in D : \A e \in D : d <= e
  BY <1>1, LeastNumber
<1>3. PICK j \in Lost : d = X(j)
  BY <1>2
<1>4. j \in Indices /\ After(j) \cup Before(j) # {} /\ ~In(j)
  BY <1>3
<1>5. Before(j) # {}
  <2> SUFFICES ASSUME Before(j) = {} PROVE FALSE
    OBVIOUS
  <2>1. IsHead(j)
    BY <1>4 DEF IsHead
  <2>2. Passed(j)
    <3>1. index \in 1..(Len(text_proposals) + 1) /\ index \notin 1..Len(text_proposals)
      BY DEF ChainsInv, Indices
    <3>2. Len(text_proposals) \in Nat
      BY DEF IInv, ShapeInv
    <3> QED BY <1>4, <3>1, <3>2 DEF Passed, Indices
  <2>3. PICK n \in 1..Len(sub_graphs) : sub_graphs[n][1] = j
    BY <1>4, <2>1, <2>2 DEF ChainsInv
  <2>4. IsChain(sub_graphs[n])
    BY DEF ChainsInv
  <2>5. 1 \in 1..Len(sub_graphs[n])
    BY <2>4 DEF IsChain
  <2> QED BY <1>4, <2>3, <2>5
<1>6. PICK p \in Indices : <<p, j>> \in graph
  BY <1>5 DEF Before
<1>7. j \in After(p)
  BY <1>4, <1>6 DEF After
<1>8. X(p) < X(j)
  BY <1>6, EdgesRight DEF EdgesGoRight, Reach
<1>9. In(p)
  <2>1. p \in Lost => X(p) \in D
    OBVIOUS
  <2>2. X(p) \in Nat /\ X(j) \in Nat
    BY <1>4, Coordinates DEF IInv
  <2>3. p \notin Lost
    <3> HIDE DEF D, Lost
    <3>1. p \in Lost => X(j) <= X(p)
      BY <1>2, <1>3, <2>1
    <3> QED BY <1>8, <2>2, <3>1
  <2> QED BY <1>7, <2>3
<1>10. PICK n \in 1..Len(sub_graphs) : \E k \in 1..Len(sub_graphs[n]) : sub_graphs[n][k] = p
  BY <1>9
<1>11. PICK k \in 1..Len(sub_graphs[n]) : sub_graphs[n][k] = p
  BY <1>10
<1> DEFINE s == sub_graphs[n]
<1>12. IsChain(s) /\ IsEnded(s) /\ Len(s) \in Nat
  BY DEF ChainsInv, IsChain
<1>13. k # Len(s)
  BY <1>7, <1>11, <1>12 DEF IsEnded
<1>14. k \in 1..(Len(s) - 1) /\ k + 1 \in 1..Len(s)
  BY <1>12, <1>13
<1>15. <<p, s[k + 1]>> \in graph
  BY <1>11, <1>12, <1>14 DEF IsChain
<1>16. s[k + 1] = j
  <2>1. \A e, f \in graph : e[1] = f[1] => e[2] = f[2]
    BY EdgesRight DEF EdgesGoRight
  <2>2. <<p, s[k + 1]>>[1] = <<p, j>>[1] => <<p, s[k + 1]>>[2] = <<p, j>>[2]
    BY <1>6, <1>15, <2>1
  <2> QED BY <2>2
<1>17. In(j)
  BY <1>14, <1>16
<1> QED BY <1>4, <1>17

\* The chains that sub_graphs_connected returns leave out nothing that is linked,
\* take in nothing that is not, follow the links, and have no loops.
THEOREM ChainsAreComplete == Spec => []ChainsCover
<1>1. IInv /\ ChainsInv => ChainsCover
  <2> SUFFICES ASSUME IInv, ChainsInv, pc = "idle"
               PROVE  ChainsCover
    BY DEF ChainsCover
  <2>1. ASSUME NEW n \in 1..Len(sub_graphs), NEW k \in 1..Len(sub_graphs[n])
        PROVE  After(sub_graphs[n][k]) \cup Before(sub_graphs[n][k]) # {}
    <3> DEFINE s == sub_graphs[n]
    <3>1. IsChain(s)
      BY DEF ChainsInv
    <3>2. CASE k = 1
      BY <3>1, <3>2 DEF IsChain, IsHead
    <3>3. CASE k # 1
      <4>1. k - 1 \in 1..(Len(s) - 1) /\ (k - 1) + 1 = k /\ k - 1 \in 1..Len(s)
        BY <3>1, <3>3 DEF IsChain
      <4>2. <<s[k - 1], s[k]>> \in graph /\ s[k - 1] \in Indices
        BY <3>1, <4>1 DEF IsChain
      <4> QED BY <4>2 DEF Before
    <3> QED BY <3>2, <3>3
  <2>2. ASSUME NEW n \in 1..Len(sub_graphs), NEW k \in 1..(Len(sub_graphs[n]) - 1)
        PROVE  /\ <<sub_graphs[n][k], sub_graphs[n][k + 1]>> \in graph
               /\ \A r \in 1..k : sub_graphs[n][r] # sub_graphs[n][k + 1]
    <3> DEFINE s == sub_graphs[n]
    <3>1. IsChain(s) /\ Len(s) \in Nat
      BY DEF ChainsInv, IsChain
    <3>2. \A r \in 1..k : r \in 1..Len(s) /\ k + 1 \in 1..Len(s) /\ r < k + 1
      BY <3>1
    <3>3. \A r \in 1..k : X(s[r]) < X(s[k + 1])
      BY <3>1, <3>2 DEF IsChain
    <3>4. \A r \in 1..k : X(s[r]) \in Nat
      <4>1. \A r \in 1..k : s[r] \in Indices
        BY <3>1, <3>2 DEF IsChain
      <4>2. \A i \in Indices : X(i) \in Nat
        BY Coordinates DEF IInv
      <4> QED BY <4>1, <4>2
    <3>5. \A r \in 1..k : s[r] # s[k + 1]
      BY <3>3, <3>4
    <3> QED BY <3>1, <3>5 DEF IsChain
  <2> QED BY <2>1, <2>2, LinkedInChain DEF ChainsCover
<1> QED BY <1>1, Invariant, ChainsInvariant, PTL
=============================================================================
