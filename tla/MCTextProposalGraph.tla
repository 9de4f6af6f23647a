------------------------ MODULE MCTextProposalGraph ------------------------
(* Small images for the text proposal graph.                                 *)
EXTENDS TextProposalGraph

CONSTANTS
    Widths,     \* the widths of the images
    Tops,       \* the tops of the boxes, all of height 10
    Scores,
    MaxBoxes    \* the most proposals of an image

BoxesUpTo(w) ==
    {[x |-> x, top |-> t, bottom |-> t + 9, score |-> s] :
        x \in 0..(w - 1), t \in Tops, s \in Scores}

\* detect() passes the proposals sorted by score.
ByScore(boxes) ==
    \A i \in 1..(Len(boxes) - 1) : boxes[i].score >= boxes[i + 1].score

MCCalls ==
    UNION {UNION {{[boxes |-> b, width |-> w] :
                      b \in {s \in [1..n -> BoxesUpTo(w)] : ByScore(s)}} :
                  n \in 0..MaxBoxes} : w \in Widths}
=============================================================================
