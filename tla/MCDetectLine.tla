---------------------------- MODULE MCDetectLine ----------------------------
(* Predictions for TLC, in the first columns of the grid; narrow images make *)
(* one of them the last.                                                     *)
EXTENDS DetectLine

CONSTANTS
    Columns, Scores, Extents,  \* Extents: pairs of a top and a bottom
    MaxPredictions             \* the most predictions of an image

Candidates ==
    {[column |-> c, anchor |-> a, y1 |-> Extents[a][1], y2 |-> Extents[a][2],
      score |-> s] : c \in Columns, a \in DOMAIN Extents, s \in Scores}

\* One prediction for an anchor.
MCOutputs ==
    {P \in {{f[n] : n \in DOMAIN f} : f \in [1..MaxPredictions -> Candidates]} \cup {{}} :
        \A p, q \in P : p.column = q.column /\ p.anchor = q.anchor => p = q}

\* One box that reaches over the top of the image, one that it covers by 0.7 when
\* clipped, and one that overlaps both by less than 0.7 but more than 0.2.
MCExtents == <<<<-6, 9>>, <<0, 11>>, <<5, 14>>>>
=============================================================================
