------------------------- MODULE MCTrainingTargets -------------------------
(* Images of two columns and three rows, or of one cell, with up to two       *)
(* polygons.                                                                 *)
EXTENDS TrainingTargets

CONSTANTS
    Lefts, Rights,     \* the sides of the polygons
    Tops, Bottoms,     \* and their corners
    Margin             \* between a polygon and the right edge

Polys(w, h) ==
    {p \in [x0 : Lefts, x1 : Rights, lt : Tops, rt : Tops, rb : Bottoms, lb : Bottoms] :
        /\ p.x0 < p.x1 /\ p.x1 <= w - Margin
        /\ p.lt < p.lb /\ p.lb < h
        /\ p.rt < p.rb /\ p.rb < h}

ImagesOf(w, h) ==
    {[w |-> w, h |-> h, polys |-> {p, q}] : p \in Polys(w, h), q \in Polys(w, h)}
        \cup {[w |-> w, h |-> h, polys |-> {}]}

MCImages == ImagesOf(32, 48) \cup ImagesOf(16, 16)
=============================================================================
