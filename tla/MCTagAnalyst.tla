---------------------------- MODULE MCTagAnalyst ----------------------------
(* Small pages for TLC.                                                      *)
EXTENDS TagAnalyst

CONSTANTS
    Width,     \* the width of the pages
    Spans,     \* the first and the last column of a line
    Tops,      \* the y at which lines begin
    MaxLines   \* the most lines of a page

Upright(s, y) == [n \in 0..7 |-> CASE n \in {0, 6} -> s[1]
                                  [] n \in {2, 4} -> s[2]
                                  [] n \in {1, 3} -> y
                                  [] n \in {5, 7} -> y + 2]

\* A line that rises to the right.
Slanted == [n \in 0..7 |-> <<0, 3, 5, 1, 6, 4, 1, 6>>[n + 1]]

Lines == {Upright(s, y) : s \in Spans, y \in Tops} \cup {Slanted}

\* The order in which the detector gives the lines: one order of each set.
MCPages ==
    {[w |-> Width, base |-> 12, lines |-> SetToSeq(S)] :
        S \in {{}} \cup {Range(p) : p \in [1..MaxLines -> Lines]}}

MCSpans == {<<0, 4>>, <<0, 7>>, <<1, 12>>, <<3, 8>>, <<5, 9>>, <<6, 12>>, <<8, 12>>}
=============================================================================
