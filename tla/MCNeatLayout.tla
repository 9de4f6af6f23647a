---------------------------- MODULE MCNeatLayout ----------------------------
(* Small pages for TLC.                                                      *)
EXTENDS NeatLayout

CONSTANTS
    Xs, Ys, Ws, Hs,  \* the positions and the sizes of the blocks
    MaxBlocks,       \* the most blocks of a page
    Rows, Cols,      \* the sides of the page
    Texts            \* the numbers of text pixels

Blocks == {r \in [x : Xs, y : Ys, w : Ws, h : Hs] : Right(r) <= Cols /\ Bottom(r) <= Rows}

\* The pages of up to MaxBlocks blocks.  The order of the components says nothing:
\* one order of each set of blocks.
Pages == {{}} \cup {Range(p) : p \in [1..MaxBlocks -> Blocks]}

MCImages ==
    {[rows |-> Rows, cols |-> Cols, stats |-> SetToSeq(S), text |-> t] : S \in Pages, t \in Texts}

\* A configuration for pages of a few lines, one that gives only some keys, and
\* one with a negative count.
Lenient  == [k \in Keys |-> CASE k = "text_block_proportion" -> 1000
                              [] k = "text_proportion"       -> 100
                              [] k = "text_block_count"      -> 1
                              [] k = "text_block_width_std"  -> 1]
Partial  == [k \in {"text_block_width_std"} |-> 0]
Negative == [k \in {"text_block_count"} |-> -1]

MCGarbage  == {-5, 0, 7}
AllConfigs == {Lenient, Partial, Negative}
=============================================================================
