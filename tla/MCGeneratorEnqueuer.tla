------------------------ MODULE MCGeneratorEnqueuer ------------------------
(* The batch pipeline with three workers.                                    *)
EXTENDS GeneratorEnqueuer

CONSTANTS w1, w2, w3

ThreeWorkers == {w1, w2, w3}
=============================================================================
