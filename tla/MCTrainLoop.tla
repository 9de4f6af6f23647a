---------------------------- MODULE MCTrainLoop ----------------------------
(* The training loop for TLC; the cfg gives the flags.                       *)
EXTENDS TrainLoop
=============================================================================
