----------------------------- MODULE TrainLoop -----------------------------
(***************************************************************************)
(* main of main/train.py: the training loop, its checkpoints, and what is   *)
(* left when the process dies and is started again, with --restore or       *)
(* without.  The weights are known by the run they belong to, a run being   *)
(* what begins with a start without --restore; the learning rate by the     *)
(* number of times it has been multiplied by decay_rate.                    *)
(***************************************************************************)
EXTENDS Integers

CONSTANTS
    MAX_STEPS,        \* --max_steps
    DECAY_STEPS,      \* --decay_steps
    SAVE_STEPS,       \* --save_checkpoint_steps
    MAX_STARTS        \* bound on the starts of the process

ASSUME FlagsAssumption ==
    MAX_STEPS \in Nat /\ DECAY_STEPS \in Nat \ {0} /\ SAVE_STEPS \in Nat \ {0}
ASSUME StartsAssumption == MAX_STARTS \in Nat

VARIABLES
    pc,          \* "down", "train", "decay", "save", "publish" or "done"
    step,        \* the variable of the loop
    session,     \* the variables of the graph
    files,       \* what the checkpoint files hold, by the number in their name
    checkpoint,  \* the number that the file "checkpoint" points to, 0 for none
    starts,      \* history: the starts of the process
    trained      \* history: the steps the present run has made

vars == <<pc, step, session, files, checkpoint, starts, trained>>

Empty == [run |-> 0, global_step |-> 0, decays |-> 0]   \* a file never written

-----------------------------------------------------------------------------
(* Starting.                                                                 *)

\* Without --restore: the initializers, and the weights of VGG.  The directory of
\* the checkpoints is left as it is.
StartFresh ==
    /\ pc \in {"down", "done"}
    /\ starts < MAX_STARTS
    /\ starts' = starts + 1
    /\ session' = [run |-> starts', global_step |-> 0, decays |-> 0]
    /\ step' = 0
    /\ trained' = 0
    /\ pc' = "train"
    /\ UNCHANGED <<files, checkpoint>>

\* With --restore: step comes from the name of the file, the rest from its
\* contents.  Without a checkpoint, ckpt is None and main ends in an exception.
StartRestored ==
    /\ pc \in {"down", "done"}
    /\ starts < MAX_STARTS
    /\ starts' = starts + 1
    /\ checkpoint # 0
    /\ session' = files[checkpoint]
    /\ step' = checkpoint
    /\ trained' = checkpoint
    /\ pc' = "train"
    /\ UNCHANGED <<files, checkpoint>>

RestoreRaises ==
    /\ pc \in {"down", "done"}
    /\ starts < MAX_STARTS
    /\ starts' = starts + 1
    /\ checkpoint = 0
    /\ pc' = "down"
    /\ UNCHANGED <<step, session, files, checkpoint, trained>>

-----------------------------------------------------------------------------
(* The loop.                                                                 *)

Finish ==
    /\ pc = "train"
    /\ step >= MAX_STEPS
    /\ pc' = "done"
    /\ UNCHANGED <<step, session, files, checkpoint, starts, trained>>

\* next(data_generator) and sess.run: apply_gradients counts global_step.
Train ==
    /\ pc = "train"
    /\ step < MAX_STEPS
    /\ session' = [session EXCEPT !.global_step = @ + 1]
    /\ trained' = step + 1
    /\ pc' = "decay"
    /\ UNCHANGED <<step, files, checkpoint, starts>>

DecayDue == step # 0 /\ step % DECAY_STEPS = 0

Decay ==
    /\ pc = "decay"
    /\ session' = IF DecayDue THEN [session EXCEPT !.decays = @ + 1] ELSE session
    /\ pc' = "save"
    /\ UNCHANGED <<step, files, checkpoint, starts, trained>>

SaveDue == (step + 1) % SAVE_STEPS = 0

\* Mutant: the file is named after the step that has been made last.
Filename_Step == step

Filename == step + 1

Skip ==
    /\ pc = "save"
    /\ ~SaveDue
    /\ step' = step + 1
    /\ pc' = "train"
    /\ UNCHANGED <<session, files, checkpoint, starts, trained>>

\* saver.save writes the files of the step (in one step here, as Saver renames
\* them into place), then the file "checkpoint".  It keeps the last 100.
Save ==
    /\ pc = "save"
    /\ SaveDue
    /\ files' = [files EXCEPT ![Filename] = session]
    /\ pc' = "publish"
    /\ UNCHANGED <<step, session, checkpoint, starts, trained>>

\* Mutant: only the first checkpoint is published.
Published_Once == IF checkpoint = 0 THEN Filename ELSE checkpoint

Published == Filename

Publish ==
    /\ pc = "publish"
    /\ checkpoint' = Published
    /\ step' = step + 1
    /\ pc' = "train"
    /\ UNCHANGED <<session, files, starts, trained>>

\* The process is killed, the machine fails, or get_batch yields None and data[0]
\* raises TypeError.  What is in memory is lost.
Crash ==
    /\ pc \notin {"down", "done"}
    /\ pc' = "down"
    /\ UNCHANGED <<step, session, files, checkpoint, starts, trained>>

Init ==
    /\ pc = "down"
    /\ step = 0
    /\ session = Empty
    /\ files = [n \in 0 .. MAX_STEPS |-> Empty]
    /\ checkpoint = 0
    /\ starts = 0
    /\ trained = 0

Loop == Train \/ Decay \/ Skip \/ Save \/ Publish \/ Finish

Next == StartFresh \/ StartRestored \/ RestoreRaises \/ Loop \/ Crash

Spec == Init /\ [][Next]_vars

-----------------------------------------------------------------------------
(* Properties.                                                               *)

TypeOK ==
    /\ pc \in {"down", "train", "decay", "save", "publish", "done"}
    /\ step \in Nat
    /\ session \in [run : Nat, global_step : Nat, decays : Nat]
    /\ files \in [0 .. MAX_STEPS -> [run : Nat, global_step : Nat, decays : Nat]]
    /\ checkpoint \in 0 .. MAX_STEPS
    /\ starts \in 0 .. MAX_STARTS
    /\ trained \in Nat

\* The decays that n steps are due: one after each positive multiple of
\* DECAY_STEPS among the steps 0 .. n - 1.
DecaysAfter(n) == IF n = 0 THEN 0 ELSE (n - 1) \div DECAY_STEPS

InStep(s, n) == s.global_step = n /\ s.decays = DecaysAfter(n)

\* However often the process dies and whatever run the files belong to: the loop
\* counter, which restarts from a file name, agrees with global_step, which is in
\* the file, and the learning rate has been decayed exactly as often as in a
\* training without interruption; so it is in every file that can be restored.
InStepAlways ==
    /\ pc \in {"train", "done"} => InStep(session, step)
    /\ checkpoint # 0 => InStep(files[checkpoint], checkpoint)

\* A crash costs the present run SAVE_STEPS steps at most: unless --restore comes
\* back to the run within that distance, the run had made no more steps than that
\* and was not saved at all (the checkpoint then is one that an earlier run left
\* in the directory, and a restart continues that one).
LossBounded ==
    LET saved == IF checkpoint # 0 /\ files[checkpoint].run = session.run
                 THEN checkpoint ELSE 0
    IN  trained <= saved + SAVE_STEPS
=============================================================================
