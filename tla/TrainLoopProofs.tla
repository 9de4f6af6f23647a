-------------------------- MODULE TrainLoopProofs --------------------------
(***************************************************************************)
(* Safety of the training loop for every choice of the flags and any number *)
(* of starts and crashes.                                                   *)
(***************************************************************************)
EXTENDS TrainLoop, TLAPS

Records == [run : Nat, global_step : Nat, decays : Nat]

\* The steps that the present run has made at the head of the loop's next round.
Ahead == IF pc \in {"train", "done"} THEN step ELSE step + 1

Saved == IF checkpoint # 0 /\ files[checkpoint].run = session.run THEN checkpoint ELSE 0

\* Where the session is in each part of the loop's body.
LoopInv ==
    /\ pc \in {"train", "done"} => InStep(session, step)
    /\ pc = "decay" => session.global_step = step + 1 /\ session.decays = DecaysAfter(step)
    /\ pc \in {"save", "publish"} => InStep(session, step + 1)
    /\ pc \in {"decay", "save", "publish"} => step < MAX_STEPS
    /\ pc # "down" => trained = Ahead /\ session.run # 0

\* A file that has been written holds the state of the step in its name, and the
\* pointer names one of those.
FilesInv ==
    /\ \A n \in 0 .. MAX_STEPS :
          /\ files[n].run # 0 => InStep(files[n], n)
          /\ files[n].run <= starts
    /\ checkpoint # 0 => files[checkpoint].run # 0
    /\ checkpoint % SAVE_STEPS = 0
    /\ session.run <= starts
    /\ pc = "publish" => files[step + 1] = session /\ (step + 1) % SAVE_STEPS = 0

\* The last checkpoint of the run is less than SAVE_STEPS rounds behind.
LossInv ==
    /\ trained <= Saved + SAVE_STEPS
    /\ pc # "down" => step < Saved + SAVE_STEPS
    /\ pc \in {"train", "done", "decay", "save"} => Saved <= step

IInv == TypeOK /\ LoopInv /\ FilesInv /\ LossInv

-----------------------------------------------------------------------------

\* What division leaves.
LEMMA DivMod ==
    ASSUME NEW D \in Nat \ {0}, NEW n \in Int
    PROVE  n = D * (n \div D) + (n % D) /\ n % D \in 0 .. (D - 1) /\ n \div D \in Int
BY SMTT(30)

\* The next multiple.
LEMMA NextMultiple ==
    ASSUME NEW D \in Nat \ {0}, NEW n \in Int, n % D = 0
    PROVE  (n + D) % D = 0
<1>1. n = D * (n \div D) /\ n \div D \in Int
  BY DivMod
<1>2. PICK q \in Int : n = D * q
  BY <1>1
<1>3. n + D = D * (q + 1) + 0
  BY <1>2
<1>4. (D * (q + 1) + 0) % D = 0
  BY SMTT(30)
<1> QED BY <1>3, <1>4

\* Once more after a multiple of the period, and only then.
LEMMA DecayCount ==
    ASSUME NEW n \in Nat
    PROVE  /\ DecaysAfter(n) \in Nat
           /\ DecaysAfter(n + 1) = IF n # 0 /\ n % DECAY_STEPS = 0
                                   THEN DecaysAfter(n) + 1 ELSE DecaysAfter(n)
<1> DEFINE D == DECAY_STEPS
<1>0. D \in Nat \ {0}
  BY FlagsAssumption
<1> HIDE DEF D
<1>1. CASE n = 0
  <2>1. 0 \div D = 0
    BY <1>0, SMTT(30)
  <2> QED BY <1>1, <2>1 DEF DecaysAfter, D
<1>2. CASE n # 0
  <2>1. n \div D \in Nat /\ (n - 1) \div D \in Nat
    BY <1>0, <1>2, SMTT(30)
  <2>2. n % D = 0 => n \div D = (n - 1) \div D + 1
    BY <1>0, <1>2, SMTT(30)
  <2>3. n % D # 0 => n \div D = (n - 1) \div D
    BY <1>0, <1>2, SMTT(30)
  <2>4. DecaysAfter(n) = (n - 1) \div D /\ DecaysAfter(n + 1) = n \div D
    BY <1>2 DEF DecaysAfter, D
  <2> QED BY <1>2, <2>1, <2>2, <2>3, <2>4 DEF D
<1> QED BY <1>1, <1>2

\* An empty directory and no process.
LEMMA InitIInv == Init => IInv
<1> SUFFICES ASSUME Init PROVE IInv
  OBVIOUS
<1>1. TypeOK
  BY FlagsAssumption, StartsAssumption DEF Init, TypeOK, Empty
<1>2. 0 % SAVE_STEPS = 0
  BY FlagsAssumption, SMTT(30)
<1> QED BY <1>1, <1>2, FlagsAssumption DEF Init, IInv, LoopInv, FilesInv, LossInv, Saved, Empty

\* The three ways to start.
LEMMA StartStep ==
    ASSUME IInv, StartFresh \/ StartRestored \/ RestoreRaises
    PROVE  IInv'
<1>1. CASE StartFresh
  <2>1. TypeOK'
    BY <1>1, StartsAssumption DEF IInv, TypeOK, StartFresh
  <2>2. LoopInv'
    BY <1>1 DEF IInv, TypeOK, LoopInv, Ahead, StartFresh, InStep, DecaysAfter
  <2>3. FilesInv'
    BY <1>1 DEF IInv, TypeOK, FilesInv, StartFresh, InStep, DecaysAfter
  <2>4. Saved' = 0
    BY <1>1 DEF IInv, TypeOK, FilesInv, StartFresh, Saved
  <2>5. LossInv'
    BY <1>1, <2>4, FlagsAssumption DEF LossInv, StartFresh
  <2> QED BY <2>1, <2>2, <2>3, <2>5 DEF IInv
<1>2. CASE StartRestored
  <2>1. TypeOK'
    BY <1>2, FlagsAssumption, StartsAssumption DEF IInv, TypeOK, StartRestored
  <2>2. LoopInv'
    BY <1>2 DEF IInv, TypeOK, LoopInv, FilesInv, Ahead, StartRestored, InStep, DecaysAfter
  <2>3. FilesInv'
    BY <1>2 DEF IInv, TypeOK, FilesInv, StartRestored, InStep, DecaysAfter
  <2>4. Saved' = checkpoint
    BY <1>2 DEF IInv, TypeOK, StartRestored, Saved
  <2>5. LossInv'
    BY <1>2, <2>4, FlagsAssumption DEF IInv, TypeOK, LossInv, StartRestored
  <2> QED BY <2>1, <2>2, <2>3, <2>5 DEF IInv
<1>3. CASE RestoreRaises
  <2>1. TypeOK' /\ LoopInv'
    BY <1>3, StartsAssumption DEF IInv, TypeOK, LoopInv, RestoreRaises
  <2>2. FilesInv' /\ LossInv'
    BY <1>3 DEF IInv, TypeOK, FilesInv, LossInv, Saved, RestoreRaises, InStep, DecaysAfter
  <2> QED BY <2>1, <2>2 DEF IInv
<1> QED BY <1>1, <1>2, <1>3

\* The body of the loop.
LEMMA LoopStep ==
    ASSUME IInv, Loop \/ Crash
    PROVE  IInv'
<1>1. CASE Train
  <2>1. TypeOK'
    <3>1. session' = [run |-> session.run, global_step |-> session.global_step + 1,
                      decays |-> session.decays]
      BY <1>1 DEF IInv, TypeOK, Train
    <3>2. session.run \in Nat /\ session.global_step + 1 \in Nat /\ session.decays \in Nat
      BY DEF IInv, TypeOK
    <3>3. session' \in [run : Nat, global_step : Nat, decays : Nat]
      BY <3>1, <3>2
    <3>4. /\ pc' = "decay" /\ trained' \in Nat
          /\ UNCHANGED <<step, files, checkpoint, starts>>
      BY <1>1 DEF IInv, TypeOK, Train
    <3> QED BY <3>3, <3>4 DEF IInv, TypeOK
  <2>2. LoopInv'
    BY <1>1 DEF IInv, TypeOK, LoopInv, Ahead, Train, InStep, DecaysAfter
  <2>3. FilesInv' /\ Saved' = Saved
    BY <1>1 DEF IInv, TypeOK, FilesInv, Saved, Train, InStep, DecaysAfter
  <2>4. Saved \in Int
    BY DEF IInv, TypeOK, Saved
  <2>5. LossInv'
    <3>1. pc = "train" /\ pc' = "decay" /\ step' = step /\ trained' = step + 1
      BY <1>1 DEF Train
    <3>2. step \in Nat /\ step < Saved + SAVE_STEPS /\ Saved <= step
      BY <3>1 DEF IInv, TypeOK, LossInv
    <3>3. step + 1 <= Saved + SAVE_STEPS
      BY <2>4, <3>2, FlagsAssumption
    <3> QED BY <2>3, <3>1, <3>2, <3>3 DEF LossInv
  <2> QED BY <2>1, <2>2, <2>3, <2>5 DEF IInv
<1>2. CASE Decay
  <2>1. TypeOK'
    BY <1>2 DEF IInv, TypeOK, Decay
  <2>2. session'.global_step = step + 1 /\ session'.decays = DecaysAfter(step + 1)
    BY <1>2, DecayCount DEF IInv, TypeOK, LoopInv, Decay, DecayDue
  <2>3. LoopInv'
    BY <1>2, <2>2 DEF IInv, TypeOK, LoopInv, Ahead, Decay, InStep, DecaysAfter
  <2>4. session'.run = session.run
    BY <1>2 DEF IInv, TypeOK, Decay
  <2>5. FilesInv' /\ Saved' = Saved
    BY <1>2, <2>4 DEF IInv, TypeOK, FilesInv, Saved, Decay, InStep, DecaysAfter
  <2>6. LossInv'
    BY <1>2, <2>5 DEF IInv, TypeOK, LossInv, Decay
  <2> QED BY <2>1, <2>3, <2>5, <2>6 DEF IInv
<1>3. CASE Skip
  <2>1. TypeOK'
    BY <1>3 DEF IInv, TypeOK, Skip
  <2>2. LoopInv'
    BY <1>3 DEF IInv, TypeOK, LoopInv, Ahead, Skip, InStep, DecaysAfter
  <2>3. FilesInv' /\ Saved' = Saved
    BY <1>3 DEF IInv, TypeOK, FilesInv, Saved, Skip, InStep, DecaysAfter
  <2>4. 0 % SAVE_STEPS = 0
    BY FlagsAssumption, SMTT(30)
  <2>5. Saved \in Nat /\ Saved % SAVE_STEPS = 0
    BY <2>4 DEF IInv, TypeOK, FilesInv, Saved
  <2>6. (Saved + SAVE_STEPS) % SAVE_STEPS = 0
    <3>1. Saved \in Int /\ SAVE_STEPS \in Nat \ {0}
      BY <2>5, FlagsAssumption
    <3> HIDE DEF Saved
    <3> QED BY <2>5, <3>1, NextMultiple, Zenon
  <2>7. step + 1 # Saved + SAVE_STEPS
    BY <1>3, <2>6 DEF Skip, SaveDue
  <2>8. LossInv'
    <3>1. /\ pc' = "train" /\ step' = step + 1 /\ trained' = trained
          /\ step \in Nat /\ trained \in Nat /\ SAVE_STEPS \in Nat
          /\ trained <= Saved + SAVE_STEPS /\ step < Saved + SAVE_STEPS /\ Saved <= step
      BY <1>3, FlagsAssumption DEF IInv, TypeOK, LossInv, Skip
    <3> QED BY <2>3, <2>5, <2>7, <3>1 DEF LossInv
  <2> QED BY <2>1, <2>2, <2>3, <2>8 DEF IInv
<1>4. CASE Save
  <2>1. step + 1 \in 0 .. MAX_STEPS
    BY <1>4, FlagsAssumption DEF IInv, TypeOK, LoopInv, Save
  <2>2. TypeOK'
    BY <1>4, <2>1 DEF IInv, TypeOK, Save, Filename
  <2>3. LoopInv'
    BY <1>4 DEF IInv, TypeOK, LoopInv, Ahead, Save, InStep, DecaysAfter
  <2>4. session.run # 0 /\ session.run <= starts /\ InStep(session, step + 1)
    BY <1>4 DEF IInv, TypeOK, LoopInv, FilesInv, Save
  <2>5. \A n \in 0 .. MAX_STEPS : files'[n] = IF n = step + 1 THEN session ELSE files[n]
    BY <1>4, <2>1 DEF IInv, TypeOK, Save, Filename
  <2>6. \A n \in 0 .. MAX_STEPS : /\ files'[n].run # 0 => InStep(files'[n], n)
                                  /\ files'[n].run <= starts
    BY <2>4, <2>5 DEF IInv, FilesInv
  <2>7. FilesInv'
    BY <1>4, <2>1, <2>4, <2>5, <2>6 DEF IInv, TypeOK, FilesInv, Save, SaveDue, InStep, DecaysAfter
  <2>8. Saved \in Nat /\ Saved' \in Nat /\ Saved <= Saved'
    BY <1>4, <2>1, <2>5 DEF IInv, TypeOK, Saved, Save
  <2>9. /\ pc' = "publish" /\ step' = step /\ trained' = trained
        /\ step \in Nat /\ trained \in Nat /\ SAVE_STEPS \in Nat
        /\ trained <= Saved + SAVE_STEPS /\ step < Saved + SAVE_STEPS
    BY <1>4, FlagsAssumption DEF IInv, TypeOK, LossInv, Save
  <2>10. /\ trained' <= Saved' + SAVE_STEPS
         /\ step' < Saved' + SAVE_STEPS
    <3>1. PICK a \in Nat : a = Saved
      BY <2>8, Zenon
    <3>2. PICK b \in Nat : b = Saved'
      BY <2>8, Zenon
    <3>3. a <= b
      BY <2>8, <3>1, <3>2, Zenon
    <3>4. trained <= a + SAVE_STEPS /\ step < a + SAVE_STEPS
      BY <2>9, <3>1, Zenon
    <3>5. trained <= b + SAVE_STEPS /\ step < b + SAVE_STEPS
      BY <2>9, <3>3, <3>4
    <3> QED BY <2>9, <3>2, <3>5, Zenon
  <2>11. LossInv'
    BY <2>9, <2>10 DEF LossInv
  <2> QED BY <2>2, <2>3, <2>7, <2>11 DEF IInv
<1>5. CASE Publish
  <2>1. step + 1 \in 0 .. MAX_STEPS
    BY <1>5, FlagsAssumption DEF IInv, TypeOK, LoopInv, Publish
  <2>2. TypeOK'
    BY <1>5, <2>1 DEF IInv, TypeOK, Publish, Published, Filename
  <2>3. LoopInv'
    BY <1>5 DEF IInv, TypeOK, LoopInv, Ahead, Publish, InStep, DecaysAfter
  <2>4. files[step + 1] = session /\ session.run # 0 /\ (step + 1) % SAVE_STEPS = 0
    BY <1>5 DEF IInv, TypeOK, LoopInv, FilesInv, Publish
  <2>5. FilesInv'
    BY <1>5, <2>4 DEF IInv, TypeOK, FilesInv, Publish, Published, Filename, InStep, DecaysAfter
  <2>6. Saved' = step + 1
    BY <1>5, <2>1, <2>4 DEF IInv, TypeOK, Saved, Publish, Published, Filename
  <2>7. LossInv'
    BY <1>5, <2>6, FlagsAssumption DEF IInv, TypeOK, LoopInv, Ahead, LossInv, Publish
  <2> QED BY <2>2, <2>3, <2>5, <2>7 DEF IInv
<1>6. CASE Finish \/ Crash
  <2>1. TypeOK' /\ LoopInv'
    BY <1>6 DEF IInv, TypeOK, LoopInv, Ahead, Finish, Crash, InStep, DecaysAfter
  <2>2. /\ UNCHANGED <<step, session, files, checkpoint, starts, trained>>
        /\ pc' = "down" \/ (pc = "train" /\ pc' = "done")
    BY <1>6 DEF Finish, Crash
  <2>3. Saved' = Saved
    BY <2>2 DEF Saved
  <2>4. FilesInv'
    BY <2>2 DEF IInv, FilesInv, InStep, DecaysAfter
  <2>5. LossInv'
    BY <2>2, <2>3 DEF IInv, LossInv
  <2> QED BY <2>1, <2>4, <2>5 DEF IInv
<1> QED BY <1>1, <1>2, <1>3, <1>4, <1>5, <1>6 DEF Loop

\* Every step preserves the invariant.
LEMMA NextIInv == IInv /\ [Next]_vars => IInv'
<1> SUFFICES ASSUME IInv, [Next]_vars PROVE IInv'
  OBVIOUS
<1>1. CASE UNCHANGED vars
  BY <1>1 DEF vars, IInv, TypeOK, LoopInv, Ahead, FilesInv, LossInv, Saved, InStep, DecaysAfter
<1> QED BY <1>1, StartStep, LoopStep DEF Next

\* The strengthened invariant holds in every reachable state.
THEOREM Invariant == Spec => []IInv
BY InitIInv, NextIInv, PTL DEF Spec

-----------------------------------------------------------------------------

\* Every variable keeps its type.
THEOREM TypeCorrect == Spec => []TypeOK
<1>1. IInv => TypeOK
  BY DEF IInv
<1> QED BY <1>1, Invariant, PTL

\* For all flags and through any number of crashes and restarts, the loop counter
\* is global_step, and the learning rate is the one of an uninterrupted training.
THEOREM RestartsKeepStep == Spec => []InStepAlways
<1>1. IInv => InStepAlways
  BY DEF IInv, TypeOK, LoopInv, FilesInv, InStepAlways
<1> QED BY <1>1, Invariant, PTL

\* For all flags, a crash costs the present run SAVE_STEPS steps at most.
THEOREM CrashCostsLittle == Spec => []LossBounded
<1>1. IInv => LossBounded
  BY DEF IInv, LossInv, Saved, LossBounded
<1> QED BY <1>1, Invariant, PTL
=============================================================================
