\* Decays and checkpoints that fall on different steps and on the same one.
SPECIFICATION Spec
CONSTANTS
    MAX_STEPS = 9
    DECAY_STEPS = 2
    SAVE_STEPS = 3
    MAX_STARTS = 5
INVARIANTS
    InStepAlways
    LossBounded
CHECK_DEADLOCK FALSE
