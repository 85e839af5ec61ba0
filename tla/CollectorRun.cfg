\* Two collectors; an answer is longer than the pipe.
SPECIFICATION Spec
CONSTANTS
    Last = 2
    OutSize = 2
    ErrSize = 0
    PipeCap = 1
INVARIANTS TypeOK NoSurvivor VerdictsJustified PromptStop
CHECK_DEADLOCK FALSE
