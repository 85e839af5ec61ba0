\* One collector always comes to an end, whatever its worker does; both answers are
\* longer than their pipes.
SPECIFICATION FairSpec
CONSTANTS
    Last = 1
    OutSize = 2
    ErrSize = 2
    PipeCap = 1
PROPERTIES Returns Heard
CHECK_DEADLOCK FALSE
