\* Two commands over each other; the server sends sizes that are legal or not.
\* Behaviours end when both are over, so a deadlock is no error.
SPECIFICATION FairSpec
CONSTANTS
    Cmds = {k1, k2}
    Sizes = {1, 3}
    MinSize = 2
    MaxSize = 3
    MaxFaults = 1
INVARIANTS
    TypeOK
    WholeAnswer
    ConsoleIsDialogue
    HistoryIsTrue
PROPERTY
    CommandEnds
CHECK_DEADLOCK FALSE
