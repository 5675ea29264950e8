\* Three overlapping commands on one server, one fault. Behaviours end when the
\* commands are used up, so a deadlock is no error.
SPECIFICATION Spec
CONSTANTS
    s1 = s1
    a = a
    k1 = k1
    k2 = k2
    k3 = k3
    NoCmd = NoCmd
    NoServer = NoServer
    Servers <- MCOneServer
    Names <- MCNames
    ContainerName <- MCOneName
    Matches <- MCExact
    Cmds <- MCThreeCmds
    MaxFaults = 1
    MaxErrors = 1
CHECK_DEADLOCK FALSE
SYMMETRY MCSymmetry3
INVARIANTS
    VolumeUnderContainer
    RunningWasStarted
    RowIsTrue
    RowComesToRest
    NoOrphan
