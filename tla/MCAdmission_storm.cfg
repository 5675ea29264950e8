\* Two approvals, a loss, a delete, a crash of the agent, on two connections.
SPECIFICATION Spec
CONSTANTS
    c1 = c1
    c2 = c2
    p1 = p1
    p2 = p2
    NoConn = NoConn
    NoToken = NoToken
    Conns <- MCConns
    Approvals <- MCApprovals
    MaxLosses = 1
    MaxDeletes = 1
    MaxRestarts = 1
SYMMETRY MCSymmetry
INVARIANTS
    PendingIsWatched
    ApprovalOwns
PROPERTY
    ApprovalStays
