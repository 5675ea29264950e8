\* Nobody deletes the agent: one loss, one crash.
SPECIFICATION FairSpec
CONSTANTS
    c1 = c1
    c2 = c2
    p1 = p1
    p2 = p2
    NoConn = NoConn
    NoToken = NoToken
    Conns <- MCConns
    Approvals <- MCOneApproval
    MaxLosses = 1
    MaxDeletes = 0
    MaxRestarts = 1
PROPERTIES
    ApprovalAdmits
    PendingUntilApproved
