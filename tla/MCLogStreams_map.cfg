\* Four requests for one server in any order, one lost, one reconnect.
\* Behaviours end when the requests are used up, so a deadlock is no error.
SPECIFICATION FairSpec
CONSTANTS
    s1 = s1
    q1 = q1
    q2 = q2
    q3 = q3
    q4 = q4
    NoServer = NoServer
    NoReq = NoReq
    Servers <- MCOneServer
    Reqs <- MCReqs
    MaxDrops = 1
    MaxReconnects = 1
CHECK_DEADLOCK FALSE
INVARIANTS
    EntryLive
    StreamInMap
    ClosedMeansQuiet
PROPERTY
    CancelledEnds
