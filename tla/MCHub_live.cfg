\* Channels that hold every message there is: each send fits, so nothing blocks
\* for good, whatever connections do.
SPECIFICATION FairSpec
CONSTANTS
    c1 = c1
    c2 = c2
    n1 = n1
    r1 = r1
    r2 = r2
    u1 = u1
    NoConn = NoConn
    NoMsg = NoMsg
    Conns <- MCConns
    Names <- MCNames
    NameOf <- MCNameOf
    Requests <- MCOneRequest
    Target <- MCOneTarget
    UIs <- MCNoUIs
    MayStall <- MCNoUIs
    SendCap = 1
    RelayCap = 1
    MaxUIMsgs = 0
PROPERTIES
    CallsReturn
    AgentsServed
    WritersEnd
