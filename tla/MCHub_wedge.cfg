\* The fair system with a channel that the messages in flight can fill.
SPECIFICATION FairSpec
CONSTANTS
    c1 = c1
    c2 = c2
    n1 = n1
    r1 = r1
    r2 = r2
    u1 = u1
    NoConn = NoConn
    NoMsg = NoMsg
    Conns <- MCConns
    Names <- MCNames
    NameOf <- MCNameOf
    Requests <- MCRequests
    Target <- MCTarget
    UIs <- MCNoUIs
    MayStall <- MCNoUIs
    SendCap = 1
    RelayCap = 1
    MaxUIMsgs = 0
CHECK_DEADLOCK FALSE
PROPERTY
    CallsReturn
