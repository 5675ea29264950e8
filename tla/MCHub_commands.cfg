\* One request and a browser that relays, stalls and leaves meet a reconnecting agent;
\* one-slot channels. The hub can wedge here (MCHub_wedge.cfg), so a deadlock is no
\* error of this run.
SPECIFICATION Spec
CONSTANTS
    c1 = c1
    c2 = c2
    n1 = n1
    r1 = r1
    r2 = r2
    u1 = u1
    NoConn = NoConn
    NoMsg = NoMsg
    Conns <- MCConns
    Names <- MCNames
    NameOf <- MCNameOf
    Requests <- MCOneRequest
    Target <- MCOneTarget
    UIs <- MCUIs
    MayStall <- MCUIs
    SendCap = 1
    RelayCap = 1
    MaxUIMsgs = 1
CHECK_DEADLOCK FALSE
SYMMETRY MCSymmetryConns
INVARIANTS
    NoChannelPanic
    RegistryLive
    NobodyHangs
    DeliveredOnce
PROPERTY
    ImplementsRelay
