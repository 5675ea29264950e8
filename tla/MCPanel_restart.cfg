\* Two clicks, or a click and a failure, on two servers while polls come and go.
SPECIFICATION PanelFairSpec
CONSTANTS
    Servers = {s1, s2}
    NoServer = NoServer
    MaxEvents = 2
    MaxPolls = 1
INVARIANTS
    PendingIsOwed
PROPERTIES
    RestartComes
    ViewConverges
