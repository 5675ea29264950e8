\* Two servers are created, shown, edited, saved and started in any order; one query
\* fails unnoticed.
SPECIFICATION Spec
CONSTANTS
    s1 = s1
    s2 = s2
    q1 = q1
    u1 = u1
    t1 = t1
    Blank = Blank
    NoServer = NoServer
    Servers <- MCServers
    Keys <- MCKeys
    Values <- MCValues
    Typed <- MCTyped
    DefaultEnv <- MCDefaultEnv
    ModeEnv <- MCModeEnv
    Fetches <- MCFetches
    Saves <- MCSaves
    Starts <- MCStarts
    MaxHurries = 0
    MaxErrors = 1
SYMMETRY MCSymmetry
INVARIANTS
    FormIsOwn
    SaveLands
    SavedIsApplied
