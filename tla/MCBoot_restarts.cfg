\* Two ends of the process or failed statements, one edit, any order of releases.
\* A master that serves waits once the bounds are used up, so a deadlock is no error.
SPECIFICATION FairSpec
CONSTANTS
    Servers = {s1}
    Columns <- MCColumns
    Values = {v1, v2}
    NoValue = NoValue
    Releases = {"r1", "r2"}
    NoRelease = NoRelease
    Games <- MCGames
    Ports <- MCPorts
    Modes <- MCModes
    Slugs = {"casual", "retakes", "arms"}
    MaxFaults = 2
    MaxEdits = 1
INVARIANTS
    SettingsKept
    GamesAsRegistered
PROPERTIES
    RebootsServe
    ImplementsSettings
CHECK_DEADLOCK FALSE
