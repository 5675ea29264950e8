\* Four points of two agents, two histories fetched. Behaviours end when the points
\* are used up and the panel is left, so a deadlock is no error.
SPECIFICATION Spec
CONSTANTS
    Agents = {a1, a2}
    NoAgent = NoAgent
    Fetches = {f1, f2}
    Window = 2
    Capacities = {1, 3}
    MaxPoints = 4
INVARIANTS
    HeldIsStable
    WindowIsLatest
    ViewRecovers
SYMMETRY Symmetry
CHECK_DEADLOCK FALSE
