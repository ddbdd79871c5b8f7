SPECIFICATION Spec
CONSTANTS
    Conns = {c1,c2}
    Handles = {h1,h2}
    Entities = {e1,e2}
    Endpoints = {g1,g2}
    Hosts = {x1,x2}
    None = None
    MaxQueued = 2
    Uses = {"reuse", "move"}
SYMMETRY Symmetry
INVARIANTS
    EventsReachTheirConnection
    DrainsOnlyItsOwn
    PolledOwnsItsHandle
    RoutesLeadHome
