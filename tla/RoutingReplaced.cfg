SPECIFICATION Spec
CONSTANTS
    Conns = {c1,c2}
    Handles = {h1}
    Entities = {e1,e2}
    Endpoints = {g1,g2}
    Hosts = {x1}
    None = None
    MaxQueued = 1
    Uses = {"replace"}
INVARIANT PolledOwnsItsHandle
