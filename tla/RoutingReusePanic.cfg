SPECIFICATION Spec
CONSTANTS
    Conns = {c1,c2}
    Handles = {h1,h2}
    Entities = {e1}
    Endpoints = {g1}
    Hosts = {x1}
    None = None
    MaxQueued = 2
    Uses = {"reuse"}
INVARIANT EventsAreMapped
