SPECIFICATION FairSpec
CONSTANTS
    Conns = {c1,c2}
    Handles = {h1}
    Entities = {e1,e2}
    Endpoints = {g1}
    Hosts = {x1}
    None = None
    MaxQueued = 2
    Uses = {"observer"}
PROPERTIES
    DrainedLeavesItsEntity
    AbandonedHandleIsFreed
    FramesGoOn
