SPECIFICATION Spec
CONSTANTS
    None = None
    t1 = t1
    t2 = t2
    a = a
    b = b
    bad = bad
    Tabs = {t1, t2}
    Direct = Direct
    Bodies = {a, b, bad}
    ValidBodies = {a, b}
    Changes = 2
    RunsLimit = 3
    MaxClicks = 2
    Uses <- MCUses
    SeedBodies <- MCSeedBodies
    SeedRuns <- MCSeedRuns
INVARIANT ReplaySameGeneration
CHECK_DEADLOCK FALSE
