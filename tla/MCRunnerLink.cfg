CONSTANTS
    r1 = r1
    c1 = c1
    c2 = c2
    c3 = c3
    j1 = j1
    j2 = j2
    t1 = t1
    d1 = d1
    Runners = {r1}
    Conns = {c1, c2}
    Jobs = {j1, j2}
    Tools = {t1}
    Devices = {d1}
    BindingOf <- MCBindingOf
    HeartbeatTtl = 0
    JobTtl = 0
    NoRunner = NoRunner
    NoConn = NoConn
    Self = r1
    HostKeepsLoop = FALSE
    MaxFaults = 2
SPECIFICATION Spec
SYMMETRY Symmetry
INVARIANTS
    LinkSafety
    JobsKept
