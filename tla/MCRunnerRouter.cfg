CONSTANTS
    r1 = r1
    r2 = r2
    c1 = c1
    c2 = c2
    c3 = c3
    j1 = j1
    j2 = j2
    j3 = j3
    t1 = t1
    t2 = t2
    d1 = d1
    d2 = d2
    Runners = {r1, r2}
    Conns = {c1, c2, c3}
    Jobs = {j1, j2}
    Tools = {t1, t2}
    Devices = {d1, d2}
    BindingOf <- MCBindingOf
    HeartbeatTtl = 1
    JobTtl = 1
    NoRunner = NoRunner
    NoConn = NoConn
SPECIFICATION RouterFairSpec
INVARIANTS
    PresenceKept
    PendingOnCarrier
PROPERTIES
    AnsweredByCarrier
    DeliversJobs
    EveryJobSettles
