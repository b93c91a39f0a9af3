SPECIFICATION LockSpec
CONSTANTS
    s1 = s1  s2 = s2  w1 = w1
    Sessions = {s1, s2}
    Workers = {w1}
    Sweeper = sweeper
    Reloader = reloader
    Capacity = 1
    PoolSize = 2
    MaxCommands = 3
    MaxReloads = 1
    MaxSilent = 1
INVARIANT DrainLosesFew
PROPERTIES EveryoneFinishes ShutdownEnds
CHECK_DEADLOCK FALSE
