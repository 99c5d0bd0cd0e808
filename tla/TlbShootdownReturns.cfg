\* Two CPUs, two pages: does a shootdown always come back?
CONSTANTS
    CPUs = {c1, c2}
    Addrs = {v1, v2}
SPECIFICATION FairSpec
PROPERTIES
    ShootdownReturns
CHECK_DEADLOCK FALSE
