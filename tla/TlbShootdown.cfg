\* Three CPUs, two pages.  Two concurrent shootdowns block each other, so that
\* the system really stops.
CONSTANTS
    CPUs = {c1, c2, c3}
    Addrs = {v1, v2}
SPECIFICATION Spec
SYMMETRY Sym
INVARIANTS
    NoStaleWriteAccess
    AcksBelongToThisShootdown
CHECK_DEADLOCK FALSE
