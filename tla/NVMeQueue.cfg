\* Two threads on rings of three slots.
CONSTANTS
    Procs = {t1, t2}
    Slots = 3
    NULL = NULL
SPECIFICATION FairSpec
INVARIANTS
    PhaseTellsNew
    OnePlace

    
