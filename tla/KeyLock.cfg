SPECIFICATION FairSpec
CONSTANTS
    Callers = {c1, c2, c3, c4}
    None = None
INVARIANTS TypeOK Exclusive EntryWhileBusy
PROPERTIES ImplementsFifo EachIsServed
CHECK_DEADLOCK FALSE
