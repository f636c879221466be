\* Two threads, two ordinary clients and one that may never send anything.
SPECIFICATION Spec
CONSTANTS
    None = None
    Threads = {t1, t2}
    Clients = {c1, c2, s}
    Silent = {s}
INVARIANTS
    TypeOK
    OneThreadWaits
    FlagNotLeaked
    ConnectionOwned
PROPERTIES
    ConnectionServed
    ImplementsConnectionLife
CHECK_DEADLOCK FALSE
