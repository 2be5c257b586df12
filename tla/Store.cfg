\* Two pool threads, one of which opened the store; b2 has a schema version
\* this code does not read; c3 lets one thread be replaced by a new one.
SPECIFICATION FairSpec
CONSTANTS
    Threads = {t1, t2}
    Opener = t1
    Conns = {c1, c2, c3}
    Builds = {b1, b2}
    Readable = {b1}
    NoThread = NoThread
    NoConn = NoConn
    NoBuild = NoBuild
    NoAnswer = NoAnswer
    StoreError = StoreError
    ProgrammingError = ProgrammingError
INVARIANTS
    TypeOK
    NoConnectionIsLeft
    ConnectionsAreNotShared
PROPERTIES
    OneBuildPerThread
    EveryCallReturns
    KeepsContract
