CONSTANTS
    t1 = t1
    t2 = t2
    t3 = t3
    u1 = u1
    u2 = u2
    NoThread = NoThread
    Nobody = Nobody
    Anon = Anon
    Reserved = Reserved
    None = None
    Gone = Gone
    Thread = {t1, t2}
    File = {1, 2}
    Inode = {}
    Address = {}
    COUNT = 2
    MaxRegister = 2
    MaxQuick = 2
    MaxForks = 2
    Copies = 2
    MaxHandlers = 2
    MaxCount = 2
    MaxCap = 1
    Nested <- NoNested
    MayFork = FALSE
    MayPipe = FALSE
    Plans <- FewLookups
SPECIFICATION FairSpec
PROPERTIES
    WaitsEnd
