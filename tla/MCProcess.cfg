CONSTANTS
    t1 = t1
    t2 = t2
    t3 = t3
    u1 = u1
    u2 = u2
    NoThread = NoThread
    Nobody = Nobody
    Anon = Anon
    Reserved = Reserved
    None = None
    Gone = Gone
    Thread = {t1, t2, t3}
    File = {1, 2}
    Inode = {1, 2, 3}
    Address = {1, 2, 3}
    COUNT = 2
    MaxRegister = 5
    MaxQuick = 2
    MaxForks = 3
    Copies = 1
    MaxHandlers = 3
    MaxCount = 2
    MaxCap = 2
    Nested <- SomeNested
    MayFork = TRUE
    MayPipe = TRUE
    Plans <- Lookups
SYMMETRY Symmetry
SPECIFICATION Spec
INVARIANTS
    NoneMissed ForkConsistent StreamsSound OneSemaphore AnswersRight
PROPERTIES
    InOrder
