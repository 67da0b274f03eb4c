CONSTANTS
    t1 = t1
    t2 = t2
    t3 = t3
    Main = Main
    None = None
    NoThread = NoThread
    Nobody = Nobody
    Thread = {Main, t1}
    MaxCalls = 3
    MaxSignals = 2
    InlineKeys = 1
    Iterations = 2
    MaxCapacity = 2
    MaxCreates = 2
    MaxTls = 0
    MaxExpiry = 2
SPECIFICATION FairSpec
PROPERTIES
    WaitsEnd
