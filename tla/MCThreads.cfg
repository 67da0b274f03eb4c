CONSTANTS
    t1 = t1
    t2 = t2
    t3 = t3
    Main = Main
    None = None
    NoThread = NoThread
    Nobody = Nobody
    Thread = {Main, t1, t2}
    MaxCalls = 3
    MaxSignals = 3
    InlineKeys = 1
    Iterations = 2
    MaxCapacity = 4
    MaxCreates = 3
    MaxTls = 2
    MaxExpiry = 3
SYMMETRY Symmetry
SPECIFICATION Spec
INVARIANTS
    NoDangling NobodyForgotten DataCurrent
PROPERTIES
    CancelObeys
