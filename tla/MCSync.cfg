CONSTANTS
    t1 = t1
    t2 = t2
    t3 = t3
    NoThread = NoThread
    Busy = Busy
    Dead = Dead
    Nil = Nil
    Thread = {t1, t2, t3}
    Peer = {t1, t2, t3, t4}
    Sharer = {t1, t2, t3}
    Waiter = {t1, t2, t3}
    Signaler = {s1}
    Types <- AllTypes
    MaxCount = 1
    MaxReaders = 2
    ValueMax = 2
    Initial = 0
    MaxUndo = 2
    MaxCalls = 4
    Limits = {1, 2}
    Sizes = {2, 3}
    Shared = {FALSE}
SYMMETRY Symmetry
SPECIFICATION Spec
INVARIANTS
    StateExact NoLostWakeup NobodyEarly NoDangling
PROPERTIES
    KeepsPromise
