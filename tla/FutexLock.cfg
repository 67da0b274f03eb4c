CONSTANTS
    Thread = {t1, t2, t3}
    Main = t1
    Half = 100
    Spins = 1
    NoThread = NoThread
SPECIFICATION FairSpec
INVARIANTS
    NoLostWakeup CountExact ElisionSound
PROPERTIES
    ImplementsLock Progress
