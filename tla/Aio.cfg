CONSTANTS
    Request = {1, 2, 3}
    Canceller = {c1}
    Waiter = {s1, s2}
    Setups <- MCSetups
    Queue = {q1, q2}
    None = None
SPECIFICATION FairSpec
INVARIANTS
    QueueSound RequestsOrdered
PROPERTIES
    CallsEnd
CHECK_DEADLOCK FALSE
