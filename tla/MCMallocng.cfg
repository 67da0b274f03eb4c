CONSTANTS
    Two = {t1, t2}
    Three = {u1, u2, u3}
    Groups3 = {1, 2, 3}
    Groups2 = {1, 2}
    small = small
    big = big
    Large = Large
    Mapped = Mapped
    NoMeta = NoMeta
    NoThread = NoThread
    Rests = {0, 27, 39, 40, 44}
    MaxUsage = 130
SYMMETRY Symmetry
SPECIFICATION Spec
INVARIANTS
    SlotsAccounted PointerDecodes SizesRight
