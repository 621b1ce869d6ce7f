CONSTANTS
    Bufs = {u1, u2}
    MaxPinned = 1
    Procs = {p1, p2, p3}
    Blocks = {b1, b2, b3}
    Vals = {0, 1}
    None = None
    MaxFails = 1
SYMMETRY Alike
SPECIFICATION Spec
INVARIANTS CacheSound SleepersHaveWakers
PROPERTIES ImplementsStore PanicsOnlyWhenFull
