\* put and get beside get_nowait, clear and cancellations.
SPECIFICATION Spec
CONSTANTS
    Putters = {p1, p2}
    Getters = {g1, g2}
    Items = {a, b}
    Stale = Stale
    MaxSizes = {0, 1, 2}
    Ops = {"get_nowait", "clear", "cancel"}
    MaxItems = 3
    MaxStale = 1
INVARIANT PutWaitsForSpace
