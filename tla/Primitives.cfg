\* The queue with every operation and cancellation; the locks; ids of processes
\* that fork while their threads draw.
SPECIFICATION MCSpec
CONSTANTS
    Putters = {p1, p2}
    Getters = {g1, g2}
    Items = {a, b}
    Stale = Stale
    MaxSizes = {0, 1, 2}
    Ops = {"put_nowait", "get_nowait", "clear", "cancel", "task_cancel"}
    MaxItems = 3
    MaxStale = 1
    Tasks = {t1, t2, t3}
    Pids = {q1, q2}
    Threads = {h1, h2}
    MaxCounterValue = 1
    MaxDraws = 3
    MaxBirths = 3
INVARIANTS TypesOK NoLostWakeup OneOwner NoSleeperUnlocked UniqueIds StaleOnlyInWindow
PROPERTIES FifoSpec GettersServed WaiterEnters
\* every process may have ended
CHECK_DEADLOCK FALSE
