CONSTANTS
    None = None
    Threads = {t1, t2, t3}
    Sweepers = {t1}
    LockMark = "lock"
    Procs = {{t1, t2}, {t3}}
    Marks = {"lock", "uploaded"}
    LockIds = {l1, l2, l3}
    Inodes = {i1, i2}
SPECIFICATION Spec
INVARIANTS StateIsWhole OneCallInside
PROPERTY ImplementsFlagStore
SYMMETRY Symmetry
