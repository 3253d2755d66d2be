CONSTANTS
    None = None
    Threads = {t1, t3}
    Procs = {{t1}, {t3}}
    Sweepers = {t1}
    Marks = {"lock", "uploaded"}
    LockMark = "lock"
    LockIds = {l1, l2, l3}
    Inodes = {i1, i2, i3}
SPECIFICATION SweepSpec
PROPERTY OthersMarksStay
