CONSTANTS
    Absent = Absent
    w1 = w1
    w2 = w2
    p1 = p1
    p2 = p2
    i1 = i1
    i2 = i2
    i3 = i3
    i4 = i4
    i5 = i5
    u = u
    v = v
    Writer = {w1}
    Process = {p1}
    ProcessOf <- OneProcess
    Inode = {i1, i2, i3}
    Bar = {1, 2}
    Value = {u, v}
    Floor = {1, 2}
    SyncMayFail = FALSE
SPECIFICATION FileSpec
SYMMETRY Interchangeable
INVARIANTS
    WholeFile
    AckedIsStored
PROPERTIES
    RewritesWhatIsThere
