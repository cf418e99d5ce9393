SPECIFICATION CrewSpec
CONSTANTS
    u1 = u1
    u2 = u2
    v1 = v1
    e1 = e1
    e2 = e2
    e3 = e3
    d1 = d1
    d2 = d2
    d3 = d3
    r1 = r1
    r2 = r2
    Nobody = Nobody
    Stranger = Stranger
    Procs = {u1, u2, v1, e1, e2, e3}
    Unlockers = {u1, u2}
    Verifiers = {v1}
    Enrollers = {e1, e2, e3}
    Dirs = {d1, d2, d3}
    Roots = {r1, r2}
    Enrolled = {d1}
    DirOf <- MCDirOf
    RootOf <- MCRootOf
INVARIANTS
    SlotCanBeDerived
    OneDirectoryCanUnlock
    RecordIsTrue
    NoStaleRecord
PROPERTIES
    NeverOverwrites
